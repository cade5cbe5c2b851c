------------------------------ MODULE Protocol ------------------------------
(***************************************************************************)
(* One connection: a client in the calls of API.c, the handlers of         *)
(* workerFunctions.c that serve it, and the two byte streams of the socket *)
(* between them, over one file with the bytes of PageLayout.               *)
(*                                                                         *)
(* A stream is a sequence of fields, each what one writeNB writes: its     *)
(* kind and what the code tells apart of its value.  The bytes carry no    *)
(* kinds: a side that reads another field than the one it expects is out   *)
(* of step.  A path and its length are one field; every path is the path   *)
(* of the one file, every pid the pid of the one client.                   *)
(*                                                                         *)
(* Both sides work alike: what is left to write (sending) or to read       *)
(* (expects, reading) goes first, one field a step, and then the next      *)
(* piece of the call or of the handler runs.  Other connections appear as  *)
(* the removal or eviction of the file (otherClient); what they do inside  *)
(* a handler is the subject of WorkerFunctions.                            *)
(***************************************************************************)
EXTENDS PageLayout

CONSTANTS
    MaxCalls,       \* bound: how many calls the client makes
    Sizes,          \* the sizes of contents it writes and appends
    Unsent          \* the value of a variable readNB has left as it was

ASSUME ProtocolAssumption ==
    /\ MaxCalls \in Nat
    /\ Sizes \subseteq Nat \ {0}
    /\ Unsent \notin Sizes /\ Unsent # "ours"

VARIABLES
    toServer, toClient,         \* the two directions of the socket
    cl, arg,                    \* the client: where its call stands, and n
    sending, expects, answers,  \* left to write, to read, and what it has read
    at,                         \* the handler: where it stands
    reading, got,               \* what it has still to read, and what it has read
    present, opens,             \* is the file in the table; clients_opened
    closed, reset,              \* the client's end is closed, with data unread
    acked,                      \* bytes of the file the client was told are stored
    spoiled,                    \* an answer has more or less bytes than are read
    cut,                        \* the client died in the middle of a call
    status,                     \* "running", or what went wrong
    calls

streams == <<toServer, toClient>>
clientVars == <<cl, arg, sending, expects, answers, acked, calls>>
serverVars == <<at, reading, got, present, opens>>
endVars == <<closed, reset, cut, spoiled>>
vars == <<layoutVars, streams, clientVars, serverVars, endVars, status>>

Field(kind, val) == [kind |-> kind, val |-> val]
Func(f) == Field("func", f)
Path == Field("path", "ours")
Pid == Field("pid", "ours")
Wrong == {"outOfStep", "wildCall", "nullDeref", "badIndex"}

Init ==
    /\ LayoutInit
    /\ toServer = <<>> /\ toClient = <<>>
    /\ cl = "idle" /\ arg = 0
    /\ sending = <<>> /\ expects = <<>> /\ answers = <<>>
    /\ at = "func" /\ reading = <<"func">> /\ got = <<>>
    /\ present = FALSE /\ opens = 0
    /\ closed = FALSE /\ reset = FALSE
    /\ acked = 0 /\ spoiled = FALSE /\ cut = FALSE
    /\ status = "running" /\ calls = 0

-----------------------------------------------------------------------------
(* The client's end of the socket.                                         *)

Running == status = "running"

(* The next piece of the call waiting at l may run.                        *)
Ready(l) == Running /\ cl = l /\ sending = <<>> /\ expects = <<>>

Ask(fields, kinds, l) ==
    /\ sending' = fields
    /\ expects' = kinds
    /\ answers' = <<>>
    /\ cl' = l

Return == Ask(<<>>, <<>>, "idle")

sendToSocket ==
    /\ Running /\ ~closed
    /\ sending # <<>>
    /\ toServer' = Append(toServer, Head(sending))
    /\ sending' = Tail(sending)
    /\ UNCHANGED <<layoutVars, toClient, cl, arg, expects, answers, acked, calls,
                   serverVars, endVars, status>>

(* Contents are read up to the size announced (arg); what there is more of *)
(* stays in the stream.                                                    *)
taken(x) == IF x.kind = "contents" THEN SubSeq(x.val, 1, arg) ELSE x.val
rest(x) ==
    IF x.kind = "contents" /\ Len(x.val) > arg
    THEN <<Field("contents", SubSeq(x.val, arg + 1, Len(x.val)))>> ELSE <<>>

Fits(x) == x.kind = Head(expects) /\ (x.kind = "contents" => Len(x.val) >= arg)

readAnswer ==
    /\ Running /\ ~closed
    /\ sending = <<>> /\ expects # <<>> /\ toClient # <<>>
    /\ Fits(Head(toClient))
    /\ answers' = Append(answers, taken(Head(toClient)))
    /\ toClient' = rest(Head(toClient)) \o Tail(toClient)
    /\ expects' = Tail(expects)
    /\ UNCHANGED <<layoutVars, toServer, cl, arg, sending, acked, calls,
                   serverVars, endVars, status>>

-----------------------------------------------------------------------------
(* The calls of API.c.  Each of these is a piece of a call between what it *)
(* has read and what it reads next.                                        *)

Begin ==
    /\ Ready("idle")
    /\ calls < MaxCalls
    /\ calls' = calls + 1
    /\ UNCHANGED acked

Continue(l) == Ready(l) /\ UNCHANGED calls

(* A piece leaves everything but the client alone.                         *)
ClientOnly == UNCHANGED <<layoutVars, streams, serverVars, endVars, status>>

openFile ==
    \/ /\ Begin
       /\ \/ Ask(<<Func("fileSearch"), Path>>, <<"err">>, "search")   \* O_CREATE
          \/ Ask(<<Func("fileOpen"), Path>>, <<"err">>, "open")
       /\ UNCHANGED arg
       /\ ClientOnly
    \/ /\ Continue("search")
       /\ IF answers[1] = "ENOENT"
          THEN Ask(<<Func("fileInit"), Path>>, <<"err">>, "init")
          ELSE Return                                                 \* EEXIST
       /\ UNCHANGED <<arg, acked>>
       /\ ClientOnly
    \/ /\ Continue("init")
       /\ Ask(<<Func("fileOpen"), Path>>, <<"err">>, "open")
       /\ acked' = 0
       /\ UNCHANGED arg
       /\ ClientOnly

closeFile ==
    /\ Begin
    /\ Ask(<<Func("fileClose"), Path>>, <<"err">>, "open")
    /\ UNCHANGED arg
    /\ ClientOnly

(* openFile and closeFile send the pid once they have the answer, and      *)
(* return without waiting for anything else.                               *)
pidOnlyIfOk == IF answers[1] = "ok" THEN <<Pid>> ELSE <<>>   \* mutant: not on an error
pidAfter == <<Pid>>

sendPid ==
    /\ Continue("open")
    /\ Ask(pidAfter, <<>>, "idle")
    /\ UNCHANGED <<arg, acked>>
    /\ ClientOnly

(* writeFile and appendToFile: the contents go out if the answer is 0,     *)
(* which is "ok" here.                                                     *)
Put(func, l, n) ==
    /\ Begin
    /\ Ask(<<Func(func), Path, Pid, Field("size", n)>>, <<"err">>, l)
    /\ arg' = n
    /\ ClientOnly

PutAnswered(l) ==
    /\ Continue(l)
    /\ IF answers[1] = "ok"
       THEN Ask(<<Field("contents", arg)>>, <<"response">>, "stored")
       ELSE Return
    /\ UNCHANGED <<arg, acked>>
    /\ ClientOnly

writeFile == (\E n \in Sizes : Put("fileWrite", "write", n)) \/ PutAnswered("write")
appendToFile == (\E n \in Sizes : Put("fileAppend", "append", n)) \/ PutAnswered("append")

(* The response ends both.                                                 *)
putDone ==
    /\ Continue("stored")
    /\ Return
    /\ acked' = acked + arg
    /\ UNCHANGED arg
    /\ ClientOnly

removeFile ==
    \/ /\ Begin
       /\ Ask(<<Func("fileDelete"), Path, Pid>>, <<"err">>, "remove")
       /\ UNCHANGED arg
       /\ ClientOnly
    \/ /\ Continue("remove")
       /\ Return
       /\ UNCHANGED <<arg, acked>>
       /\ ClientOnly

(* The size announced, then that many bytes.                               *)
Announced(l, announced, next) ==
    /\ Continue(l)
    /\ arg' = announced
    /\ Ask(<<>>, IF announced = 0 THEN <<>> ELSE <<"contents">>, next)
    /\ UNCHANGED acked
    /\ ClientOnly

readFile ==
    \/ /\ Begin
       /\ Ask(<<Func("fileRead"), Path, Pid>>, <<"err">>, "read")
       /\ UNCHANGED arg
       /\ ClientOnly
    \/ /\ Continue("read")
       /\ IF answers[1] = "ok" THEN Ask(<<>>, <<"size">>, "readSize") ELSE Return
       /\ UNCHANGED <<arg, acked>>
       /\ ClientOnly
    \/ cl = "readSize" /\ Announced("readSize", answers[1], "readBytes")
    \/ /\ Continue("readBytes")
       /\ Return
       /\ UNCHANGED <<arg, acked>>
       /\ ClientOnly

(* Name by name until a name of length 0.  A file that cannot be written   *)
(* to the directory ends the call at once, whatever is left to read.       *)
readNFiles ==
    \/ /\ Begin
       /\ Ask(<<Func("fileNRead"), Field("count", 0)>>, <<"name_len">>, "next")
       /\ UNCHANGED arg
       /\ ClientOnly
    \/ /\ Continue("next")
       /\ IF answers[1] = "end" THEN Return ELSE Ask(<<>>, <<"name", "size">>, "nextSize")
       /\ UNCHANGED <<arg, acked>>
       /\ ClientOnly
    \/ cl = "nextSize" /\ Announced("nextSize", answers[2], "nextBytes")
    \/ /\ Continue("nextBytes")
       /\ Ask(<<>>, <<"name_len">>, "next")
       /\ UNCHANGED <<arg, acked>>
       /\ ClientOnly

readNFilesFails ==
    /\ Continue("nextBytes")
    /\ Return
    /\ spoiled' = TRUE
    /\ UNCHANGED <<arg, acked, layoutVars, streams, serverVars, closed, reset, cut, status>>

(* The end of the connection.  A socket closed with data unread makes the  *)
(* next read of the other end fail once; then it reads the end of file.    *)
Close ==
    /\ Running /\ ~closed
    /\ closed' = TRUE
    /\ reset' = (toClient # <<>>)
    /\ toClient' = <<>>
    /\ Ask(<<>>, <<>>, "closed")
    /\ UNCHANGED <<layoutVars, toServer, arg, acked, calls, serverVars, spoiled, status>>

closeConnection == Ready("idle") /\ Close /\ UNCHANGED cut
Die == Close /\ cut' = (cl # "idle" \/ sending # <<>>)

-----------------------------------------------------------------------------
(* The handlers of the server.                                             *)

HearAnd(kept, kinds, l) == reading' = kinds /\ at' = l /\ got' = kept
Hear(kinds, l) == HearAnd(<<>>, kinds, l)
Done == Hear(<<"func">>, "func")

(* Writing to a client that has gone fails and is ignored.                 *)
Send(fields) == toClient' = IF closed THEN toClient ELSE toClient \o fields
Err(e) == <<Field("err", e)>>

Handling(l) == Running /\ at = l /\ reading = <<>>
ServerOnly == UNCHANGED <<toServer, clientVars, endVars, status>>
Stored == <<layoutVars, present, opens>>

(* readNB.  At the end of the stream, or after an error of read, variables *)
(* keep the value they had, which for most of them is none.                *)
endOfStreamError == toServer = <<>> /\ closed /\ reset  \* mutant: 0 bytes are not the end
endOfStream == toServer = <<>> /\ closed

readRequest ==
    /\ Running
    /\ reading # <<>>
    /\ \/ /\ toServer # <<>> /\ Head(toServer).kind = Head(reading)
          /\ got' = Append(got, Head(toServer).val)
          /\ toServer' = Tail(toServer)
          /\ UNCHANGED reset
       \/ /\ endOfStream /\ at # "func"
          /\ got' = Append(got, Unsent)
          /\ reset' = FALSE
          /\ UNCHANGED toServer
    /\ reading' = Tail(reading)
    /\ UNCHANGED <<layoutVars, toClient, clientVars, at, present, opens, closed, cut,
                   spoiled, status>>

(* The next field is not the one to be read, or the contents end early and *)
(* something else follows.                                                 *)
clientMisreads ==
    /\ sending = <<>> /\ expects # <<>> /\ toClient # <<>>
    /\ \/ Head(toClient).kind # Head(expects)
       \/ ~Fits(Head(toClient)) /\ Len(toClient) > 1
serverMisreads ==
    reading # <<>> /\ toServer # <<>> /\ Head(toServer).kind # Head(reading)

OutOfStep ==
    /\ Running
    /\ clientMisreads \/ serverMisreads
    /\ status' = "outOfStep"
    /\ UNCHANGED <<layoutVars, streams, clientVars, serverVars, endVars>>

(* clientReadReq when no byte comes: the connection is closed; but an      *)
(* error of read comes back as a count that is not 0, and func, never      *)
(* read, chooses the function.                                             *)
connectionClosed ==
    /\ Running /\ at = "func" /\ reading # <<>>
    /\ endOfStream
    /\ IF reset THEN status' = "wildCall" /\ UNCHANGED <<at, reading>>
                ELSE at' = "closed" /\ reading' = <<>> /\ UNCHANGED status
    /\ UNCHANGED <<layoutVars, streams, clientVars, got, present, opens, endVars>>

(* What each function reads before it answers.                             *)
Asked(f) == CASE f = "fileNRead" -> <<"count">>
              [] f \in {"fileRead", "fileDelete"} -> <<"path", "pid">>
              [] f \in {"fileWrite", "fileAppend"} -> <<"path", "pid", "size">>
              [] OTHER -> <<"path">>

clientReadReq ==
    /\ Handling("func")
    /\ Hear(Asked(got[1]), got[1])
    /\ UNCHANGED <<toClient, Stored>>
    /\ ServerOnly

(* fileSearchSilent and fileOpenCheck.  A path or a pid that never came    *)
(* may be anything.                                                        *)
found == IF got[1] = Unsent THEN {FALSE, present} ELSE {present}
isOpen == IF got[2] = Unsent THEN BOOLEAN ELSE {opens > 0}
openCheck == { IF ~f THEN "ENOENT" ELSE IF o THEN "ok" ELSE "EPERM" : f \in found, o \in isOpen }

fileSearch ==
    /\ Handling("fileSearch")
    /\ \E f \in found : Send(Err(IF f THEN "ok" ELSE "ENOENT"))
    /\ Done
    /\ UNCHANGED Stored
    /\ ServerOnly

fileInit ==
    /\ Handling("fileInit")
    /\ IF got[1] = Unsent THEN UNCHANGED Stored
       ELSE present' = TRUE /\ opens' = 0 /\ freeBytes
    /\ Send(Err("ok"))
    /\ Done
    /\ ServerOnly

(* The answer of fileOpen and fileClose comes before they read the pid.    *)
AnswerFirst(l, next) ==
    /\ Handling(l)
    /\ \E f \in found :
          /\ Send(Err(IF f THEN "ok" ELSE "ENOENT"))
          /\ HearAnd(<<f>>, <<"pid">>, next)
    /\ UNCHANGED Stored
    /\ ServerOnly

OpensAnswering(l, n) ==                               \* mutant: a second answer
    /\ Handling(l)
    /\ opens' = IF got[1] /\ got[2] # Unsent THEN n ELSE opens
    /\ Send(Err("ok"))
    /\ Done
    /\ UNCHANGED <<layoutVars, present>>
    /\ ServerOnly
Opens(l, n) ==
    /\ Handling(l)
    /\ opens' = IF got[1] /\ got[2] # Unsent THEN n ELSE opens
    /\ Done
    /\ UNCHANGED <<toClient, layoutVars, present>>
    /\ ServerOnly

fileOpen == AnswerFirst("fileOpen", "opening") \/ Opens("opening", opens + 1)
fileClose == AnswerFirst("fileClose", "closing")
             \/ Opens("closing", IF opens = 0 THEN 0 ELSE opens - 1)

(* sendFile                                                                *)
contents == <<Field("size", size)>> \o
            (IF size = 0 THEN <<>> ELSE <<Field("contents", sent)>>)

Sends(fields) ==
    /\ Send(fields)
    /\ spoiled' = (spoiled \/ Len(sent) # size)
    /\ Done
    /\ UNCHANGED <<Stored, toServer, clientVars, closed, reset, cut, status>>

Refuses(e) == Send(Err(e)) /\ Done /\ UNCHANGED Stored /\ ServerOnly

fileRead ==
    /\ Handling("fileRead")
    /\ \E e \in openCheck : IF e = "ok" THEN Sends(Err("ok") \o contents) ELSE Refuses(e)

(* The file is on the FileStack once it is written.                        *)
fileNReadNoEnd(fields) == fields                      \* mutant: no last name
fileNReadEnd(fields) == fields \o <<Field("name_len", "end")>>

fileNRead ==
    /\ Handling("fileNRead")
    /\ IF present /\ pages_n > 0
       THEN Sends(fileNReadEnd(<<Field("name_len", "more"), Field("name", "ours")>> \o contents))
       ELSE Send(fileNReadEnd(<<>>)) /\ Done /\ UNCHANGED Stored /\ ServerOnly

(* The answer of fileDelete comes before the file goes.                    *)
fileDelete ==
    \/ /\ Handling("fileDelete")
       /\ \E e \in openCheck :
             /\ Send(Err(e))
             /\ IF e = "ok" THEN Hear(<<>>, "deleting") ELSE Done
       /\ UNCHANGED Stored
       /\ ServerOnly
    \/ /\ Handling("deleting")
       /\ present' = FALSE /\ opens' = 0 /\ freeBytes
       /\ Done
       /\ UNCHANGED toClient
       /\ ServerOnly

(* fileWrite and fileAppend: a record that was not found is used all the   *)
(* same; a size that never came may be any.                                *)
sizeRead == IF got[3] = Unsent THEN Sizes \cup {memory_size + 1} ELSE {got[3]}

(* EEXIST or EFBIG; an append checks the sum only.                         *)
refused(l, n) ==
    IF l = "fileWrite" THEN pages_n # 0 \/ n > memory_size ELSE size + n > memory_size

Stores(l, next) ==
    /\ Handling(l)
    /\ \E e \in openCheck, n \in sizeRead :
          IF e = "ENOENT"
          THEN /\ status' = "nullDeref"
               /\ UNCHANGED <<layoutVars, streams, clientVars, serverVars, endVars>>
          ELSE /\ IF e = "EPERM" \/ refused(l, n) THEN Send(Err("refused")) /\ Done
                  ELSE Send(Err("ok")) /\ HearAnd(<<n>>, <<"contents">>, next)
               /\ UNCHANGED Stored
               /\ ServerOnly

Respond(l) ==
    /\ Handling(l)
    /\ Send(<<Field("response", "ok")>>)
    /\ Done
    /\ UNCHANGED <<present, opens>>
    /\ ServerOnly

fileWrite ==
    \/ Stores("fileWrite", "writing")
    \/ Respond("writing") /\ writeBytes(got[1])

fileAppend ==
    \/ Stores("fileAppend", "appending")
    \/ Respond("appending") /\ appendBytes(got[1])
    \/ /\ Handling("appending")
       /\ pages_n = 0                                 \* pages[-1]
       /\ status' = "badIndex"
       /\ UNCHANGED <<layoutVars, streams, clientVars, serverVars, endVars>>

(* Another connection removes the file or makes it go, between two         *)
(* requests of this one, those of openFile included.  A client that is     *)
(* still reading its answer does not notice.                               *)
otherClient ==
    /\ Running /\ present
    /\ cl \in {"idle", "search", "init"}
    /\ at = "func" /\ got = <<>> /\ streams = <<<<>>, <<>>>>
    /\ present' = FALSE /\ opens' = 0 /\ freeBytes
    /\ UNCHANGED <<streams, clientVars, at, reading, got, endVars, status>>

-----------------------------------------------------------------------------

Calls == openFile \/ closeFile \/ sendPid \/ writeFile \/ appendToFile \/ putDone
         \/ removeFile \/ readFile \/ readNFiles \/ readNFilesFails
Ends == closeConnection \/ Die

Handlers == readRequest \/ clientReadReq \/ connectionClosed
            \/ fileSearch \/ fileInit \/ fileOpen \/ fileClose \/ fileRead \/ fileNRead
            \/ fileDelete \/ fileWrite \/ fileAppend

Client == sendToSocket \/ readAnswer \/ Calls

Next == Client \/ Ends \/ Handlers \/ otherClient \/ OutOfStep

(* The client finishes a call it has begun, unless it dies; it need not    *)
(* begin another.  The server runs on.                                     *)
Spec == Init /\ [][Next]_vars
        /\ WF_vars(Client /\ (cl # "idle" \/ sending # <<>>)) /\ WF_vars(Handlers)
        /\ WF_vars(OutOfStep)

-----------------------------------------------------------------------------

(* Append of a size that the page counts of fileAppend get wrong.          *)
Edge == edge \/ (at = "appending" /\ MeetsEdge(got[1]))

(* Between two calls nothing is left in the socket, and no side reads a    *)
(* field for another one: calls and handlers agree on what is sent after   *)
(* every answer, the refusals and the pid that follows an answer included. *)
(* Only readNFiles giving up early and sendFile sending another number of  *)
(* bytes than announced break it.                                          *)
InStep ==
    ~spoiled =>
        /\ status # "outOfStep"
        /\ Ready("idle") /\ at = "func" /\ got = <<>> /\ toServer = <<>> => toClient = <<>>

(* What writeFile and appendToFile have reported as stored is stored:      *)
(* between two calls the file has the bytes the client was told of.        *)
AckedStored == Ready("idle") /\ present /\ ~spoiled => size = acked

(* readFile and readNFiles return the bytes that were written and          *)
(* appended, in order and all of them, whatever the sizes are, as long as  *)
(* no append started at the end of a page or filled a page it added to the *)
(* last byte.                                                              *)
ReadBack ==
    (Ready("readBytes") \/ Ready("nextBytes")) /\ ~edge /\ ~spoiled =>
        (IF arg = 0 THEN <<>> ELSE answers[1]) = [k \in 1 .. acked |-> k]

(* A client that closes its connection between two calls, or dies there,   *)
(* is taken as closed by clientReadReq, never as a request.                *)
ClosesCleanly == status = "wildCall" => cut \/ spoiled

(* Every call returns, unless the server met undefined behaviour: no two   *)
(* sides wait for each other, and a file that is accepted finds its pages. *)
CallReturns ==
    cl \notin {"idle", "closed"} ~>
        (cl \in {"idle", "closed"} \/ status # "running" \/ spoiled \/ Edge)

(* The handler of a client that closes or dies, in whatever call, comes to *)
(* its end and the connection is taken as closed.                          *)
EndNoticed == closed ~> (at = "closed" \/ status # "running" \/ Edge)

=============================================================================
