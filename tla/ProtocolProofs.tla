--------------------------- MODULE ProtocolProofs ---------------------------
(***************************************************************************)
(* Theorems about one connection, for all sizes of pages and memory, every *)
(* set of sizes and every number of calls: the two sides stay in step,     *)
(* what is acknowledged is stored, what is read is what was written, and a *)
(* connection closed between two calls ends as one.                        *)
(*                                                                         *)
(* The heart of it is the invariant Phase: for every place at which a call *)
(* of the client can stand, what is on its way to the server, where the    *)
(* handler stands and what is on its way back.                             *)
(***************************************************************************)
EXTENDS Protocol, Lemmas

-----------------------------------------------------------------------------
(* The handler.                                                            *)

Puts == {"fileWrite", "fileAppend"}
Functions == {"fileSearch", "fileInit", "fileOpen", "fileClose", "fileRead",
              "fileNRead", "fileDelete"} \cup Puts
Opening == {"opening", "closing"}
Storing == {"writing", "appending"}
Places == Functions \cup Opening \cup Storing \cup {"func", "deleting", "closed"}

(* What a handler at l has in got when it runs on: first what it kept of   *)
(* what it read before, then what it reads.                                *)
Wants(l) == CASE l = "func" -> <<"func">>
              [] l \in Opening -> <<"found", "pid">>
              [] l \in Storing -> <<"size", "contents">>
              [] l \in {"deleting", "closed"} -> <<>>
              [] OTHER -> Asked(l)

Kinds == {"func", "found", "path", "pid", "count", "size", "contents"}
Errors == {"ok", "ENOENT", "EPERM", "refused"}
Values == {Unsent, "ours"} \cup Functions \cup Int \cup BOOLEAN

Msgs == [kind : Kinds, val : Values]

(* reading is the rest of it, and got has values of the kinds.             *)
HandlerOK ==
    /\ at \in Places
    /\ reading \in Seq(Kinds) /\ got \in Seq(Values)
    /\ Len(got) + Len(reading) = Len(Wants(at))
    /\ \A k \in 1 .. Len(reading) : reading[k] = Wants(at)[Len(got) + k]
    /\ at = "func" /\ got # <<>> => got[1] \in Functions
    /\ at \in Opening => Len(got) >= 1 /\ got[1] \in BOOLEAN
    /\ at \in Storing => Len(got) >= 1 /\ got[1] \in Nat \ {0}
    /\ at \in Puts /\ Len(got) = 3 => got[3] = Unsent \/ got[3] \in Nat \ {0}

-----------------------------------------------------------------------------
(* The stream to the server.                                               *)

(* s is w or, when the client closed before it had sent all, a beginning   *)
(* of w.                                                                   *)
Brings(s, w, partly) ==
    /\ Len(s) <= Len(w)
    /\ ~partly => Len(s) = Len(w)
    /\ \A k \in 1 .. Len(s) : s[k] = w[k]

Flow(w) == Brings(toServer \o sending, w, closed)

(* The field a client sends where the handler reads kind, in a call of     *)
(* size n.                                                                 *)
Asking(kind, n) == CASE kind \in {"path", "pid"} -> Field(kind, "ours")
                     [] kind = "count" -> Field(kind, 0)
                     [] OTHER -> Field(kind, n)
Fields(kinds, n) == [k \in 1 .. Len(kinds) |-> Asking(kinds[k], n)]

(* The request of function f, from its number on.                          *)
Request(f, n) == <<Func(f)>> \o Fields(Asked(f), n)

(* The handler of an earlier request is not at its end; then come w.       *)
Behind(w) ==
    \/ at = "func" /\ got = <<>> /\ Flow(w)
    \/ at \in Opening \cup {"deleting"} /\ Flow(Fields(reading, arg) \o w)

(* The handler is reading the request of f.                                *)
Reads(f) ==
    \/ at = "func" /\ got = <<f>> /\ Flow(Fields(Asked(f), arg))
    \/ at = f /\ Flow(Fields(reading, arg))

(* Nothing it read is missing.                                             *)
Heard == \A k \in 1 .. Len(got) : got[k] = Asking(Wants(at)[k], arg).val

-----------------------------------------------------------------------------
(* The stream to the client and the places of the calls.                   *)

Home == at = "func" /\ got = <<>>
Quiet == toServer = <<>> /\ sending = <<>>

(* The place of the client that has asked for f, and what it reads next.   *)
Place(f) == CASE f = "fileSearch" -> "search"
              [] f = "fileInit" -> "init"
              [] f \in {"fileOpen", "fileClose"} -> "open"
              [] f = "fileWrite" -> "write"
              [] f = "fileAppend" -> "append"
              [] f = "fileDelete" -> "remove"
              [] f = "fileRead" -> "read"
              [] f = "fileNRead" -> "next"
Answer(f) == IF f = "fileNRead" THEN "name_len" ELSE "err"

(* The client is to read x and then tail, or has read it.                  *)
Tells(x, tail) ==
    \/ expects = <<x.kind>> /\ answers = <<>> /\ toClient = <<x>> \o tail
    \/ expects = <<>> /\ toClient = tail /\ answers = <<x.val>>
Error(e) == Field("err", e)
Answered(e) == Tells(Error(e), <<>>)

Size == Field("size", size)
Bytes(tail) == IF size = 0 THEN tail ELSE <<Field("contents", sent)>> \o tail
End == <<Field("name_len", "end")>>

(* The client reads a file the handler has sent.                           *)
Sent == Quiet /\ Home /\ present /\ Len(sent) = size

AtIdle == cl = "idle" /\ expects = <<>> /\ toClient = <<>> /\ Behind(<<>>)

AtAsked ==
    \E f \in Functions :
        /\ cl = Place(f) /\ expects = <<Answer(f)>> /\ answers = <<>> /\ toClient = <<>>
        /\ f \in Puts => arg \in Sizes
        /\ Behind(Request(f, arg)) \/ (Reads(f) /\ (at = f => Heard))

AtSearch == cl = "search" /\ Quiet /\ Home /\ \E e \in Errors : Answered(e)
AtInit ==
    /\ cl = "init" /\ Quiet /\ Home
    /\ present => size = 0
    /\ \E e \in Errors : Answered(e)
AtOpen ==
    /\ cl = "open" /\ Quiet
    /\ at \in Opening /\ Len(got) = 1
    /\ \E e \in Errors : Answered(e)
AtRemove ==
    /\ cl = "remove" /\ Quiet
    /\ Home \/ at = "deleting"
    /\ \E e \in Errors : Answered(e)

AtPut ==
    /\ cl \in {"write", "append"} /\ Quiet
    /\ \/ Home /\ \E e \in Errors \ {"ok"} : Answered(e)
       \/ /\ at \in Storing /\ Len(got) = 1 /\ got[1] = arg /\ arg \in Sizes
          /\ present /\ Answered("ok")

AtStored ==
    /\ cl = "stored" /\ arg \in Sizes /\ present
    /\ \/ /\ at \in Storing /\ got[1] = arg
          /\ expects = <<"response">> /\ toClient = <<>>
          /\ Flow(Fields(reading, arg))
       \/ /\ Quiet /\ Home
          /\ \/ expects = <<"response">> /\ toClient = <<Field("response", "ok")>>
             \/ expects = <<>> /\ toClient = <<>>

AtRead ==
    /\ cl = "read" /\ Quiet /\ Home
    /\ \/ \E e \in Errors \ {"ok"} : Answered(e)
       \/ Sent /\ Tells(Error("ok"), <<Size>> \o Bytes(<<>>))
AtReadSize == cl = "readSize" /\ Sent /\ Tells(Size, Bytes(<<>>))

(* The contents are read, or there are none.                               *)
Took(tail) ==
    /\ arg = size
    /\ IF size = 0 THEN expects = <<>> /\ toClient = tail
       ELSE Tells(Field("contents", sent), tail)
AtReadBytes == cl = "readBytes" /\ Sent /\ Took(<<>>)

Name == Field("name", "ours")
AtNext ==
    /\ cl = "next" /\ Quiet /\ Home
    /\ \/ Tells(Field("name_len", "end"), <<>>)
       \/ Sent /\ Tells(Field("name_len", "more"), <<Name, Size>> \o Bytes(End))
AtNextSize ==
    /\ cl = "nextSize" /\ Sent
    /\ \/ expects = <<"name", "size">> /\ toClient = <<Name, Size>> \o Bytes(End) /\ answers = <<>>
       \/ expects = <<"size">> /\ toClient = <<Size>> \o Bytes(End) /\ answers = <<"ours">>
       \/ expects = <<>> /\ toClient = Bytes(End) /\ answers = <<"ours", size>>
AtNextBytes == cl = "nextBytes" /\ Sent /\ Took(End)

Phase ==
    \/ AtIdle \/ AtAsked
    \/ AtSearch \/ AtInit \/ AtOpen \/ AtRemove \/ AtPut \/ AtStored
    \/ AtRead \/ AtReadSize \/ AtReadBytes
    \/ AtNext \/ AtNextSize \/ AtNextBytes

(* The client has closed: the handler reads what was sent and then nothing.*)
Gone ==
    /\ cl = "closed" /\ sending = <<>> /\ expects = <<>> /\ toClient = <<>>
    /\ \/ toServer = <<>>
       \/ at \in Storing /\ Flow(Fields(reading, arg))
       \/ \E f \in Functions : /\ f \in Puts => arg \in Sizes
                               /\ Behind(Request(f, arg)) \/ Reads(f)

-----------------------------------------------------------------------------
(* The file.                                                               *)

(* What is acknowledged is stored, but for a file just created, which the  *)
(* client has not been told of, and for what the response will say.        *)
Acked ==
    present /\ cl \notin {"init", "closed"} =>
        size = acked + (IF cl = "stored" /\ at = "func" THEN arg ELSE 0)

(* Page k of a file holds the bytes that belong there.                     *)
Holds(k) ==
    \A j \in Offsets : k * page_size + j < size => page[k][j] = k * page_size + j + 1

LayoutOK ==
    /\ size \in Nat /\ pages_n \in Nat /\ edge \in BOOLEAN
    /\ pages_n = 0 => size = 0
    /\ ~edge =>
          /\ pages_n = pagesFor(size)
          /\ \A k \in 0 .. pages_n - 1 : Holds(k)

StreamsOK ==
    /\ toServer \in Seq(Msgs) /\ sending \in Seq(Msgs)
    /\ arg \in Nat /\ acked \in Nat /\ opens \in Int
    /\ present \in BOOLEAN /\ closed \in BOOLEAN /\ spoiled \in BOOLEAN

EndsOK ==
    /\ reset => cut
    /\ status = "wildCall" => cut
    /\ status # "outOfStep"

(* The inductive invariant: it holds until an answer is spoiled.           *)
Inv ==
    /\ StreamsOK /\ HandlerOK
    /\ IF closed THEN Gone ELSE Phase
    /\ Acked /\ LayoutOK /\ EndsOK
SyncInv == ~spoiled => Inv

-----------------------------------------------------------------------------
(* Sequences.                                                              *)

(* A sequence with one more value in front.                                *)
LEMMA ConsFacts ==
    ASSUME NEW S, NEW x \in S, NEW t \in Seq(S)
    PROVE  /\ <<x>> \o t \in Seq(S) /\ Len(<<x>> \o t) = Len(t) + 1
           /\ <<x>> \o t # <<>> /\ Head(<<x>> \o t) = x /\ Tail(<<x>> \o t) = t
           /\ (<<x>> \o t)[1] = x
<1>1. <<x>> \in Seq(S) /\ Len(<<x>>) = 1 /\ Len(t) \in Nat
    BY LenProperties
<1> DEFINE s == <<x>> \o t
<1>2. /\ s \in Seq(S) /\ Len(s) = Len(t) + 1
      /\ \A k \in 1 .. Len(t) + 1 : s[k] = IF k <= 1 THEN <<x>>[k] ELSE t[k - 1]
  <2>1. Len(<<x>>) + Len(t) = Len(t) + 1
      BY <1>1
  <2> QED
      BY <1>1, <2>1, ConcatProperties
<1>3. s # <<>>
    BY <1>1, <1>2, EmptySeq
<1>4. s[1] = x /\ Head(s) = x
    BY <1>1, <1>2
<1>5. Tail(s) \in Seq(S) /\ Len(Tail(s)) = Len(t)
    BY <1>1, <1>2, <1>3, HeadTailProperties
<1>6. ASSUME NEW k \in 1 .. Len(t) PROVE Tail(s)[k] = t[k]
  <2>1. Tail(s)[k] = s[k + 1]
      BY <1>1, <1>2, <1>3, <1>5, HeadTailProperties
  <2>2. k + 1 \in 1 .. Len(t) + 1 /\ ~(k + 1 <= 1) /\ (k + 1) - 1 = k
      BY <1>1
  <2> QED
      BY <2>1, <2>2, <1>2
<1>7. Tail(s) = t
    BY <1>5, <1>6, SeqEqual
<1> QED
    BY <1>2, <1>3, <1>4, <1>7

(* Short sequences, one value after the other.                             *)
LEMMA Pair ==
    ASSUME NEW S, NEW x \in S, NEW y \in S
    PROVE  <<x, y>> \in Seq(S) /\ <<x, y>> = <<x>> \o <<y>>
<1>1. <<x, y>> \in Seq(S) /\ <<x>> \in Seq(S) /\ <<y>> \in Seq(S)
    OBVIOUS
<1>2. Len(<<x, y>>) = 2 /\ Len(<<x>>) = 1 /\ Len(<<y>>) = 1
    OBVIOUS
<1>3. /\ <<x>> \o <<y>> \in Seq(S) /\ Len(<<x>> \o <<y>>) = Len(<<x>>) + Len(<<y>>)
      /\ \A k \in 1 .. Len(<<x>>) + Len(<<y>>) : (<<x>> \o <<y>>)[k] =
               IF k <= Len(<<x>>) THEN <<x>>[k] ELSE <<y>>[k - Len(<<x>>)]
    BY <1>1, ConcatProperties
<1>4. (<<x>> \o <<y>>)[1] = x /\ (<<x>> \o <<y>>)[2] = y
    BY <1>2, <1>3
<1>5. \A k \in 1 .. 2 : (<<x>> \o <<y>>)[k] = <<x, y>>[k]
  <2>1. \A k \in 1 .. 2 : k = 1 \/ k = 2
      OBVIOUS
  <2> QED
      BY <1>4, <2>1
<1>6. Len(<<x>> \o <<y>>) = 2
    BY <1>2, <1>3
<1> QED
    BY <1>1, <1>2, <1>3, <1>5, <1>6, SeqEqual

(* The same of up to four.                                                 *)
LEMMA Tuples ==
    ASSUME NEW S, NEW x \in S, NEW y \in S, NEW z \in S, NEW v \in S
    PROVE  /\ <<x>> \in Seq(S) /\ <<x, y>> \in Seq(S)
           /\ <<x, y, z>> \in Seq(S) /\ <<x, y, z, v>> \in Seq(S)
           /\ <<x, y>> = <<x>> \o <<y>>
           /\ <<x, y, z>> = <<x>> \o <<y, z>>
           /\ <<x, y, z, v>> = <<x>> \o <<y, z, v>>
<1>1. /\ <<x>> \in Seq(S) /\ <<x, y>> \in Seq(S)
      /\ <<x, y, z>> \in Seq(S) /\ <<x, y, z, v>> \in Seq(S)
    OBVIOUS
<1>2. /\ Len(<<x>>) = 1 /\ Len(<<y>>) = 1 /\ Len(<<x, y>>) = 2 /\ Len(<<y, z>>) = 2
      /\ Len(<<x, y, z>>) = 3 /\ Len(<<y, z, v>>) = 3 /\ Len(<<x, y, z, v>>) = 4
    OBVIOUS
<1>3. <<y>> \in Seq(S) /\ <<y, z>> \in Seq(S) /\ <<y, z, v>> \in Seq(S)
    OBVIOUS
<1>4. <<x, y>> = <<x>> \o <<y>>
    BY Pair
<1>5. <<x, y, z>> = <<x>> \o <<y, z>>
  <2>1. /\ <<x>> \o <<y, z>> \in Seq(S) /\ Len(<<x>> \o <<y, z>>) = Len(<<x>>) + Len(<<y, z>>)
        /\ \A k \in 1 .. Len(<<x>>) + Len(<<y, z>>) : (<<x>> \o <<y, z>>)[k] =
                 IF k <= Len(<<x>>) THEN <<x>>[k] ELSE <<y, z>>[k - Len(<<x>>)]
      BY <1>1, <1>3, ConcatProperties
  <2>2. \A k \in 1 .. 3 : (<<x>> \o <<y, z>>)[k] = <<x, y, z>>[k]
      BY <1>2, <2>1
  <2> QED
      BY <1>1, <1>2, <2>1, <2>2, SeqEqual
<1>6. <<x, y, z, v>> = <<x>> \o <<y, z, v>>
  <2>1. /\ <<x>> \o <<y, z, v>> \in Seq(S) /\ Len(<<x>> \o <<y, z, v>>) = Len(<<x>>) + Len(<<y, z, v>>)
        /\ \A k \in 1 .. Len(<<x>>) + Len(<<y, z, v>>) : (<<x>> \o <<y, z, v>>)[k] =
                 IF k <= Len(<<x>>) THEN <<x>>[k] ELSE <<y, z, v>>[k - Len(<<x>>)]
      BY <1>1, <1>3, ConcatProperties
  <2>2. \A k \in 1 .. 4 : (<<x>> \o <<y, z, v>>)[k] = <<x, y, z, v>>[k]
      BY <1>2, <2>1
  <2> QED
      BY <1>1, <1>2, <2>1, <2>2, SeqEqual
<1> QED
    BY <1>1, <1>4, <1>5, <1>6

(* A sequence is its head before its tail.                                 *)
LEMMA ConsOf ==
    ASSUME NEW S, NEW s \in Seq(S), s # <<>>
    PROVE  Head(s) \in S /\ Tail(s) \in Seq(S) /\ s = <<Head(s)>> \o Tail(s)
           /\ Len(Tail(s)) = Len(s) - 1 /\ s[1] = Head(s)
<1>1. /\ Head(s) \in S /\ Tail(s) \in Seq(S) /\ Len(Tail(s)) = Len(s) - 1
      /\ \A k \in 1 .. Len(Tail(s)) : Tail(s)[k] = s[k + 1]
    BY HeadTailProperties
<1>2. Len(s) \in Nat \ {0}
    BY EmptySeq
<1>3. s[1] = Head(s)
    OBVIOUS
<1> DEFINE c == <<Head(s)>> \o Tail(s)
<1>4. c \in Seq(S) /\ Len(c) = Len(Tail(s)) + 1 /\ c[1] = Head(s)
      /\ Tail(c) = Tail(s) /\ c # <<>>
    BY <1>1, ConsFacts
<1>5. Len(c) = Len(s)
    BY <1>1, <1>2, <1>4
<1>6. ASSUME NEW k \in 1 .. Len(c) PROVE c[k] = s[k]
  <2>1. CASE k = 1
      BY <2>1, <1>3, <1>4
  <2>2. CASE k # 1
    <3>1. k - 1 \in 1 .. Len(Tail(s)) /\ (k - 1) + 1 = k /\ Len(Tail(c)) = Len(Tail(s))
        BY <2>2, <1>1, <1>2, <1>4, <1>5
    <3>2. \A m \in 1 .. Len(Tail(c)) : Tail(c)[m] = c[m + 1]
        BY <1>4, HeadTailProperties
    <3> HIDE DEF c
    <3> QED
        BY <3>1, <3>2, <1>1, <1>4
  <2> QED
      BY <2>1, <2>2
<1>7. c = s
    BY <1>4, <1>5, <1>6, SeqEqual
<1> QED
    BY <1>1, <1>3, <1>7

-----------------------------------------------------------------------------
(* Beginnings.                                                             *)

(* What comes first in s comes first in w, and so on.                      *)
LEMMA BringsTail ==
    ASSUME NEW S, NEW s \in Seq(S), NEW w \in Seq(S), NEW p \in BOOLEAN,
           Brings(s, w, p), s # <<>>
    PROVE  w # <<>> /\ Head(s) = Head(w) /\ Brings(Tail(s), Tail(w), p)
<1>1. Len(s) \in Nat \ {0} /\ Len(w) \in Nat
    BY EmptySeq, LenProperties
<1>2. w # <<>>
    BY <1>1, EmptySeq DEF Brings
<1>3. /\ Len(Tail(s)) = Len(s) - 1 /\ Len(Tail(w)) = Len(w) - 1
      /\ \A k \in 1 .. Len(Tail(s)) : Tail(s)[k] = s[k + 1]
      /\ \A k \in 1 .. Len(Tail(w)) : Tail(w)[k] = w[k + 1]
    BY <1>2, HeadTailProperties
<1>4. s[1] = w[1]
    BY <1>1 DEF Brings
<1>5. Head(s) = Head(w)
    BY <1>2, <1>4, ConsOf
<1>6. ASSUME NEW k \in 1 .. Len(Tail(s)) PROVE Tail(s)[k] = Tail(w)[k]
  <2>1. k \in 1 .. Len(Tail(w)) /\ k + 1 \in 1 .. Len(s)
      BY <1>1, <1>3 DEF Brings
  <2> QED
      BY <2>1, <1>3 DEF Brings
<1>7. Len(Tail(s)) <= Len(Tail(w)) /\ (~p => Len(Tail(s)) = Len(Tail(w)))
    BY <1>1, <1>3 DEF Brings
<1> QED
    BY <1>2, <1>5, <1>6, <1>7 DEF Brings

(* Only nothing begins nothing, and it begins everything.                  *)
LEMMA BringsEmpty ==
    ASSUME NEW S, NEW s \in Seq(S), NEW w \in Seq(S), NEW p \in BOOLEAN
    PROVE  /\ Brings(s, <<>>, p) => s = <<>>
           /\ Brings(<<>>, w, TRUE)
           /\ Brings(<<>>, <<>>, p)
    BY EmptySeq, LenProperties DEF Brings

(* What is not cut short is all of it.                                     *)
LEMMA BringsAll ==
    ASSUME NEW S, NEW s \in Seq(S), NEW w \in Seq(S)
    PROVE  Brings(s, w, FALSE) <=> s = w
<1>1. Brings(s, w, FALSE) => s = w
    BY SeqEqual DEF Brings
<1> QED
    BY <1>1, LenProperties DEF Brings

(* What was sent of it is a beginning when the rest will not be sent.      *)
LEMMA BringsPart ==
    ASSUME NEW S, NEW s \in Seq(S), NEW t \in Seq(S), NEW w \in Seq(S), NEW p \in BOOLEAN,
           Brings(s \o t, w, p)
    PROVE  Brings(s, w, TRUE)
<1>1. /\ Len(s) \in Nat /\ Len(t) \in Nat /\ Len(w) \in Nat
      /\ Len(s \o t) = Len(s) + Len(t)
      /\ \A k \in 1 .. Len(s) + Len(t) : (s \o t)[k] = IF k <= Len(s) THEN s[k] ELSE t[k - Len(s)]
    BY LenProperties, ConcatProperties
<1>2. Len(s) <= Len(w)
    BY <1>1 DEF Brings
<1>3. ASSUME NEW k \in 1 .. Len(s) PROVE s[k] = w[k]
  <2>1. k \in 1 .. Len(s) + Len(t) /\ k <= Len(s)
      BY <1>1
  <2>2. (s \o t)[k] = s[k] /\ (s \o t)[k] = w[k]
      BY <2>1, <1>1 DEF Brings
  <2> QED
      BY <2>2
<1> QED
    BY <1>2, <1>3 DEF Brings
-----------------------------------------------------------------------------
(* The fields of a request.                                                *)

(* A field of a request is one a client may send.                          *)
LEMMA AskingType ==
    ASSUME NEW k \in Kinds, NEW n \in Nat
    PROVE  Asking(k, n) \in Msgs /\ Asking(k, n).kind = k
<1>1. CASE k \in {"path", "pid"}
    BY <1>1 DEF Asking, Field, Msgs, Values
<1>2. CASE k = "count"
    BY <1>2 DEF Asking, Field, Msgs, Values
<1>3. CASE k \notin {"path", "pid", "count"}
    BY <1>3 DEF Asking, Field, Msgs, Values
<1> QED
    BY <1>1, <1>2, <1>3

(* Fields has a field for every kind that is read.                         *)
LEMMA FieldsType ==
    ASSUME NEW ks \in Seq(Kinds), NEW n \in Nat
    PROVE  Fields(ks, n) \in Seq(Msgs) /\ Len(Fields(ks, n)) = Len(ks)
<1>1. Len(ks) \in Nat /\ \A k \in 1 .. Len(ks) : ks[k] \in Kinds
    BY LenProperties, ElementOfSeq
<1>2. Fields(ks, n) \in [1 .. Len(ks) -> Msgs]
    BY <1>1, AskingType DEF Fields
<1> QED
    BY <1>1, <1>2, AsSequence

(* The fields for no kinds are none; those for more, one after the other.  *)
LEMMA FieldsNone == ASSUME NEW n PROVE Fields(<<>>, n) = <<>>
    BY DEF Fields

(* The first of the fields, and the others.                                *)
LEMMA FieldsCons ==
    ASSUME NEW ks \in Seq(Kinds), ks # <<>>, NEW n \in Nat
    PROVE  Fields(ks, n) = <<Asking(Head(ks), n)>> \o Fields(Tail(ks), n)
<1>1. /\ Head(ks) \in Kinds /\ Tail(ks) \in Seq(Kinds) /\ Len(Tail(ks)) = Len(ks) - 1
      /\ ks[1] = Head(ks) /\ Len(ks) \in Nat \ {0}
    BY ConsOf, EmptySeq
<1>2. \A k \in 1 .. Len(Tail(ks)) : Tail(ks)[k] = ks[k + 1]
    BY HeadTailProperties
<1>3. /\ Fields(ks, n) \in Seq(Msgs) /\ Len(Fields(ks, n)) = Len(ks)
      /\ Fields(Tail(ks), n) \in Seq(Msgs) /\ Len(Fields(Tail(ks), n)) = Len(ks) - 1
    BY <1>1, FieldsType
<1>4. Fields(ks, n) # <<>>
    BY <1>1, <1>3, EmptySeq
<1>5. Fields(ks, n)[1] = Asking(Head(ks), n)
    BY <1>1 DEF Fields
<1>6. /\ Head(Fields(ks, n)) = Asking(Head(ks), n)
      /\ Tail(Fields(ks, n)) \in Seq(Msgs) /\ Len(Tail(Fields(ks, n))) = Len(ks) - 1
      /\ \A k \in 1 .. Len(Tail(Fields(ks, n))) : Tail(Fields(ks, n))[k] = Fields(ks, n)[k + 1]
      /\ Fields(ks, n) = <<Head(Fields(ks, n))>> \o Tail(Fields(ks, n))
    BY <1>3, <1>4, <1>5, ConsOf, HeadTailProperties
<1>7. ASSUME NEW k \in 1 .. Len(ks) - 1
      PROVE  Tail(Fields(ks, n))[k] = Fields(Tail(ks), n)[k]
  <2>1. k + 1 \in 1 .. Len(ks) /\ k \in 1 .. Len(Tail(ks))
      BY <1>1
  <2>2. Fields(ks, n)[k + 1] = Asking(ks[k + 1], n)
      BY <2>1 DEF Fields
  <2>3. Fields(Tail(ks), n)[k] = Asking(Tail(ks)[k], n)
      BY <2>1 DEF Fields
  <2> QED
      BY <2>1, <2>2, <2>3, <1>1, <1>2, <1>6
<1>8. Tail(Fields(ks, n)) = Fields(Tail(ks), n)
    BY <1>3, <1>6, <1>7, SeqEqual
<1> QED
    BY <1>6, <1>8

(* What the functions read.                                                *)
LEMMA AskedIs ==
    /\ \A f \in {"fileSearch", "fileInit", "fileOpen", "fileClose"} : Asked(f) = <<"path">>
    /\ \A f \in {"fileRead", "fileDelete"} : Asked(f) = <<"path", "pid">>
    /\ \A f \in Puts : Asked(f) = <<"path", "pid", "size">>
    /\ Asked("fileNRead") = <<"count">>
<1>1. ASSUME NEW f \in {"fileSearch", "fileInit", "fileOpen", "fileClose"} PROVE Asked(f) = <<"path">>
    BY DEF Asked
<1>2. ASSUME NEW f \in {"fileRead", "fileDelete"} PROVE Asked(f) = <<"path", "pid">>
    BY DEF Asked
<1>3. ASSUME NEW f \in Puts PROVE Asked(f) = <<"path", "pid", "size">>
    BY DEF Asked, Puts
<1>4. Asked("fileNRead") = <<"count">>
    BY DEF Asked
<1> QED
    BY <1>1, <1>2, <1>3, <1>4

(* Every function reads something after its number.                        *)
LEMMA AskedType == \A f \in Functions : Asked(f) \in Seq(Kinds) /\ Asked(f) # <<>>
<1>1. /\ <<"path">> \in Seq(Kinds) /\ <<"path", "pid">> \in Seq(Kinds)
      /\ <<"path", "pid", "size">> \in Seq(Kinds) /\ <<"count">> \in Seq(Kinds)
  <2>1. "path" \in Kinds /\ "pid" \in Kinds /\ "size" \in Kinds /\ "count" \in Kinds
      BY DEF Kinds
  <2>2. \A x, y, z \in Kinds : <<x>> \in Seq(Kinds) /\ <<x, y>> \in Seq(Kinds)
                                /\ <<x, y, z>> \in Seq(Kinds)
      BY Tuples
  <2> QED
      BY <2>1, <2>2
<1>2. <<"path">> # <<>> /\ <<"path", "pid">> # <<>> /\ <<"path", "pid", "size">> # <<>> /\ <<"count">> # <<>>
    OBVIOUS
<1> QED
    BY <1>1, <1>2, AskedIs DEF Functions

(* The number of a function is a field of its own kind.                    *)
LEMMA FuncType == \A f \in Functions : Func(f) \in Msgs /\ Func(f).kind = "func" /\ Func(f).val = f
<1> SUFFICES ASSUME NEW f \in Functions
             PROVE  Func(f) \in Msgs /\ Func(f).kind = "func" /\ Func(f).val = f
    OBVIOUS
<1>1. f \in Values
    BY DEF Values
<1>2. "func" \in Kinds
    BY DEF Kinds
<1>3. Func(f) = [kind |-> "func", val |-> f]
    BY DEF Func, Field
<1>4. [kind |-> "func", val |-> f] \in Msgs
  <2> HIDE DEF Values
  <2> QED
    BY <1>1, <1>2 DEF Msgs
<1> QED
    BY <1>3, <1>4

(* A request starts with the number of its function.                       *)
LEMMA RequestType ==
    ASSUME NEW f \in Functions, NEW n \in Nat
    PROVE  /\ Request(f, n) \in Seq(Msgs) /\ Request(f, n) # <<>>
           /\ Head(Request(f, n)) = Func(f)
           /\ Tail(Request(f, n)) = Fields(Asked(f), n)
<1>1. Fields(Asked(f), n) \in Seq(Msgs) /\ Func(f) \in Msgs
    BY AskedType, FuncType, FieldsType
<1> QED
    BY <1>1, ConsFacts DEF Request

(* The requests as the calls of API.c send them.                           *)
LEMMA RequestIs ==
    ASSUME NEW n \in Nat
    PROVE  /\ \A f \in {"fileSearch", "fileInit", "fileOpen", "fileClose"} :
                  <<Func(f), Path>> = Request(f, n)
           /\ \A f \in {"fileRead", "fileDelete"} : <<Func(f), Path, Pid>> = Request(f, n)
           /\ \A f \in Puts : <<Func(f), Path, Pid, Field("size", n)>> = Request(f, n)
           /\ <<Func("fileNRead"), Field("count", 0)>> = Request("fileNRead", n)
<1>1. /\ Asking("path", n) = Path /\ Asking("pid", n) = Pid
      /\ Asking("size", n) = Field("size", n) /\ Asking("count", n) = Field("count", 0)
    BY DEF Asking, Path, Pid
<1>2. /\ Fields(<<"path">>, n) = <<Path>> /\ Fields(<<"count">>, n) = <<Field("count", 0)>>
      /\ Fields(<<"path", "pid">>, n) = <<Path, Pid>>
      /\ Fields(<<"path", "pid", "size">>, n) = <<Path, Pid, Field("size", n)>>
  <2>1. Fields(<<"path">>, n) = <<Path>>
      BY <1>1 DEF Fields
  <2>2. Fields(<<"count">>, n) = <<Field("count", 0)>>
      BY <1>1 DEF Fields
  <2>3. Fields(<<"path", "pid">>, n) = <<Path, Pid>>
      BY <1>1 DEF Fields
  <2>4. Fields(<<"path", "pid", "size">>, n) = <<Path, Pid, Field("size", n)>>
      BY <1>1 DEF Fields
  <2> QED
      BY <2>1, <2>2, <2>3, <2>4
<1> DEFINE size_n == Field("size", n)   count_0 == Field("count", 0)
<1>3. /\ \A f \in Functions : Func(f) \in Msgs
      /\ Path \in Msgs /\ Pid \in Msgs /\ size_n \in Msgs /\ count_0 \in Msgs
  <2>1. /\ Path \in Msgs /\ Pid \in Msgs /\ size_n \in Msgs /\ count_0 \in Msgs
      BY DEF Path, Pid, Field, Msgs, Values, Kinds
  <2> QED
      BY <2>1, FuncType
<1>4. \A f \in {"fileSearch", "fileInit", "fileOpen", "fileClose"} : <<Func(f), Path>> = Request(f, n)
  <2>1. \A f \in Functions : <<Func(f), Path>> = <<Func(f)>> \o <<Path>>
      BY <1>3, Tuples
  <2> QED
      BY <1>2, <2>1, AskedIs DEF Request, Functions
<1>5. \A f \in {"fileRead", "fileDelete"} : <<Func(f), Path, Pid>> = Request(f, n)
  <2>1. \A f \in Functions : <<Func(f), Path, Pid>> = <<Func(f)>> \o <<Path, Pid>>
      BY <1>3, Tuples
  <2> QED
      BY <1>2, <2>1, AskedIs DEF Request, Functions
<1>6. \A f \in Puts : <<Func(f), Path, Pid, size_n>> = Request(f, n)
  <2>1. \A f \in Functions : <<Func(f), Path, Pid, size_n>> = <<Func(f)>> \o <<Path, Pid, size_n>>
    <3> HIDE DEF size_n
    <3> QED
        BY <1>3, Tuples
  <2> QED
      BY <1>2, <2>1, AskedIs DEF Request, Functions
<1>7. <<Func("fileNRead"), count_0>> = Request("fileNRead", n)
  <2>1. \A f \in Functions : <<Func(f), count_0>> = <<Func(f)>> \o <<count_0>>
    <3> HIDE DEF count_0
    <3> QED
        BY <1>3, Tuples
  <2> QED
      BY <1>2, <2>1, AskedIs DEF Request, Functions
<1> QED
    BY <1>4, <1>5, <1>6, <1>7
-----------------------------------------------------------------------------
(* Pages.                                                                  *)

(* Division with remainder, as the page counts use it.                     *)
LEMMA DivMod ==
    ASSUME NEW n \in Nat, NEW p \in Nat \ {0}
    PROVE  /\ n \div p \in Nat /\ n % p \in Nat /\ n % p < p
           /\ n = (n \div p) * p + (n % p)
    OBVIOUS

(* q * p + r with r below p is divided into q and r in one way.            *)
LEMMA DivModOf ==
    ASSUME NEW q \in Nat, NEW p \in Nat \ {0}, NEW r \in Nat, r < p
    PROVE  (q * p + r) \div p = q /\ (q * p + r) % p = r
<1> DEFINE n == q * p + r   d == n \div p   m == n % p
<1>0. q * p \in Nat
    OBVIOUS
<1>1. n \in Nat /\ d \in Nat /\ m \in Nat /\ m < p /\ n = d * p + m
  <2>1. n \in Nat
      BY <1>0
  <2> HIDE DEF n
  <2> QED
      BY <2>1, DivMod
<1>2. n = q * p + r
    OBVIOUS
<1> HIDE DEF n, d, m
<1>3. ASSUME d < q PROVE FALSE
  <2>1. d + 1 <= q
      BY <1>1, <1>3
  <2>2. (d + 1) * p <= q * p
      BY <1>1, <2>1
  <2>3. (d + 1) * p = d * p + p
      BY <1>1
  <2>4. d * p \in Nat /\ q * p \in Nat
      BY <1>1
  <2> QED
      BY <1>1, <1>2, <2>2, <2>3, <2>4
<1>4. ASSUME q < d PROVE FALSE
  <2>1. q + 1 <= d
      BY <1>1, <1>4
  <2>2. (q + 1) * p <= d * p
      BY <1>1, <2>1
  <2>3. (q + 1) * p = q * p + p
      BY <1>1
  <2>4. d * p \in Nat /\ q * p \in Nat
      BY <1>1
  <2> QED
      BY <1>1, <1>2, <2>2, <2>3, <2>4
<1>5. d = q
    BY <1>1, <1>3, <1>4
<1>6. m = r
  <2>1. d * p \in Nat /\ d * p = q * p
      BY <1>1, <1>5
  <2> QED
      BY <1>1, <1>2, <2>1
<1> QED
    BY <1>5, <1>6 DEF n, d, m

(* The pages of a file of n bytes, the last of them filled up to lastPage. *)
LEMMA PagesFor ==
    ASSUME NEW n \in Nat
    PROVE  /\ pagesFor(n) \in Nat
           /\ n = 0 => pagesFor(n) = 0
           /\ n > 0 => pagesFor(n) >= 1
           /\ lastPage(n) \in Nat /\ 1 <= lastPage(n) /\ lastPage(n) <= page_size
           /\ n > 0 => n = (pagesFor(n) - 1) * page_size + lastPage(n)
<1> DEFINE d == n \div page_size   m == n % page_size
<1>0. page_size \in Nat \ {0}
    BY PageLayoutAssumption
<1>1. d \in Nat /\ m \in Nat /\ m < page_size /\ n = d * page_size + m
    BY <1>0, DivMod
<1>2. pagesFor(n) = d + (IF m > 0 THEN 1 ELSE 0)
    BY DEF pagesFor
<1>3. lastPage(n) = IF m = 0 THEN page_size ELSE m
    BY DEF lastPage
<1> HIDE DEF d, m
<1>4. CASE m > 0
  <2>1. pagesFor(n) = d + 1 /\ lastPage(n) = m
      BY <1>1, <1>2, <1>3, <1>4
  <2>2. n > 0
    <3>1. d * page_size \in Nat
        BY <1>0, <1>1
    <3> QED
        BY <1>1, <1>4, <3>1
  <2> QED
      BY <1>0, <1>1, <1>4, <2>1, <2>2
<1>5. CASE m = 0
  <2>1. pagesFor(n) = d /\ lastPage(n) = page_size
      BY <1>1, <1>2, <1>3, <1>5
  <2>2. n = 0 => d = 0
      BY <1>0, <1>1, <1>5
  <2>3. n > 0 => d >= 1
      BY <1>0, <1>1, <1>5
  <2>4. n > 0 => n = (d - 1) * page_size + page_size
      BY <1>0, <1>1, <1>5
  <2>5. d \in Nat /\ page_size \in Nat /\ page_size >= 1 /\ page_size <= page_size
      BY <1>0, <1>1
  <2> QED
      BY <2>1, <2>2, <2>3, <2>4, <2>5
<1> QED
    BY <1>1, <1>4, <1>5

(* A file of q full pages and r more bytes.                                *)
LEMMA PagesForOf ==
    ASSUME NEW q \in Nat, NEW r \in Nat, 1 <= r, r <= page_size
    PROVE  pagesFor(q * page_size + r) = q + 1
<1>0. page_size \in Nat \ {0}
    BY PageLayoutAssumption
<1>1. CASE r < page_size
  <2>1. (q * page_size + r) \div page_size = q /\ (q * page_size + r) % page_size = r
      BY <1>0, <1>1, DivModOf
  <2> QED
      BY <2>1 DEF pagesFor
<1>2. CASE r = page_size
  <2>1. q * page_size + r = (q + 1) * page_size + 0
      BY <1>0, <1>2
  <2>2. ((q + 1) * page_size + 0) \div page_size = q + 1 /\ ((q + 1) * page_size + 0) % page_size = 0
      BY <1>0, DivModOf
  <2> QED
      BY <2>1, <2>2 DEF pagesFor
<1> QED
    BY <1>0, <1>1, <1>2

(* Bytes that fit in the page at that offset are put there.                *)
LEMMA AddedPage ==
    ASSUME NEW b, NEW first \in Int, NEW n \in Nat, NEW o \in Nat, n <= page_size - o,
           NEW j \in Offsets
    PROVE  addPageToMem(b, first, n, o)[j] = IF o <= j /\ j < o + n THEN first + j - o ELSE b[j]
<1>0. page_size \in Nat
    BY PageLayoutAssumption
<1>1. ~(n > page_size - o)
    BY <1>0
<1> QED
    BY <1>1 DEF addPageToMem

(* A written file is in its pages.                                         *)
LEMMA WriteKeepsLayout ==
    ASSUME LayoutOK, NEW n \in Nat \ {0}, writeBytes(n)
    PROVE  LayoutOK'
<1> DEFINE p == page_size   q == pagesFor(n)   l == lastPage(n)
<1>0. p \in Nat \ {0}
    BY PageLayoutAssumption
<1>1. /\ q \in Nat /\ q >= 1 /\ l \in Nat /\ 1 <= l /\ l <= p
      /\ n = (q - 1) * p + l
    BY PagesFor
<1>2. /\ size' = n /\ pages_n' = q /\ edge' = edge
      /\ page' = [i \in 0 .. q - 1 |-> addPageToMem(Blank, i * p + 1, IF i < q - 1 THEN p ELSE l, 0)]
    BY DEF writeBytes
<1> HIDE DEF p, q, l
<1>3. ASSUME NEW k \in 0 .. q - 1, NEW j \in 0 .. p - 1, k * p + j < n
      PROVE  page'[k][j] = k * p + j + 1
  <2> DEFINE m == IF k < q - 1 THEN p ELSE l   first == k * p + 1
  <2>1. m \in Nat /\ m <= p - 0 /\ k * p \in Nat /\ first \in Int
      BY <1>0, <1>1
  <2>2. j < m
    <3>1. CASE k < q - 1
        BY <3>1, <1>0
    <3>2. CASE k = q - 1
      <4>1. k * p = (q - 1) * p
          BY <3>2
      <4>2. j < l
          BY <4>1, <1>0, <1>1, <1>3, <2>1
      <4> QED
          BY <4>2, <3>2, <1>1
    <3> QED
        BY <3>1, <3>2, <1>1
  <2>3. page'[k] = addPageToMem(Blank, first, m, 0)
      BY <1>2
  <2> HIDE DEF m, first
  <2>4. addPageToMem(Blank, first, m, 0)[j] =
            IF 0 <= j /\ j < 0 + m THEN first + j - 0 ELSE Blank[j]
    <3>1. j \in Offsets
        BY DEF Offsets, p
    <3>2. m \in Nat /\ first \in Int /\ 0 \in Nat /\ m <= page_size - 0
        BY <2>1 DEF p
    <3> QED
        BY <3>1, <3>2, AddedPage, ZenonT(60)
  <2>5. 0 <= j /\ j < 0 + m
      BY <2>1, <2>2, <1>0
  <2>6. first + j - 0 = k * p + j + 1
      BY <2>1, <1>0 DEF first
  <2> QED
      BY <2>3, <2>4, <2>5, <2>6
<1>4. \A k \in 0 .. pages_n' - 1 : Holds(k)'
    BY <1>2, <1>3 DEF Holds, Offsets, p
<1>5. pages_n' = pagesFor(size')
    BY <1>2 DEF q
<1>6. size' \in Nat /\ pages_n' \in Nat /\ edge' \in BOOLEAN /\ pages_n' # 0
    BY <1>1, <1>2 DEF LayoutOK
<1> QED
    BY <1>4, <1>5, <1>6 DEF LayoutOK

(* So is what is appended, unless the append meets the end of a page.      *)
LEMMA AppendKeepsLayout ==
    ASSUME LayoutOK, NEW n \in Nat \ {0}, appendBytes(n)
    PROVE  LayoutOK'
<1> DEFINE p == page_size   q == size \div page_size   r == size % page_size
           o == overflow(n)   a == pagesAfter(n)
<1>0. p \in Nat \ {0} /\ size \in Nat /\ pages_n \in Nat /\ pages_n > 0
    BY PageLayoutAssumption DEF LayoutOK, appendBytes
<1>1. q \in Nat /\ r \in Nat /\ r < p /\ size = q * p + r
    BY <1>0, DivMod
<1>2. /\ size' = size + n /\ pages_n' = a /\ edge' = (edge \/ MeetsEdge(n))
      /\ page' = [i \in 0 .. a - 1 |->
                     IF i < pages_n - 1 THEN page[i]
                     ELSE IF i = pages_n - 1 THEN addPageToMem(page[i], size + 1, firstAdd(n), r)
                     ELSE addPageToMem(Blank, size + firstAdd(n) + (i - pages_n) * p + 1,
                              IF i < a - 1 THEN p ELSE o % p, 0)]
    BY DEF appendBytes
<1>3. bytes_available = p - r /\ o = n - (p - r)
    BY DEF bytes_available, overflow
<1>4. a = IF o > 0 THEN pages_n + (o \div p) + 1 ELSE pages_n
    BY DEF pagesAfter
<1>5. firstAdd(n) = IF n > p - r THEN p - r ELSE n
    BY <1>3 DEF firstAdd
<1>6. MeetsEdge(n) <=> r = 0 \/ (o > 0 /\ o % p = 0)
    BY DEF MeetsEdge
<1>7. edge \in BOOLEAN /\ (~edge => pages_n = pagesFor(size) /\ \A k \in 0 .. pages_n - 1 : Holds(k))
    BY DEF LayoutOK
<1>8. pagesFor(size) = q + (IF r > 0 THEN 1 ELSE 0)
    BY DEF pagesFor
<1>9. \A k \in Nat : Holds(k) => \A j \in 0 .. p - 1 : k * p + j < size => page[k][j] = k * p + j + 1
    BY DEF Holds, Offsets
<1> HIDE DEF p, q, r, o, a
<1>10. o \in Int /\ (o > 0 => (o \div p) \in Nat /\ (o % p) \in Nat /\ o % p < p
                             /\ o = (o \div p) * p + (o % p))
    BY <1>0, <1>1, <1>3, DivMod
<1>11. a \in Nat /\ a >= pages_n
    BY <1>0, <1>4, <1>10
<1>12. size' \in Nat /\ pages_n' \in Nat /\ pages_n' # 0 /\ edge' \in BOOLEAN
  <2>1. MeetsEdge(n) \in BOOLEAN
      BY DEF MeetsEdge
  <2> QED
      BY <1>0, <1>2, <1>7, <1>11, <2>1
<1>13. ASSUME ~edge'
       PROVE  pages_n' = pagesFor(size') /\ \A k \in 0 .. pages_n' - 1 : Holds(k)'
  <2>1. ~edge /\ r > 0 /\ (o > 0 => o % p > 0) /\ pages_n = q + 1
    <3>1. ~edge /\ ~MeetsEdge(n)
        BY <1>2, <1>13
    <3>2. r > 0
        BY <1>1, <1>6, <3>1
    <3>3. o > 0 => o % p > 0
        BY <1>6, <1>10, <3>1
    <3> QED
        BY <1>1, <1>7, <1>8, <3>1, <3>2, <3>3
  <2>2. \A k \in 0 .. q : \A j \in 0 .. p - 1 : k * p + j < size => page[k][j] = k * p + j + 1
    <3>1. \A k \in 0 .. q : k \in 0 .. pages_n - 1 /\ k \in Nat
        BY <1>1, <2>1
    <3> QED
        BY <1>7, <1>9, <2>1, <3>1
  <2>3. ASSUME NEW k \in 0 .. q - 1, NEW j \in 0 .. p - 1
        PROVE  page'[k][j] = k * p + j + 1
    <3>1. page'[k] = page[k]
        BY <1>1, <1>2, <1>11, <2>1
    <3>2. k * p + j < size
      <4>1. (k + 1) * p <= q * p
          BY <1>0, <1>1
      <4>2. (k + 1) * p = k * p + p /\ k * p \in Nat /\ q * p \in Nat
          BY <1>0, <1>1
      <4> QED
          BY <4>1, <4>2, <1>0, <1>1, <2>1
    <3> QED
        BY <3>1, <3>2, <2>2, <1>1
  <2>4. ASSUME NEW j \in 0 .. p - 1, q * p + j < size + n
        PROVE  page'[q][j] = q * p + j + 1
    <3> DEFINE m == firstAdd(n)   first == size + 1
    <3>1. m \in Nat /\ m <= p - r /\ first \in Int /\ r \in Nat
        BY <1>0, <1>1, <1>5
    <3>2. page'[q] = addPageToMem(page[q], first, m, r)
        BY <1>1, <1>2, <1>11, <2>1
    <3>3. j < r + m
      <4>1. CASE n > p - r
          BY <4>1, <1>0, <1>1, <1>5
      <4>2. CASE ~(n > p - r)
        <5>1. j < r + n
            BY <1>0, <1>1, <2>4
        <5> QED
            BY <5>1, <4>2, <1>5
      <4> QED
          BY <4>1, <4>2
    <3>4. first + j - r = q * p + j + 1
        BY <1>0, <1>1
    <3> HIDE DEF m, first
    <3>5. addPageToMem(page[q], first, m, r)[j] =
              IF r <= j /\ j < r + m THEN first + j - r ELSE page[q][j]
      <4>1. j \in Offsets
          BY DEF Offsets, p
      <4>2. m <= page_size - r
          BY <3>1 DEF p
      <4>3. \A b : addPageToMem(b, first, m, r)[j] =
                IF r <= j /\ j < r + m THEN first + j - r ELSE b[j]
          BY <3>1, <4>1, <4>2, AddedPage, SMTT(30)
      <4> QED
          BY <4>3
    <3>6. CASE r <= j
        BY <3>2, <3>3, <3>4, <3>5, <3>6
    <3>7. CASE ~(r <= j)
      <4>1. q * p + j < size /\ q \in 0 .. q
          BY <1>0, <1>1, <3>7
      <4>2. page[q][j] = q * p + j + 1
          BY <4>1, <2>2
      <4> QED
          BY <3>2, <3>5, <3>7, <4>2
    <3> QED
        BY <3>6, <3>7
  <2>5. CASE o <= 0
    <3>1. a = q + 1 /\ n <= p - r
        BY <1>0, <1>1, <1>3, <1>4, <2>1, <2>5
    <3>2. size + n = q * p + (r + n) /\ 1 <= r + n /\ r + n <= p /\ r + n \in Nat
        BY <1>0, <1>1, <2>1, <3>1
    <3>3. pagesFor(size + n) = q + 1
      <4>1. r + n <= page_size
          BY <3>2 DEF p
      <4>2. pagesFor(q * page_size + (r + n)) = q + 1
          BY <1>1, <3>2, <4>1, PagesForOf
      <4> QED
          BY <3>2, <4>2 DEF p
    <3>4. ASSUME NEW k \in 0 .. pages_n' - 1, NEW j \in 0 .. p - 1, k * p + j < size'
          PROVE  page'[k][j] = k * p + j + 1
      <4>1. k \in 0 .. q - 1 \/ k = q
          BY <1>1, <1>2, <3>1
      <4>2. k = q => q * p + j < size + n
          BY <1>2, <3>4
      <4> QED
          BY <2>3, <2>4, <4>1, <4>2
    <3> QED
        BY <1>2, <3>1, <3>3, <3>4 DEF Holds, Offsets, p
  <2>6. CASE o > 0
    <3> DEFINE d == o \div p   z == o % p
    <3>1. d \in Nat /\ z \in Nat /\ z < p /\ z > 0 /\ o = d * p + z /\ d * p \in Nat
      <4>1. d \in Nat /\ z \in Nat /\ z < p /\ z > 0 /\ o = d * p + z
          BY <1>10, <2>1, <2>6
      <4> QED
          BY <4>1, <1>0
    <3>2. a = q + d + 2 /\ n > p - r
        BY <1>0, <1>1, <1>3, <1>4, <2>1, <2>6
    <3>3. firstAdd(n) = p - r
        BY <1>5, <3>2
    <3>4. page' = [i \in 0 .. a - 1 |->
                      IF i < q THEN page[i]
                      ELSE IF i = q THEN addPageToMem(page[i], size + 1, firstAdd(n), r)
                      ELSE addPageToMem(Blank, size + firstAdd(n) + (i - pages_n) * p + 1,
                               IF i < a - 1 THEN p ELSE z, 0)]
        BY <1>1, <1>2, <2>1
    <3> HIDE DEF d, z
    <3>5. size + n = (q + d + 1) * p + z
      <4>1. size + n = (q * p + p) + (d * p + z)
          BY <1>0, <1>1, <1>3, <3>1
      <4>2. (q + d + 1) * p = q * p + d * p + p
          BY <1>0, <1>1, <3>1
      <4> QED
          BY <4>1, <4>2, <1>0, <1>1, <3>1
    <3>6. pagesFor(size + n) = a
      <4>1. z <= page_size /\ 1 <= z /\ q + d + 1 \in Nat
          BY <1>0, <1>1, <3>1 DEF p
      <4>2. pagesFor((q + d + 1) * page_size + z) = (q + d + 1) + 1
          BY <3>1, <4>1, PagesForOf
      <4>3. (q + d + 1) + 1 = a
          BY <1>1, <3>1, <3>2
      <4> QED
          BY <3>5, <4>2, <4>3 DEF p
    <3>7. ASSUME NEW k \in q + 1 .. a - 1, NEW j \in 0 .. p - 1, k * p + j < size + n
          PROVE  page'[k][j] = k * p + j + 1
      <4> DEFINE m == IF k < a - 1 THEN p ELSE z
                 first == size + firstAdd(n) + (k - pages_n) * p + 1
      <4>1. k \in Nat /\ m \in Nat /\ m <= p - 0 /\ k * p \in Nat
          BY <1>0, <1>1, <3>1
      <4>2. first = k * p + 1
        <5>1. (k - pages_n) * p = k * p - (q * p + p)
            BY <1>0, <1>1, <2>1, <4>1
        <5>2. size + (p - r) = q * p + p /\ q * p \in Nat
            BY <1>0, <1>1
        <5> QED
            BY <5>1, <5>2, <3>3, <4>1, <1>0, <1>1
      <4>3. page'[k] = addPageToMem(Blank, first, m, 0)
          BY <1>1, <3>4
      <4>4. j < m
        <5>1. CASE k < a - 1
            BY <5>1, <1>0
        <5>2. CASE k = a - 1
          <6>1. k = q + d + 1
              BY <5>2, <3>2, <1>1, <3>1
          <6>2. k * p = (q + d + 1) * p
              BY <6>1
          <6>3. j < z
              BY <6>2, <3>5, <3>7, <4>1, <3>1, <1>0
          <6> QED
              BY <6>3, <5>2, <1>11
        <5> QED
            BY <5>1, <5>2, <1>11, <1>1
      <4> HIDE DEF m, first
      <4>5. addPageToMem(Blank, first, m, 0)[j] =
                IF 0 <= j /\ j < 0 + m THEN first + j - 0 ELSE Blank[j]
        <5>1. j \in Offsets
            BY DEF Offsets, p
        <5>2. m \in Nat /\ first \in Int /\ 0 \in Nat /\ m <= page_size - 0
            BY <4>1, <4>2 DEF p
        <5> QED
            BY <5>1, <5>2, AddedPage, ZenonT(60)
      <4> QED
          BY <1>0, <4>1, <4>2, <4>3, <4>4, <4>5
    <3>8. ASSUME NEW k \in 0 .. pages_n' - 1, NEW j \in 0 .. p - 1, k * p + j < size'
          PROVE  page'[k][j] = k * p + j + 1
      <4>1. k \in 0 .. q - 1 \/ k = q \/ k \in q + 1 .. a - 1
          BY <1>1, <1>2, <1>11
      <4>2. k * p + j < size + n
          BY <1>2, <3>8
      <4> QED
          BY <2>3, <2>4, <3>7, <4>1, <4>2
    <3> QED
        BY <1>2, <3>6, <3>8 DEF Holds, Offsets, p
  <2> QED
      BY <1>10, <2>5, <2>6
<1> QED
    BY <1>12, <1>13 DEF LayoutOK

(* A file given up has no bytes.                                           *)
LEMMA FreeKeepsLayout ==
    ASSUME freeBytes
    PROVE  LayoutOK' /\ size' = 0
<1>1. pagesFor(0) = 0
    BY PagesFor
<1>2. size' = 0 /\ pages_n' = 0 /\ edge' = FALSE
    BY DEF freeBytes
<1>3. pages_n' = pagesFor(size')
    BY <1>1, <1>2
<1>4. \A k \in 0 .. pages_n' - 1 : Holds(k)'
    BY <1>2
<1>5. edge' \in BOOLEAN /\ size' \in Nat /\ pages_n' \in Nat /\ size' = 0
    BY <1>2
<1> QED
    BY <1>3, <1>4, <1>5 DEF LayoutOK

(* A step that leaves the file alone leaves what is sent of it alone.      *)
LEMMA SameLayout ==
    ASSUME UNCHANGED layoutVars
    PROVE  (LayoutOK => LayoutOK') /\ sent' = sent /\ size' = size /\ pages_n' = pages_n /\ edge' = edge
    BY DEF layoutVars, LayoutOK, Holds, sent

(* What sendFile sends is a sequence, and it is all the bytes in order as  *)
(* long as no append has met the end of a page.                            *)
LEMMA SentIs ==
    ASSUME LayoutOK
    PROVE  /\ \E S : sent \in Seq(S)
           /\ ~edge => sent = [k \in 1 .. size |-> k]
<1> DEFINE p == page_size   m == (pages_n - 1) * p + lastPage(size)
           Byte(k) == page[(k - 1) \div p][(k - 1) % p]
<1>0. p \in Nat \ {0} /\ size \in Nat /\ pages_n \in Nat
    BY PageLayoutAssumption DEF LayoutOK
<1>1. CASE size = 0
  <2>1. sent = <<>> /\ <<>> \in Seq({0})
      BY <1>1, EmptySeq DEF sent
  <2>2. [k \in 1 .. 0 |-> k] = <<>>
      OBVIOUS
  <2> QED
      BY <1>1, <2>1, <2>2
<1>2. CASE size # 0
  <2>1. sent = [k \in 1 .. m |-> Byte(k)]
      BY <1>2 DEF sent
  <2>2. pages_n >= 1
      BY <1>0, <1>2 DEF LayoutOK
  <2>3. m \in Nat
    <3>1. lastPage(size) \in Nat
        BY <1>0, PagesFor
    <3>2. (pages_n - 1) * p \in Nat
        BY <1>0, <2>2
    <3> QED
        BY <3>1, <3>2
  <2>4. \E S : sent \in Seq(S)
    <3> DEFINE S == { Byte(k) : k \in 1 .. m }
    <3>1. sent \in [1 .. m -> S]
        BY <2>1
    <3> HIDE DEF S, m
    <3>2. sent \in Seq(S)
        BY <2>3, <3>1, AsSequence
    <3> QED
        BY <3>2
  <2>5. ASSUME ~edge PROVE sent = [k \in 1 .. size |-> k]
    <3>1. m = size
      <4>1. pages_n = pagesFor(size)
          BY <2>5 DEF LayoutOK
      <4> QED
          BY <4>1, <1>0, <1>2, PagesFor
    <3>2. ASSUME NEW k \in 1 .. size PROVE Byte(k) = k
      <4> DEFINE q == (k - 1) \div p   j == (k - 1) % p
      <4>1. q \in Nat /\ j \in Nat /\ j < p /\ k - 1 = q * p + j /\ q * p \in Nat
        <5>1. k - 1 \in Nat
            BY <1>0
        <5>2. q \in Nat /\ j \in Nat /\ j < p /\ k - 1 = q * p + j
            BY <5>1, <1>0, DivMod
        <5> QED
            BY <5>2, <1>0
      <4>2. q < pages_n
        <5>1. lastPage(size) <= p
            BY <1>0, PagesFor
        <5>2. size <= pages_n * p
          <6>1. (pages_n - 1) * p = pages_n * p - p
              BY <1>0
          <6> QED
              BY <6>1, <5>1, <3>1, <1>0, PagesFor
        <5> HIDE DEF q, j
        <5>3. ASSUME pages_n <= q PROVE FALSE
          <6>1. pages_n * p <= q * p
              BY <5>3, <4>1, <1>0
          <6> QED
              BY <6>1, <5>2, <4>1, <1>0
        <5> QED
            BY <5>3, <4>1, <1>0
      <4> HIDE DEF q, j
      <4>3. Holds(q)
          BY <2>5, <4>1, <4>2, <1>0 DEF LayoutOK
      <4>4. q * p + j < size /\ j \in Offsets
          BY <4>1, <1>0 DEF Offsets
      <4>5. page[q][j] = q * p + j + 1
          BY <4>3, <4>4 DEF Holds
      <4> QED
          BY <4>1, <4>5, <1>0 DEF q, j
    <3> HIDE DEF m, Byte
    <3> QED
        BY <2>1, <3>1, <3>2
  <2> QED
      BY <2>4, <2>5
<1> QED
    BY <1>1, <1>2
-----------------------------------------------------------------------------
(* Parts of a step.                                                        *)

(* What is on its way to the server is a stream of fields.                 *)
LEMMA FlowType == StreamsOK => toServer \o sending \in Seq(Msgs)
    BY ConcatProperties DEF StreamsOK

(* While the client is there, what is on its way is all of it.             *)
LEMMA FlowIs ==
    ASSUME StreamsOK, ~closed, NEW w \in Seq(Msgs)
    PROVE  Flow(w) <=> toServer \o sending = w
<1>1. closed = FALSE
    BY DEF StreamsOK
<1> QED
    BY <1>1, FlowType, BringsAll DEF Flow

(* Nothing is on its way when nothing is to be heard.                      *)
LEMMA FlowNone ==
    ASSUME StreamsOK, Flow(<<>>)
    PROVE  toServer = <<>> /\ sending = <<>>
<1>1. toServer \o sending \in Seq(Msgs) /\ closed \in BOOLEAN /\ <<>> \in Seq(Msgs)
    BY FlowType, EmptySeq DEF StreamsOK
<1>2. toServer \o sending = <<>>
    BY <1>1, BringsEmpty DEF Flow
<1> QED
    BY <1>2, ConcatEqualIffEmpty DEF StreamsOK

(* The rest of what the handler reads.                                     *)
LEMMA ReadingType ==
    ASSUME HandlerOK, arg \in Nat
    PROVE  /\ Fields(reading, arg) \in Seq(Msgs)
           /\ reading = <<>> => Fields(reading, arg) = <<>>
    BY FieldsType, FieldsNone DEF HandlerOK

(* The end of a handler, and the beginnings of others.                     *)
LEMMA WantsIs ==
    /\ Wants("func") = <<"func">>
    /\ \A l \in Functions : Wants(l) = Asked(l)
    /\ \A l \in Opening : Wants(l) = <<"found", "pid">>
    /\ \A l \in Storing : Wants(l) = <<"size", "contents">>
    /\ \A l \in {"deleting", "closed"} : Wants(l) = <<>>
<1>1. Wants("func") = <<"func">>
    BY DEF Wants, Opening, Storing
<1>2. ASSUME NEW l \in Functions PROVE Wants(l) = Asked(l)
    BY DEF Wants, Functions, Puts, Opening, Storing
<1>3. ASSUME NEW l \in Opening PROVE Wants(l) = <<"found", "pid">>
    BY DEF Wants, Opening, Storing
<1>4. ASSUME NEW l \in Storing PROVE Wants(l) = <<"size", "contents">>
    BY DEF Wants, Opening, Storing
<1>5. ASSUME NEW l \in {"deleting", "closed"} PROVE Wants(l) = <<>>
    BY DEF Wants, Opening, Storing
<1> QED
    BY <1>1, <1>2, <1>3, <1>4, <1>5

(* A handler that is done waits for the next request.                      *)
LEMMA DoneOK == ASSUME Done PROVE HandlerOK' /\ Home'
<1>1. at' = "func" /\ reading' = <<"func">> /\ got' = <<>>
    BY DEF Done, Hear, HearAnd
<1>2. <<"func">> \in Seq(Kinds) /\ <<>> \in Seq(Values) /\ Len(<<"func">>) = 1 /\ Len(<<>>) = 0
    BY Tuples, EmptySeq DEF Kinds
<1> QED
    BY <1>1, <1>2, WantsIs DEF HandlerOK, Home, Places, Opening, Storing, Puts

(* clientReadReq starts the function it has read the number of.            *)
LEMMA HearFunctionOK ==
    ASSUME NEW f \in Functions, Hear(Asked(f), f)
    PROVE  HandlerOK'
<1>1. at' = f /\ reading' = Asked(f) /\ got' = <<>>
    BY DEF Hear, HearAnd
<1>2. Asked(f) \in Seq(Kinds) /\ <<>> \in Seq(Values) /\ Len(<<>>) = 0 /\ Len(Asked(f)) \in Nat
    BY AskedType, EmptySeq, LenProperties
<1>3. f \in Places /\ f \notin Opening /\ f \notin Storing /\ f # "func"
    BY DEF Functions, Puts, Places, Opening, Storing
<1>4. Wants(f) = Asked(f)
    BY WantsIs
<1> QED
    BY <1>1, <1>2, <1>3, <1>4 DEF HandlerOK

(* fileOpen and fileClose keep what they found and read the pid.           *)
LEMMA HearPidOK ==
    ASSUME NEW b \in BOOLEAN, NEW l \in Opening, HearAnd(<<b>>, <<"pid">>, l)
    PROVE  HandlerOK' /\ Len(got') = 1
<1>1. at' = l /\ reading' = <<"pid">> /\ got' = <<b>>
    BY DEF HearAnd
<1>2. <<"pid">> \in Seq(Kinds) /\ <<b>> \in Seq(Values) /\ Len(<<b>>) = 1 /\ Len(<<"pid">>) = 1
    BY Tuples DEF Kinds, Values
<1>3. l \in Places /\ l \notin Storing /\ l # "func" /\ l \notin Puts
    BY DEF Places, Opening, Storing, Puts
<1>4. Wants(l) = <<"found", "pid">>
    BY WantsIs
<1>5. Len(got') = 1 /\ Len(reading') = 1 /\ Len(Wants(at')) = 2
    BY <1>1, <1>2, <1>4
<1>6. \A k \in 1 .. Len(reading') : reading'[k] = Wants(at')[Len(got') + k]
  <2>1. reading'[1] = "pid" /\ Wants(at')[2] = "pid"
      BY <1>1, <1>4
  <2>2. \A k \in 1 .. 1 : k = 1
      OBVIOUS
  <2> QED
      BY <1>5, <2>1, <2>2
<1>7. got'[1] \in BOOLEAN
    BY <1>1
<1> QED
    BY <1>1, <1>2, <1>3, <1>5, <1>6, <1>7 DEF HandlerOK

(* fileWrite and fileAppend keep the size and read the contents.           *)
LEMMA HearContentsOK ==
    ASSUME NEW n \in Nat \ {0}, NEW l \in Storing, HearAnd(<<n>>, <<"contents">>, l)
    PROVE  HandlerOK' /\ Len(got') = 1 /\ got'[1] = n
<1>1. at' = l /\ reading' = <<"contents">> /\ got' = <<n>>
    BY DEF HearAnd
<1>2. <<"contents">> \in Seq(Kinds) /\ <<n>> \in Seq(Values) /\ Len(<<n>>) = 1 /\ Len(<<"contents">>) = 1
    BY Tuples DEF Kinds, Values
<1>3. l \in Places /\ l \notin Opening /\ l # "func" /\ l \notin Puts
    BY DEF Places, Opening, Storing, Puts
<1>4. Wants(l) = <<"size", "contents">>
    BY WantsIs
<1>5. Len(got') = 1 /\ Len(reading') = 1 /\ Len(Wants(at')) = 2
    BY <1>1, <1>2, <1>4
<1>6. \A k \in 1 .. Len(reading') : reading'[k] = Wants(at')[Len(got') + k]
  <2>1. reading'[1] = "contents" /\ Wants(at')[2] = "contents"
      BY <1>1, <1>4
  <2>2. \A k \in 1 .. 1 : k = 1
      OBVIOUS
  <2> QED
      BY <1>5, <2>1, <2>2
<1>7. got'[1] = n
    BY <1>1
<1> QED
    BY <1>1, <1>2, <1>3, <1>5, <1>6, <1>7 DEF HandlerOK

(* fileDelete after its answer, and a closed connection, read nothing.     *)
LEMMA HearNothingOK ==
    ASSUME NEW l \in {"deleting", "closed"}, HearAnd(<<>>, <<>>, l)
    PROVE  HandlerOK'
<1>1. at' = l /\ reading' = <<>> /\ got' = <<>>
    BY DEF HearAnd
<1>2. <<>> \in Seq(Kinds) /\ <<>> \in Seq(Values) /\ Len(<<>>) = 0
    BY EmptySeq
<1>3. l \in Places /\ l \notin Opening /\ l \notin Storing /\ l # "func" /\ l \notin Puts
    BY DEF Places, Opening, Storing, Puts
<1>4. Wants(l) = <<>>
    BY WantsIs
<1> QED
    BY <1>1, <1>2, <1>3, <1>4 DEF HandlerOK

(* What is left to say of a step of a client, and of a step of a handler.  *)
LEMMA ClientStep ==
    ASSUME Inv, ~closed, UNCHANGED <<layoutVars, toServer, serverVars, closed, reset, cut, spoiled, status>>,
           sending' \in Seq(Msgs), arg' \in Nat, acked' \in Nat, Acked', Phase'
    PROVE  Inv'
<1>1. StreamsOK'
    BY DEF Inv, StreamsOK, serverVars
<1>2. HandlerOK'
    BY DEF Inv, HandlerOK, serverVars
<1>3. LayoutOK'
    BY SameLayout DEF Inv
<1>4. EndsOK'
    BY DEF Inv, EndsOK
<1> QED
    BY <1>1, <1>2, <1>3, <1>4 DEF Inv

(* A step of the server leaves the invariant as it is but for the handler, *)
(* the file and what is sent to the client.                                *)
LEMMA ServerStep ==
    ASSUME Inv, UNCHANGED <<toServer, clientVars, closed, reset, cut, status>>, spoiled' \in BOOLEAN,
           opens' \in Int, present' \in BOOLEAN,
           HandlerOK', LayoutOK', IF closed THEN Gone' ELSE Phase' /\ Acked'
    PROVE  Inv'
<1>1. StreamsOK'
    BY DEF Inv, StreamsOK, clientVars
<1>2. EndsOK'
    BY DEF Inv, EndsOK
<1>3. Acked'
    BY DEF Acked, Gone
<1> QED
    BY <1>1, <1>2, <1>3 DEF Inv
-----------------------------------------------------------------------------
(* Where the two sides are.                                                *)

(* The places of the calls.                                                *)
LEMMA PhasePlaces ==
    /\ AtIdle => cl = "idle" /\ expects = <<>>
    /\ AtAsked => \E f \in Functions : cl = Place(f) /\ expects = <<Answer(f)>>
    /\ AtSearch => cl = "search" /\ Quiet /\ Home
    /\ AtInit => cl = "init" /\ Quiet /\ Home
    /\ AtOpen => cl = "open" /\ Quiet /\ at \in Opening
    /\ AtRemove => cl = "remove" /\ Quiet /\ (Home \/ at = "deleting")
    /\ AtPut => cl \in {"write", "append"} /\ Quiet /\ (Home \/ at \in Storing)
    /\ AtStored => cl = "stored" /\ (at \in Storing \/ (Quiet /\ Home))
    /\ AtRead => cl = "read" /\ Quiet /\ Home
    /\ AtReadSize => cl = "readSize" /\ Quiet /\ Home
    /\ AtReadBytes => cl = "readBytes" /\ Quiet /\ Home
    /\ AtNext => cl = "next" /\ Quiet /\ Home
    /\ AtNextSize => cl = "nextSize" /\ Quiet /\ Home
    /\ AtNextBytes => cl = "nextBytes" /\ Quiet /\ Home
<1>1. Sent => Quiet /\ Home
    BY DEF Sent
<1>2. /\ AtIdle => cl = "idle" /\ expects = <<>>
      /\ AtSearch => cl = "search" /\ Quiet /\ Home
      /\ AtInit => cl = "init" /\ Quiet /\ Home
      /\ AtOpen => cl = "open" /\ Quiet /\ at \in Opening
      /\ AtRemove => cl = "remove" /\ Quiet /\ (Home \/ at = "deleting")
    BY DEF AtIdle, AtSearch, AtInit, AtOpen, AtRemove
<1>3. /\ AtRead => cl = "read" /\ Quiet /\ Home
      /\ AtReadSize => cl = "readSize" /\ Quiet /\ Home
      /\ AtReadBytes => cl = "readBytes" /\ Quiet /\ Home
      /\ AtNext => cl = "next" /\ Quiet /\ Home
      /\ AtNextSize => cl = "nextSize" /\ Quiet /\ Home
      /\ AtNextBytes => cl = "nextBytes" /\ Quiet /\ Home
    BY <1>1 DEF AtRead, AtReadSize, AtReadBytes, AtNext, AtNextSize, AtNextBytes
<1>4. AtPut => cl \in {"write", "append"} /\ Quiet /\ (Home \/ at \in Storing)
    BY DEF AtPut
<1>5. AtStored => cl = "stored" /\ (at \in Storing \/ (Quiet /\ Home))
    BY DEF AtStored
<1>6. AtAsked => \E f \in Functions : cl = Place(f) /\ expects = <<Answer(f)>>
    BY DEF AtAsked
<1> QED
    BY <1>2, <1>3, <1>4, <1>5, <1>6

(* A client that has asked waits in its call.                              *)
LEMMA PlacesOf ==
    \A f \in Functions : Place(f) \in {"search", "init", "open", "write", "append", "remove", "read", "next"}
    BY DEF Functions, Puts, Place

(* Where a call can stand that has read its answer.                        *)
LEMMA PhaseAt ==
    ASSUME Phase, expects = <<>>
    PROVE  /\ cl = "idle" => AtIdle
           /\ cl = "search" => AtSearch
           /\ cl = "init" => AtInit
           /\ cl = "open" => AtOpen
           /\ cl = "remove" => AtRemove
           /\ cl \in {"write", "append"} => AtPut
           /\ cl = "stored" => AtStored
           /\ cl = "read" => AtRead
           /\ cl = "readSize" => AtReadSize
           /\ cl = "readBytes" => AtReadBytes
           /\ cl = "next" => AtNext
           /\ cl = "nextSize" => AtNextSize
           /\ cl = "nextBytes" => AtNextBytes
<1>1. ~AtAsked
    BY PhasePlaces
<1> QED
    BY <1>1, PhasePlaces DEF Phase

(* Where a handler can stand that has read what its function reads.        *)
LEMMA FunctionEnd ==
    ASSUME Inv, at \in Functions, reading = <<>>
    PROVE  /\ toServer = <<>>
           /\ Len(got) = Len(Asked(at))
           /\ closed => toClient = <<>>
           /\ ~closed => /\ cl = Place(at) /\ expects = <<Answer(at)>> /\ answers = <<>>
                         /\ sending = <<>> /\ toClient = <<>> /\ Heard
                         /\ at \in Puts => arg \in Sizes
<1>0. at # "func" /\ at \notin Opening \cup Storing \cup {"deleting"} /\ ~Home
    BY DEF Functions, Puts, Opening, Storing, Home
<1>1. Len(got) = Len(Asked(at))
  <2>1. Len(reading) = 0 /\ Len(got) \in Nat /\ Len(got) + Len(reading) = Len(Wants(at))
      BY EmptySeq, LenProperties DEF Inv, HandlerOK
  <2> QED
      BY <2>1, WantsIs
<1>2. \A f \in Functions : (Behind(Request(f, arg)) \/ Reads(f)) => f = at /\ Flow(<<>>)
  <2>1. Fields(reading, arg) = <<>>
      BY ReadingType DEF Inv, StreamsOK
  <2> QED
      BY <1>0, <2>1 DEF Behind, Reads
<1>3. CASE closed
  <2>1. toClient = <<>>
      BY <1>3 DEF Inv, Gone
  <2>2. toServer = <<>>
    <3>1. CASE \E f \in Functions : Behind(Request(f, arg)) \/ Reads(f)
        BY <3>1, <1>2, FlowNone DEF Inv
    <3> QED
        BY <3>1, <1>0, <1>3 DEF Inv, Gone
  <2> QED
      BY <1>1, <1>3, <2>1, <2>2
<1>4. CASE ~closed
  <2>1. AtAsked
      BY <1>0, <1>4, PhasePlaces DEF Inv, Phase, AtIdle, Behind
  <2>2. PICK f \in Functions :
            /\ cl = Place(f) /\ expects = <<Answer(f)>> /\ answers = <<>> /\ toClient = <<>>
            /\ f \in Puts => arg \in Sizes
            /\ Behind(Request(f, arg)) \/ (Reads(f) /\ (at = f => Heard))
      BY <2>1 DEF AtAsked
  <2>3. f = at /\ Flow(<<>>)
      BY <1>2, <2>2
  <2>4. Heard
      BY <1>0, <2>2, <2>3 DEF Behind
  <2>5. toServer = <<>> /\ sending = <<>>
      BY <2>3, FlowNone DEF Inv
  <2> QED
      BY <1>1, <1>4, <2>2, <2>3, <2>4, <2>5
<1> QED
    BY <1>3, <1>4

(* When the client has gone a handler ends unheard.                        *)
LEMMA GoneStep ==
    ASSUME Inv, closed, closed', toServer = <<>>, UNCHANGED <<toServer, toClient, clientVars>>
    PROVE  Gone'
    BY DEF Inv, Gone, clientVars

(* Nothing is written to a client that has gone.                           *)
LEMMA SendsNothing == ASSUME NEW fields, closed, Send(fields) PROVE toClient' = toClient
    BY DEF Send

(* Words to a client that has read everything are all there is to read.    *)
LEMMA SendsAll ==
    ASSUME NEW S, NEW fields \in Seq(S), ~closed, toClient = <<>>, Send(fields)
    PROVE  toClient' = fields
    BY ConcatEmptySeq DEF Send
-----------------------------------------------------------------------------
(* The handlers.                                                           *)

(* A sequence of one value.                                                *)
LEMMA Alone == \A x : <<x>> \in Seq({x}) /\ <<x>> \o <<>> = <<x>>
<1> TAKE x
<1>1. <<x>> \in Seq({x})
    BY Tuples
<1> QED
    BY <1>1, ConcatEmptySeq

(* A function answers with an error, or with 0.                            *)
LEMMA ErrAnswer ==
    ASSUME Inv, at \in Functions, reading = <<>>, ~closed, at # "fileNRead",
           NEW e \in Errors, Send(Err(e)), UNCHANGED <<toServer, clientVars>>
    PROVE  Answered(e)' /\ Quiet' /\ cl' = Place(at)
<1>1. /\ cl = Place(at) /\ expects = <<"err">> /\ answers = <<>>
      /\ toServer = <<>> /\ sending = <<>> /\ toClient = <<>>
    BY FunctionEnd DEF Answer
<1>2. toClient' = <<Error(e)>>
    BY <1>1, Alone, SendsAll DEF Err, Error
<1>3. Error(e).kind = "err"
    BY DEF Error, Field
<1> QED
    BY <1>1, <1>2, <1>3, Alone DEF Answered, Tells, Quiet, clientVars

(* Acknowledged bytes stay stored while the file and the call stay.        *)
LEMMA AckedSame ==
    ASSUME Acked, UNCHANGED <<present, size, cl, acked>>, cl # "stored"
    PROVE  Acked'
    BY DEF Acked

(* A function that stays at its end after the answer.                      *)
LEMMA AnswerStep ==
    ASSUME Inv, at \in Functions, reading = <<>>, HandlerOK',
           UNCHANGED <<layoutVars, present, opens>>, ServerOnly,
           NEW fields, Send(fields), ~closed => Phase'
    PROVE  Inv'
<1>1. UNCHANGED <<toServer, clientVars, closed, reset, cut, status>> /\ spoiled' \in BOOLEAN
      /\ opens' \in Int /\ present' \in BOOLEAN
    BY DEF ServerOnly, endVars, Inv, StreamsOK
<1>2. LayoutOK' /\ size' = size
    BY SameLayout DEF Inv
<1>3. CASE closed
    BY <1>1, <1>2, <1>3, FunctionEnd, SendsNothing, GoneStep, ServerStep
<1>4. CASE ~closed
  <2>1. cl \notin {"stored"}
      BY <1>4, FunctionEnd, PlacesOf
  <2>2. Acked'
      BY <1>1, <1>2, <2>1, AckedSame DEF Inv, clientVars
  <2> QED
      BY <1>1, <1>2, <1>4, <2>2, ServerStep
<1> QED
    BY <1>3, <1>4

(* fileSearch answers whether the file is there.                           *)
LEMMA SearchStep == ASSUME Inv, fileSearch PROVE Inv'
<1>1. at = "fileSearch" /\ reading = <<>> /\ at \in Functions
    BY DEF fileSearch, Handling, Functions
<1>2. PICK f \in found : Send(Err(IF f THEN "ok" ELSE "ENOENT"))
    BY DEF fileSearch
<1> DEFINE e == IF f THEN "ok" ELSE "ENOENT"
<1>3. e \in Errors
    BY DEF Errors
<1> HIDE DEF e
<1>4. HandlerOK' /\ Home'
    BY DoneOK DEF fileSearch
<1>5. ServerOnly /\ UNCHANGED <<layoutVars, present, opens>> /\ UNCHANGED <<toServer, clientVars>>
    BY DEF fileSearch, Stored, ServerOnly
<1>6. ASSUME ~closed PROVE Phase'
  <2>1. Answered(e)' /\ Quiet' /\ cl' = "search"
    <3>1. Send(Err(e))
        BY <1>2 DEF e
    <3> QED
        BY <1>1, <1>3, <1>5, <1>6, <3>1, ErrAnswer DEF Place
  <2>2. AtSearch'
      BY <1>3, <1>4, <2>1 DEF AtSearch
  <2> QED
      BY <2>2 DEF Phase
<1> QED
    BY <1>1, <1>2, <1>4, <1>5, <1>6, AnswerStep

(* fileInit creates the file and answers.                                  *)
LEMMA InitStep == ASSUME Inv, fileInit PROVE Inv'
<1>1. at = "fileInit" /\ reading = <<>> /\ at \in Functions
    BY DEF fileInit, Handling, Functions
<1>2. Send(Err("ok")) /\ "ok" \in Errors
    BY DEF fileInit, Errors
<1>3. HandlerOK' /\ Home'
    BY DoneOK DEF fileInit
<1>4. UNCHANGED <<toServer, clientVars, closed, reset, cut, spoiled, status>>
    BY DEF fileInit, ServerOnly, endVars
<1>5. CASE got[1] = Unsent
  <2>1. UNCHANGED <<layoutVars, present, opens>>
      BY <1>5 DEF fileInit, Stored
  <2>2. ASSUME ~closed PROVE FALSE
    <3>1. Heard /\ Len(got) = Len(Asked(at))
        BY <1>1, <2>2, FunctionEnd
    <3>2. got[1] = Asking(Wants(at)[1], arg).val /\ Wants(at) = <<"path">>
        BY <1>1, <3>1, AskedIs, WantsIs DEF Heard
    <3> QED
        BY <1>5, <3>2, ProtocolAssumption DEF Asking, Field
  <2> QED
      BY <1>1, <1>2, <1>3, <2>1, <2>2, AnswerStep DEF fileInit
<1>6. CASE got[1] # Unsent
  <2>1. present' = TRUE /\ opens' = 0 /\ freeBytes
      BY <1>6 DEF fileInit
  <2>2. LayoutOK' /\ size' = 0
      BY <2>1, FreeKeepsLayout
  <2>3. ASSUME ~closed PROVE Phase' /\ Acked'
    <3>1. Answered("ok")' /\ Quiet' /\ cl' = "init"
        BY <1>1, <1>2, <1>4, <2>3, ErrAnswer DEF Place
    <3>2. AtInit'
        BY <1>2, <1>3, <2>2, <3>1 DEF AtInit
    <3> QED
        BY <3>1, <3>2 DEF Phase, Acked
  <2>4. closed => Gone'
      BY <1>1, <1>2, <1>4, FunctionEnd, SendsNothing, GoneStep
  <2>5. spoiled' \in BOOLEAN /\ opens' \in Int /\ present' \in BOOLEAN
      BY <1>4, <2>1 DEF Inv, StreamsOK
  <2> QED
      BY <1>3, <1>4, <2>2, <2>3, <2>4, <2>5, ServerStep
<1> QED
    BY <1>5, <1>6

(* fileOpen and fileClose up to their answer.                              *)
LEMMA AnswerFirstStep ==
    ASSUME Inv, NEW l \in {"fileOpen", "fileClose"}, NEW next \in Opening, AnswerFirst(l, next)
    PROVE  Inv'
<1>1. at = l /\ reading = <<>> /\ at \in Functions /\ at # "fileNRead" /\ Place(at) = "open"
    BY DEF AnswerFirst, Handling, Functions, Place
<1>2. PICK f \in found : /\ Send(Err(IF f THEN "ok" ELSE "ENOENT"))
                         /\ HearAnd(<<f>>, <<"pid">>, next)
    BY DEF AnswerFirst
<1> DEFINE e == IF f THEN "ok" ELSE "ENOENT"
<1>3. e \in Errors /\ f \in BOOLEAN
    BY DEF Errors, found, Inv, StreamsOK
<1>4. Send(Err(e))
    BY <1>2
<1> HIDE DEF e
<1>5. HandlerOK' /\ Len(got') = 1 /\ at' \in Opening
    BY <1>2, <1>3, HearPidOK DEF HearAnd
<1>6. ServerOnly /\ UNCHANGED <<layoutVars, present, opens>> /\ UNCHANGED <<toServer, clientVars>>
    BY DEF AnswerFirst, Stored, ServerOnly
<1>7. ASSUME ~closed PROVE Phase'
  <2>1. Answered(e)' /\ Quiet' /\ cl' = "open"
      BY <1>1, <1>3, <1>4, <1>6, <1>7, ErrAnswer
  <2>2. AtOpen'
      BY <1>3, <1>5, <2>1 DEF AtOpen
  <2> QED
      BY <2>2 DEF Phase
<1> QED
    BY <1>1, <1>4, <1>5, <1>6, <1>7, AnswerStep

(* The end of a handler the client no longer waits for.                    *)
LEMMA HomeStep ==
    ASSUME Inv, at \in Opening \cup {"deleting"}, reading = <<>>, Done,
           UNCHANGED <<toServer, toClient, clientVars, closed>>
    PROVE  IF closed THEN Gone' ELSE Phase' /\ cl' # "stored"
<1>0. at \notin Functions \cup Storing \cup {"func"} /\ ~Home
    BY DEF Functions, Puts, Opening, Storing, Home
<1>1. Home' /\ at' = "func" /\ got' = <<>>
    BY DoneOK DEF Done, Hear, HearAnd
<1>2. Fields(reading, arg) = <<>> /\ arg \in Nat
    BY ReadingType DEF Inv, StreamsOK
<1>3. ASSUME NEW w \in Seq(Msgs), Behind(w)
      PROVE  at' = "func" /\ got' = <<>> /\ Brings(toServer' \o sending', w, closed')
  <2>1. <<>> \o w = w
      BY ConcatEmptySeq
  <2>2. Flow(w)
      BY <1>0, <1>2, <1>3, <2>1 DEF Behind
  <2> QED
      BY <1>1, <2>2 DEF Flow, clientVars
<1>4. \A f \in Functions : Behind(Request(f, arg)) => Behind(Request(f, arg))'
  <2> TAKE f \in Functions
  <2>1. Request(f, arg) \in Seq(Msgs) /\ arg' = arg
      BY <1>2, RequestType DEF clientVars
  <2> QED
      BY <1>3, <2>1 DEF Behind, Flow
<1>5. \A f \in Functions : ~Reads(f)
    BY <1>0 DEF Reads
<1>6. CASE closed
  <2>1. CASE toServer = <<>>
      BY <1>6, <2>1, GoneStep
  <2>2. CASE toServer # <<>>
    <3>1. PICK f \in Functions : (f \in Puts => arg \in Sizes) /\ Behind(Request(f, arg))
        BY <1>0, <1>5, <1>6, <2>2 DEF Inv, Gone
    <3>2. Behind(Request(f, arg))'
        BY <1>4, <3>1
    <3> QED
        BY <1>6, <3>1, <3>2 DEF Inv, Gone, clientVars
  <2> QED
      BY <1>6, <2>1, <2>2
<1>7. CASE ~closed
  <2>1. AtIdle \/ AtAsked \/ AtOpen \/ AtRemove
      BY <1>0, <1>7, PhasePlaces DEF Inv, Phase
  <2>2. CASE AtIdle
    <3>1. Behind(<<>>)'
        BY <1>3, <2>2, EmptySeq DEF AtIdle, Behind, Flow
    <3> QED
        BY <1>7, <2>2, <3>1 DEF AtIdle, Phase, clientVars
  <2>3. CASE AtAsked
    <3>1. PICK f \in Functions :
              /\ cl = Place(f) /\ expects = <<Answer(f)>> /\ answers = <<>> /\ toClient = <<>>
              /\ f \in Puts => arg \in Sizes
              /\ Behind(Request(f, arg))
        BY <1>5, <2>3 DEF AtAsked
    <3>2. Behind(Request(f, arg))' /\ cl' # "stored"
        BY <1>4, <3>1, PlacesOf DEF clientVars
    <3>3. AtAsked'
        BY <3>1, <3>2 DEF AtAsked, clientVars
    <3> QED
        BY <1>7, <3>2, <3>3 DEF Phase
  <2>4. CASE AtOpen
    <3>1. Len(reading) = 0 /\ Len(got) = 1 /\ Len(Wants(at)) = 2
        BY <2>4, WantsIs, EmptySeq DEF AtOpen
    <3> QED
        BY <3>1 DEF Inv, HandlerOK
  <2>5. CASE AtRemove
    <3>1. AtRemove'
        BY <1>1, <2>5 DEF AtRemove, Quiet, Answered, Tells, clientVars
    <3> QED
        BY <1>7, <2>5, <3>1 DEF Phase, AtRemove, clientVars
  <2> QED
      BY <2>1, <2>2, <2>3, <2>4, <2>5
<1> QED
    BY <1>6, <1>7

(* fileOpen and fileClose once they have the pid.                          *)
LEMMA OpensStep ==
    ASSUME Inv, NEW l \in Opening, NEW n \in Int, Opens(l, n)
    PROVE  Inv'
<1>1. at = l /\ reading = <<>> /\ at \in Opening \cup {"deleting"} /\ Done
    BY DEF Opens, Handling
<1>2. UNCHANGED <<toServer, toClient, clientVars, closed, reset, cut, spoiled, status, layoutVars, present>>
    BY DEF Opens, ServerOnly, endVars
<1>3. IF closed THEN Gone' ELSE Phase' /\ cl' # "stored"
    BY <1>1, <1>2, HomeStep
<1>4. opens' \in Int /\ present' \in BOOLEAN /\ spoiled' \in BOOLEAN
    BY <1>2 DEF Opens, Inv, StreamsOK
<1>5. HandlerOK' /\ LayoutOK' /\ size' = size
    BY <1>1, <1>2, DoneOK, SameLayout DEF Inv
<1>6. ~closed => Acked'
    BY <1>2, <1>3, <1>5, AckedSame DEF Inv, clientVars
<1> QED
    BY <1>2, <1>3, <1>4, <1>5, <1>6, ServerStep

(* What a function has read when the client is there: the path it sent.    *)
LEMMA PathHeard ==
    ASSUME Inv, ~closed, at \in Functions \ {"fileNRead"}, reading = <<>>
    PROVE  found = {present}
<1>1. Heard /\ Len(got) = Len(Asked(at))
    BY FunctionEnd
<1>2. Len(got) >= 1 /\ Len(got) \in Nat /\ Asked(at)[1] = "path"
    BY <1>1, AskedIs DEF Functions
<1>3. got[1] = Asking(Wants(at)[1], arg).val /\ Wants(at)[1] = "path"
    BY <1>1, <1>2, WantsIs DEF Heard
<1>4. got[1] # Unsent
    BY <1>3, ProtocolAssumption DEF Asking, Field
<1> QED
    BY <1>4 DEF found

(* What fileOpenCheck may answer of a file that is there or is not.        *)
LEMMA CheckIs ==
    /\ openCheck \subseteq Errors
    /\ (found = {present} /\ present \in BOOLEAN /\ ~present) => openCheck = {"ENOENT"}
    /\ (found = {present} /\ present \in BOOLEAN /\ "ENOENT" \in openCheck) => ~present
<1>1. isOpen \subseteq BOOLEAN /\ isOpen # {}
  <2>1. CASE got[2] = Unsent
    <3>1. isOpen = BOOLEAN /\ TRUE \in BOOLEAN
        BY <2>1 DEF isOpen
    <3> QED
        BY <3>1
  <2>2. CASE got[2] # Unsent
    <3>1. isOpen = {opens > 0} /\ (opens > 0) \in BOOLEAN
        BY <2>2 DEF isOpen
    <3> QED
        BY <3>1
  <2> QED
      BY <2>1, <2>2
<1>2. openCheck \subseteq Errors
    BY DEF openCheck, Errors
<1>3. (found = {present} /\ present \in BOOLEAN /\ ~present) => openCheck = {"ENOENT"}
    BY <1>1 DEF openCheck
<1>4. (found = {present} /\ present \in BOOLEAN /\ present) => "ENOENT" \notin openCheck
    BY <1>1 DEF openCheck
<1> QED
    BY <1>2, <1>3, <1>4

(* sendFile: the size and then the bytes, if there are any.                *)
More == Field("name_len", "more")

(* What sendFile writes, field by field.                                   *)
LEMMA ContentsAre ==
    /\ \E S : contents \in Seq(S) /\ Err("ok") \o contents \in Seq(S)
    /\ contents = <<Size>> \o Bytes(<<>>)
    /\ Err("ok") \o contents = <<Error("ok")>> \o (<<Size>> \o Bytes(<<>>))
    /\ \E S : <<More, Name>> \o contents \o End \in Seq(S)
    /\ <<More, Name>> \o contents \o End = <<More>> \o (<<Name, Size>> \o Bytes(End))
<1> DEFINE ct == Field("contents", sent)   e == Field("name_len", "end")   ok == Error("ok")
           S == {More, Name, Size, ct, e, ok}
<1>1. More \in S /\ Name \in S /\ Size \in S /\ ct \in S /\ e \in S /\ ok \in S
    OBVIOUS
<1>2. /\ End = <<e>>
      /\ Bytes(<<>>) = IF size = 0 THEN <<>> ELSE <<ct>> \o <<>>
      /\ Bytes(End) = IF size = 0 THEN <<e>> ELSE <<ct>> \o <<e>>
      /\ contents = <<Size>> \o (IF size = 0 THEN <<>> ELSE <<ct>>)
      /\ Err("ok") = <<ok>>
    BY DEF End, Bytes, contents, Size, Err, Error
<1> HIDE DEF S, ct, e, ok
<1>3. /\ <<e>> \in Seq(S) /\ <<ct>> \in Seq(S) /\ <<Size>> \in Seq(S) /\ <<Name>> \in Seq(S)
      /\ <<More>> \in Seq(S) /\ <<ok>> \in Seq(S) /\ <<>> \in Seq(S)
      /\ <<More, Name>> = <<More>> \o <<Name>> /\ <<Name, Size>> = <<Name>> \o <<Size>>
  <2>1. \A x \in S : <<x>> \in Seq(S)
      BY Tuples
  <2>2. \A x, y \in S : <<x, y>> = <<x>> \o <<y>>
      BY Pair
  <2> QED
      BY <1>1, <2>1, <2>2, EmptySeq
<1> DEFINE b == Bytes(<<>>)
<1>4. <<ct>> \o <<>> = <<ct>>
    BY <1>3, ConcatEmptySeq
<1>5. b \in Seq(S) /\ contents = <<Size>> \o b
    BY <1>2, <1>3, <1>4
<1>6. Bytes(End) = b \o <<e>>
    BY <1>2, <1>3, <1>4, ConcatEmptySeq
<1> HIDE DEF b
<1> DEFINE zb == <<Size>> \o b   be == b \o <<e>>   nzb == <<Name>> \o zb   zbe == <<Size>> \o be
<1>7. /\ zb \in Seq(S) /\ be \in Seq(S) /\ nzb \in Seq(S) /\ zbe \in Seq(S)
    BY <1>3, <1>5, ConcatProperties
<1>8. zb \o <<e>> = zbe
    BY <1>3, <1>5, ConcatAssociative
<1>9. <<Name, Size>> \o be = <<Name>> \o zbe
    BY <1>3, <1>7, ConcatAssociative
<1> HIDE DEF zb, be, zbe
<1>10. nzb \o <<e>> = <<Name>> \o zbe
  <2>1. (<<Name>> \o zb) \o <<e>> = <<Name>> \o (zb \o <<e>>)
      BY <1>3, <1>7, ConcatAssociative
  <2> QED
      BY <1>8, <2>1
<1> HIDE DEF nzb
<1>11. <<More, Name>> \o zb = <<More>> \o nzb
    BY <1>3, <1>7, ConcatAssociative DEF nzb
<1>12. (<<More>> \o nzb) \o <<e>> = <<More>> \o (nzb \o <<e>>)
    BY <1>3, <1>7, ConcatAssociative
<1>13. <<More, Name>> \o contents \o End = <<More>> \o (<<Name, Size>> \o Bytes(End))
  <2>1. <<More, Name>> \o contents \o End = (<<More, Name>> \o zb) \o <<e>>
      BY <1>2, <1>5 DEF zb
  <2>2. <<More>> \o (<<Name, Size>> \o Bytes(End)) = <<More>> \o (<<Name>> \o zbe)
      BY <1>6, <1>9 DEF be
  <2> QED
      BY <2>1, <2>2, <1>10, <1>11, <1>12
<1>14. <<More, Name>> \o contents \o End \in Seq(S)
  <2>1. <<More>> \o nzb \in Seq(S)
      BY <1>3, <1>7, ConcatProperties
  <2>2. (<<More>> \o nzb) \o <<e>> \in Seq(S)
      BY <1>3, <2>1, ConcatProperties
  <2> QED
      BY <2>2, <1>2, <1>5, <1>11 DEF zb
<1>15. contents \in Seq(S) /\ Err("ok") \o contents \in Seq(S)
    BY <1>2, <1>3, <1>5, <1>7, ConcatProperties DEF zb
<1>16. Err("ok") \o contents = <<Error("ok")>> \o (<<Size>> \o Bytes(<<>>))
    BY <1>2, <1>5 DEF ok, b
<1> QED
    BY <1>5, <1>13, <1>14, <1>15, <1>16 DEF b

(* A function that sends a file is at its end when it has sent it.         *)
LEMMA SendsStep ==
    ASSUME Inv, ~spoiled', at \in Functions, reading = <<>>, NEW fields, Sends(fields),
           ~closed => Phase'
    PROVE  Inv'
<1>1. UNCHANGED <<toServer, clientVars, closed, reset, cut, status, layoutVars, present, opens>>
      /\ Send(fields) /\ Done
    BY DEF Sends, Stored
<1>2. spoiled' = (spoiled \/ Len(sent) # size)
    BY DEF Sends
<1>3. spoiled' \in BOOLEAN /\ opens' \in Int /\ present' \in BOOLEAN
    BY <1>1, <1>2 DEF Inv, StreamsOK
<1>4. HandlerOK' /\ LayoutOK' /\ size' = size
    BY <1>1, DoneOK, SameLayout DEF Inv
<1>5. closed => Gone'
    BY <1>1, FunctionEnd, SendsNothing, GoneStep
<1>6. ~closed => Acked'
  <2>1. ~closed => cl # "stored"
      BY FunctionEnd, PlacesOf
  <2> QED
      BY <1>1, <1>4, <2>1, AckedSame DEF Inv, clientVars
<1> QED
    BY <1>1, <1>3, <1>4, <1>5, <1>6, ServerStep

(* fileRead: an error, or the size and the contents.                       *)
LEMMA ReadStep == ASSUME Inv, fileRead, ~spoiled' PROVE Inv'
<1>1. at = "fileRead" /\ reading = <<>> /\ at \in Functions /\ at # "fileNRead"
      /\ Place(at) = "read"
    BY DEF fileRead, Handling, Functions, Place
<1>2. PICK e \in openCheck : IF e = "ok" THEN Sends(Err("ok") \o contents) ELSE Refuses(e)
    BY DEF fileRead
<1>3. e \in Errors
    BY CheckIs
<1>4. CASE e # "ok"
  <2>1. Send(Err(e)) /\ Done /\ UNCHANGED <<layoutVars, present, opens>> /\ ServerOnly
        /\ UNCHANGED <<toServer, clientVars>>
      BY <1>2, <1>4 DEF Refuses, Stored, ServerOnly
  <2>2. HandlerOK' /\ Home'
      BY <2>1, DoneOK
  <2>3. ASSUME ~closed PROVE Phase'
    <3>1. Answered(e)' /\ Quiet' /\ cl' = "read"
        BY <1>1, <1>3, <2>1, <2>3, ErrAnswer
    <3>2. AtRead'
        BY <1>3, <1>4, <2>2, <3>1 DEF AtRead
    <3> QED
        BY <3>2 DEF Phase
  <2> QED
      BY <1>1, <2>1, <2>2, <2>3, AnswerStep
<1>5. CASE e = "ok"
  <2>1. Sends(Err("ok") \o contents)
      BY <1>2, <1>5
  <2>2. UNCHANGED <<toServer, clientVars, layoutVars, present>> /\ Home' /\ Send(Err("ok") \o contents)
      BY <2>1, DoneOK DEF Sends, Stored
  <2>3. Len(sent) = size
      BY <2>1 DEF Sends
  <2>4. ASSUME ~closed PROVE Phase'
    <3>1. /\ cl = "read" /\ expects = <<"err">> /\ answers = <<>>
          /\ toServer = <<>> /\ sending = <<>> /\ toClient = <<>>
        BY <1>1, <2>4, FunctionEnd DEF Answer
    <3>2. present
      <4>1. found = {present} /\ present \in BOOLEAN
          BY <1>1, <2>4, PathHeard DEF Inv, StreamsOK
      <4> QED
          BY <4>1, <1>2, <1>5, CheckIs
    <3>3. toClient' = <<Error("ok")>> \o (<<Size>> \o Bytes(<<>>))
        BY <2>2, <2>4, <3>1, ContentsAre, SendsAll
    <3>4. sent' = sent /\ size' = size
        BY <2>2, SameLayout
    <3>5. Size' = Size /\ Bytes(<<>>)' = Bytes(<<>>)
        BY <3>4 DEF Size, Bytes
    <3>6. Quiet' /\ cl' = "read" /\ expects' = <<"err">> /\ answers' = <<>> /\ present'
        BY <2>2, <3>1, <3>2 DEF Quiet, clientVars
    <3>7. Sent'
        BY <2>2, <2>3, <3>4, <3>6 DEF Sent
    <3>8. Tells(Error("ok"), <<Size>> \o Bytes(<<>>))'
        BY <3>3, <3>5, <3>6 DEF Tells, Error, Field
    <3>9. AtRead'
        BY <2>2, <3>6, <3>7, <3>8 DEF AtRead
    <3> QED
        BY <3>9 DEF Phase
  <2> QED
      BY <1>1, <2>1, <2>4, SendsStep
<1> QED
    BY <1>4, <1>5

(* fileNRead: the name, the size and the contents, and the end.            *)
LEMMA NReadStep == ASSUME Inv, fileNRead, ~spoiled' PROVE Inv'
<1>1. at = "fileNRead" /\ reading = <<>> /\ at \in Functions /\ Place(at) = "next"
    BY DEF fileNRead, Handling, Functions, Place
<1>2. ASSUME ~closed
      PROVE  /\ cl = "next" /\ expects = <<"name_len">> /\ answers = <<>>
             /\ toServer = <<>> /\ sending = <<>> /\ toClient = <<>>
    BY <1>1, <1>2, FunctionEnd DEF Answer
<1> DEFINE all == <<More, Name>> \o contents \o End
<1>3. CASE present /\ pages_n > 0
  <2>1. Sends(all)
      BY <1>3 DEF fileNRead, fileNReadEnd, More, Name, End
  <2>2. UNCHANGED <<toServer, clientVars, layoutVars, present>> /\ Home' /\ Send(all)
      BY <2>1, DoneOK DEF Sends, Stored
  <2>3. Len(sent) = size
      BY <2>1 DEF Sends
  <2>4. ASSUME ~closed PROVE Phase'
    <3>1. toClient' = <<More>> \o (<<Name, Size>> \o Bytes(End))
        BY <1>2, <2>2, <2>4, ContentsAre, SendsAll
    <3>2. sent' = sent /\ size' = size
        BY <2>2, SameLayout
    <3>3. Size' = Size /\ Bytes(End)' = Bytes(End)
        BY <3>2 DEF Size, Bytes, End
    <3>4. Quiet' /\ cl' = "next" /\ expects' = <<"name_len">> /\ answers' = <<>> /\ present'
        BY <1>2, <1>3, <2>2, <2>4 DEF Quiet, clientVars
    <3>5. Sent'
        BY <2>2, <2>3, <3>2, <3>4 DEF Sent
    <3>6. Tells(Field("name_len", "more"), <<Name, Size>> \o Bytes(End))'
        BY <3>1, <3>3, <3>4 DEF Tells, Field, More, Name
    <3>7. AtNext'
        BY <2>2, <3>4, <3>5, <3>6 DEF AtNext
    <3> QED
        BY <3>7 DEF Phase
  <2> HIDE DEF all
  <2> QED
      BY <1>1, <2>1, <2>4, SendsStep
<1>4. CASE ~(present /\ pages_n > 0)
  <2>1. Send(fileNReadEnd(<<>>)) /\ Done /\ UNCHANGED <<layoutVars, present, opens>> /\ ServerOnly
        /\ UNCHANGED <<toServer, clientVars>>
      BY <1>4 DEF fileNRead, Stored, ServerOnly
  <2>2. HandlerOK' /\ Home'
      BY <2>1, DoneOK
  <2>3. fileNReadEnd(<<>>) = End /\ \E S : End \in Seq(S)
    <3>1. End \in Seq({Field("name_len", "end")})
        BY Alone DEF End
    <3> QED
        BY <3>1, ConcatEmptySeq DEF fileNReadEnd, End
  <2>4. ASSUME ~closed PROVE Phase'
    <3>1. toClient' = End
        BY <1>2, <2>1, <2>3, <2>4, SendsAll
    <3>2. End = <<Field("name_len", "end")>> \o <<>>
        BY Alone DEF End
    <3>3. Quiet' /\ cl' = "next" /\ expects' = <<"name_len">> /\ answers' = <<>>
        BY <1>2, <2>1, <2>4 DEF Quiet, clientVars
    <3>4. Tells(Field("name_len", "end"), <<>>)'
        BY <3>1, <3>2, <3>3 DEF Tells, Field
    <3>5. AtNext'
        BY <2>2, <3>3, <3>4 DEF AtNext
    <3> QED
        BY <3>5 DEF Phase
  <2> QED
      BY <1>1, <2>1, <2>2, <2>4, AnswerStep
<1> QED
    BY <1>3, <1>4

(* fileDelete: the answer, and then the file goes.                         *)
LEMMA DeleteStep == ASSUME Inv, fileDelete PROVE Inv'
<1>1. CASE at = "fileDelete"
  <2>1. reading = <<>> /\ at \in Functions /\ at # "fileNRead" /\ Place(at) = "remove"
      BY <1>1 DEF fileDelete, Handling, Functions, Place
  <2>2. PICK e \in openCheck : /\ Send(Err(e))
                               /\ IF e = "ok" THEN Hear(<<>>, "deleting") ELSE Done
      BY <1>1 DEF fileDelete, Handling
  <2>3. e \in Errors
      BY CheckIs
  <2>4. UNCHANGED <<layoutVars, present, opens>> /\ ServerOnly /\ UNCHANGED <<toServer, clientVars>>
      BY <1>1 DEF fileDelete, Handling, Stored, ServerOnly
  <2>5. HandlerOK' /\ (Home' \/ at' = "deleting")
      BY <2>2, DoneOK, HearNothingOK DEF Hear, HearAnd
  <2>6. ASSUME ~closed PROVE Phase'
    <3>1. Answered(e)' /\ Quiet' /\ cl' = "remove"
        BY <2>1, <2>2, <2>3, <2>4, <2>6, ErrAnswer
    <3>2. AtRemove'
        BY <2>3, <2>5, <3>1 DEF AtRemove
    <3> QED
        BY <3>2 DEF Phase
  <2> QED
      BY <2>1, <2>2, <2>4, <2>5, <2>6, AnswerStep
<1>2. CASE at # "fileDelete"
  <2>1. at = "deleting" /\ reading = <<>> /\ Done /\ present' = FALSE /\ opens' = 0 /\ freeBytes
        /\ toClient' = toClient /\ ServerOnly
      BY <1>2 DEF fileDelete, Handling
  <2>2. UNCHANGED <<toServer, toClient, clientVars, closed, reset, cut, spoiled, status>>
      BY <2>1 DEF ServerOnly, endVars
  <2>3. IF closed THEN Gone' ELSE Phase'
      BY <2>1, <2>2, HomeStep
  <2>4. HandlerOK' /\ LayoutOK'
      BY <2>1, DoneOK, FreeKeepsLayout
  <2>6. Acked'
    <3>1. ~present'
        BY <2>1
    <3> QED
        BY <3>1 DEF Acked
  <2>5. opens' \in Int /\ present' \in BOOLEAN /\ spoiled' \in BOOLEAN
    <3>1. opens' = 0 /\ present' = FALSE /\ spoiled' = spoiled /\ spoiled \in BOOLEAN
        BY <2>1, <2>2 DEF Inv, StreamsOK
    <3>2. present' \in BOOLEAN
        BY <3>1
    <3> QED
        BY <3>1, <3>2
  <2> QED
      BY <2>2, <2>3, <2>4, <2>5, <2>6, ServerStep
<1> QED
    BY <1>1, <1>2

(* A step that changes the status only.                                    *)
LEMMA SamePhase ==
    ASSUME UNCHANGED <<layoutVars, streams, clientVars, serverVars, endVars>>
    PROVE  (IF closed THEN Gone ELSE Phase) => (IF closed THEN Gone ELSE Phase)'
<1>1. /\ toServer' = toServer /\ toClient' = toClient
      /\ cl' = cl /\ arg' = arg /\ sending' = sending /\ expects' = expects /\ answers' = answers
      /\ at' = at /\ reading' = reading /\ got' = got /\ present' = present /\ closed' = closed
      /\ sent' = sent /\ size' = size
    BY SameLayout DEF streams, clientVars, serverVars, endVars
<1>2. \A w : Flow(w) => Brings(toServer' \o sending', w, closed')
    BY <1>1 DEF Flow
<1>3. Flow(<<>>) => Flow(<<>>)'
    BY <1>2 DEF Flow
<1>4. \A f \in Functions : /\ Behind(Request(f, arg)) => Behind(Request(f, arg))'
                           /\ Reads(f) => Reads(f)'
    BY <1>1 DEF Behind, Reads, Flow
<1>5. Behind(<<>>) => Behind(<<>>)'
    BY <1>1 DEF Behind, Flow
<1>6. \A x, t : Tells(x, t) => Tells(x, t)'
    BY <1>1 DEF Tells
<1>7. Quiet' = Quiet /\ Home' = Home /\ Sent' = Sent /\ Heard' = Heard
    BY <1>1 DEF Quiet, Home, Sent, Heard
<1>8. AtIdle => AtIdle'
    BY <1>1, <1>5 DEF AtIdle
<1>9. AtAsked => AtAsked'
  <2>1. \A f \in Functions : (at = f => Heard) => (at' = f => Heard')
      BY <1>1, <1>7
  <2> QED
      BY <1>1, <1>4, <2>1 DEF AtAsked
<1>10. /\ AtSearch => AtSearch'
       /\ AtInit => AtInit'
       /\ AtOpen => AtOpen'
       /\ AtRemove => AtRemove'
       /\ AtPut => AtPut'
  <2>1. \A e \in Errors : Answered(e) => Answered(e)'
      BY <1>1 DEF Answered, Tells
  <2>2. "ok" \in Errors
      BY DEF Errors
  <2>3. AtSearch => AtSearch'
      BY <1>1, <1>7, <2>1 DEF AtSearch
  <2>4. AtInit => AtInit'
      BY <1>1, <1>7, <2>1 DEF AtInit
  <2>5. AtOpen => AtOpen'
      BY <1>1, <1>7, <2>1 DEF AtOpen
  <2>6. AtRemove => AtRemove'
      BY <1>1, <1>7, <2>1 DEF AtRemove
  <2>7. AtPut => AtPut'
      BY <1>1, <1>7, <2>1, <2>2 DEF AtPut
  <2> QED
      BY <2>3, <2>4, <2>5, <2>6, <2>7
<1>11. AtStored => AtStored'
  <2>1. Flow(Fields(reading, arg)) => Flow(Fields(reading, arg))'
      BY <1>1 DEF Flow
  <2> QED
      BY <1>1, <1>7, <2>1 DEF AtStored
<1>12. /\ AtRead => AtRead'
       /\ AtReadSize => AtReadSize'
       /\ AtReadBytes => AtReadBytes'
       /\ AtNext => AtNext'
       /\ AtNextSize => AtNextSize'
       /\ AtNextBytes => AtNextBytes'
  <2>1. Size' = Size /\ Bytes(<<>>)' = Bytes(<<>>) /\ Bytes(End)' = Bytes(End)
      BY <1>1 DEF Size, Bytes, End
  <2>2. AtRead => AtRead'
      BY <1>1, <1>7, <2>1 DEF AtRead, Answered, Tells
  <2>3. AtReadSize => AtReadSize'
      BY <1>1, <1>7, <2>1 DEF AtReadSize, Tells
  <2>4. AtReadBytes => AtReadBytes'
      BY <1>1, <1>7, <2>1 DEF AtReadBytes, Took, Tells
  <2>5. AtNext => AtNext'
      BY <1>1, <1>7, <2>1 DEF AtNext, Tells
  <2>6. AtNextSize => AtNextSize'
      BY <1>1, <1>7, <2>1 DEF AtNextSize
  <2>7. AtNextBytes => AtNextBytes'
      BY <1>1, <1>7, <2>1 DEF AtNextBytes, Took, Tells, End
  <2> QED
      BY <2>2, <2>3, <2>4, <2>5, <2>6, <2>7
<1>13. Phase => Phase'
    BY <1>8, <1>9, <1>10, <1>11, <1>12 DEF Phase
<1>14. Gone => Gone'
  <2>1. Flow(Fields(reading, arg)) => Flow(Fields(reading, arg))'
      BY <1>1 DEF Flow
  <2> QED
      BY <1>1, <1>4, <2>1 DEF Gone
<1> QED
    BY <1>1, <1>13, <1>14

(* Nothing but the status changes.                                         *)
LEMMA StatusStep ==
    ASSUME Inv, UNCHANGED <<layoutVars, streams, clientVars, serverVars, endVars>>,
           EndsOK'
    PROVE  Inv'
<1>1. (IF closed THEN Gone ELSE Phase)'
    BY SamePhase DEF Inv
<1>2. StreamsOK' /\ HandlerOK'
    BY DEF Inv, StreamsOK, HandlerOK, streams, clientVars, serverVars, endVars
<1>3. LayoutOK' /\ size' = size
    BY SameLayout DEF Inv
<1>4. Acked'
    BY <1>3 DEF Inv, Acked, clientVars, serverVars
<1> QED
    BY <1>1, <1>2, <1>3, <1>4 DEF Inv

(* fileWrite and fileAppend up to the answer.                              *)
LEMMA PutStep ==
    ASSUME Inv, NEW l \in Puts, NEW next \in Storing, Stores(l, next)
    PROVE  Inv'
<1>1. at = l /\ reading = <<>> /\ at \in Functions /\ at # "fileNRead"
      /\ Place(at) \in {"write", "append"} /\ Wants(at) = <<"path", "pid", "size">>
  <2>1. at = l /\ reading = <<>>
      BY DEF Stores, Handling
  <2> QED
      BY <2>1, WantsIs, AskedIs DEF Functions, Puts, Place
<1>2. PICK e \in openCheck, n \in sizeRead :
          IF e = "ENOENT"
          THEN /\ status' = "nullDeref"
               /\ UNCHANGED <<layoutVars, streams, clientVars, serverVars, endVars>>
          ELSE /\ IF e = "EPERM" \/ refused(l, n) THEN Send(Err("refused")) /\ Done
                  ELSE Send(Err("ok")) /\ HearAnd(<<n>>, <<"contents">>, next)
               /\ UNCHANGED Stored
               /\ ServerOnly
    BY DEF Stores
<1>3. CASE e = "ENOENT"
  <2>1. EndsOK'
      BY <1>2, <1>3 DEF Inv, EndsOK, endVars
  <2> QED
      BY <1>2, <1>3, <2>1, StatusStep
<1>4. CASE e # "ENOENT"
  <2>1. UNCHANGED <<layoutVars, present, opens>> /\ ServerOnly /\ UNCHANGED <<toServer, clientVars>>
      BY <1>2, <1>4 DEF Stored, ServerOnly
  <2>2. CASE e = "EPERM" \/ refused(l, n)
    <3>1. Send(Err("refused")) /\ Done /\ "refused" \in Errors
        BY <1>2, <1>4, <2>2 DEF Errors
    <3>2. HandlerOK' /\ Home'
        BY <3>1, DoneOK
    <3>3. ASSUME ~closed PROVE Phase'
      <4>1. Answered("refused")' /\ Quiet' /\ cl' \in {"write", "append"}
          BY <1>1, <2>1, <3>1, <3>3, ErrAnswer
      <4>2. AtPut'
          BY <3>1, <3>2, <4>1 DEF AtPut
      <4> QED
          BY <4>2 DEF Phase
    <3> QED
        BY <1>1, <2>1, <3>1, <3>2, <3>3, AnswerStep
  <2>3. CASE ~(e = "EPERM" \/ refused(l, n))
    <3>1. Send(Err("ok")) /\ HearAnd(<<n>>, <<"contents">>, next) /\ "ok" \in Errors
        BY <1>2, <1>4, <2>3 DEF Errors
    <3>2. n \in Nat \ {0}
      <4>1. Len(got) = 3
          BY <1>1, FunctionEnd, WantsIs
      <4>2. got[3] = Unsent \/ got[3] \in Nat \ {0}
          BY <1>1, <4>1 DEF Inv, HandlerOK
      <4>3. memory_size + 1 \in Nat \ {0} /\ Sizes \subseteq Nat \ {0}
          BY PageLayoutAssumption, ProtocolAssumption
      <4> QED
          BY <4>2, <4>3 DEF sizeRead
    <3>3. HandlerOK' /\ Len(got') = 1 /\ got'[1] = n /\ at' = next
        BY <3>1, <3>2, HearContentsOK DEF HearAnd
    <3>4. ASSUME ~closed PROVE Phase'
      <4>1. Answered("ok")' /\ Quiet' /\ cl' \in {"write", "append"}
          BY <1>1, <2>1, <3>1, <3>4, ErrAnswer
      <4>2. n = arg /\ arg \in Sizes /\ arg' = arg
        <5>1. Heard /\ Len(got) = 3 /\ arg \in Sizes
            BY <1>1, <3>4, FunctionEnd, WantsIs
        <5>2. got[3] = Asking("size", arg).val
            BY <1>1, <5>1 DEF Heard
        <5>3. got[3] = arg
            BY <5>2 DEF Asking, Field
        <5> QED
            BY <2>1, <5>1, <5>3, ProtocolAssumption DEF sizeRead, clientVars
      <4>3. present
        <5>1. found = {present} /\ present \in BOOLEAN
            BY <1>1, <3>4, PathHeard DEF Inv, StreamsOK
        <5> QED
            BY <5>1, <1>4, CheckIs
      <4>4. AtPut'
        <5>1. present' = present
            BY <2>1
        <5> QED
            BY <3>3, <4>1, <4>2, <4>3, <5>1 DEF AtPut
      <4> QED
          BY <4>4 DEF Phase
    <3> QED
        BY <1>1, <2>1, <3>1, <3>3, <3>4, AnswerStep
  <2> QED
      BY <2>2, <2>3
<1> QED
    BY <1>3, <1>4

(* The contents are there: they are stored and the response goes out.      *)
LEMMA RespondStep ==
    ASSUME Inv, NEW l \in Storing, Respond(l), writeBytes(got[1]) \/ appendBytes(got[1])
    PROVE  Inv'
<1>1. at = l /\ reading = <<>> /\ Done /\ Send(<<Field("response", "ok")>>)
    BY DEF Respond, Handling
<1>2. UNCHANGED <<toServer, clientVars, closed, reset, cut, spoiled, status, present, opens>>
    BY DEF Respond, ServerOnly, endVars
<1>3. got[1] \in Nat \ {0} /\ Len(got) = 2
  <2>1. Len(reading) = 0 /\ Len(got) \in Nat /\ Len(got) + Len(reading) = Len(Wants(at))
      BY <1>1, EmptySeq, LenProperties DEF Inv, HandlerOK
  <2>2. Len(got) = 2
      BY <1>1, <2>1, WantsIs
  <2> QED
      BY <1>1, <2>2 DEF Inv, HandlerOK
<1>4. LayoutOK' /\ size' = size + got[1]
  <2>1. LayoutOK'
      BY <1>3, WriteKeepsLayout, AppendKeepsLayout DEF Inv
  <2>2. size' = size + got[1]
    <3>1. CASE writeBytes(got[1])
        BY <1>3, <3>1 DEF writeBytes, Inv, LayoutOK
    <3>2. CASE appendBytes(got[1])
        BY <3>2 DEF appendBytes
    <3> QED
        BY <3>1, <3>2
  <2> QED
      BY <2>1, <2>2
<1>5. HandlerOK' /\ Home'
    BY <1>1, DoneOK
<1>6. spoiled' \in BOOLEAN /\ opens' \in Int /\ present' \in BOOLEAN
    BY <1>2 DEF Inv, StreamsOK
<1>7. /\ at \notin Opening \cup Functions \cup {"func", "deleting"} /\ ~Home
      /\ \A w : ~Behind(w)
      /\ \A f \in Functions : ~Reads(f)
  <2>1. at \notin Opening \cup Functions \cup {"func", "deleting"}
      BY <1>1 DEF Storing, Opening, Functions, Puts
  <2> QED
      BY <2>1 DEF Behind, Reads, Home
<1>8. Flow(Fields(reading, arg)) => Quiet
    BY <1>1, ReadingType, FlowNone DEF Inv, StreamsOK, Quiet
<1>9. closed => Gone'
  <2> SUFFICES ASSUME closed PROVE Gone'
      OBVIOUS
  <2>1. toServer = <<>>
      BY <1>7, <1>8 DEF Inv, Gone, Quiet
  <2>2. toClient' = toClient
      BY <1>1, SendsNothing
  <2> QED
      BY <1>2, <2>1, <2>2, GoneStep
<1>10. ASSUME ~closed PROVE Phase' /\ Acked'
  <2>1. AtStored
    <3>1. ~AtIdle /\ ~AtAsked
        BY <1>7 DEF AtIdle, AtAsked
    <3>2. ~AtPut
        BY <1>3, <1>7 DEF AtPut
    <3>3. at # "deleting"
        BY <1>7
    <3> QED
        BY <3>1, <3>2, <3>3, <1>7, <1>10, PhasePlaces DEF Inv, Phase
  <2>2. cl = "stored" /\ arg \in Sizes /\ present /\ got[1] = arg
        /\ expects = <<"response">> /\ toClient = <<>> /\ Quiet
      BY <1>7, <1>8, <2>1 DEF AtStored
  <2>3. toClient' = <<Field("response", "ok")>>
      BY <1>1, <1>10, <2>2, Alone, SendsAll
  <2>4. Quiet' /\ expects' = <<"response">> /\ cl' = "stored" /\ arg' = arg /\ acked' = acked /\ present'
      BY <1>2, <2>2 DEF Quiet, clientVars
  <2>5. AtStored'
      BY <1>5, <2>2, <2>3, <2>4 DEF AtStored
  <2>6. size' = acked' + arg'
    <3>1. size = acked + 0 /\ acked \in Nat
        BY <1>7, <2>2 DEF Inv, Acked, StreamsOK
    <3> QED
        BY <1>4, <2>2, <2>4, <3>1
  <2>7. Acked'
      BY <1>5, <2>4, <2>6 DEF Acked, Home
  <2> QED
      BY <2>5, <2>7 DEF Phase
<1> QED
    BY <1>2, <1>4, <1>5, <1>6, <1>9, <1>10, ServerStep

(* fileWrite, its answer and its response.                                 *)
LEMMA WriteStep == ASSUME Inv, fileWrite PROVE Inv'
<1>1. "fileWrite" \in Puts /\ "writing" \in Storing
    BY DEF Puts, Storing
<1> QED
    BY <1>1, PutStep, RespondStep DEF fileWrite

(* fileAppend, its answer and its response.                                *)
LEMMA AppendStep == ASSUME Inv, fileAppend PROVE Inv'
<1>1. "fileAppend" \in Puts /\ "appending" \in Storing
    BY DEF Puts, Storing
<1>2. CASE status' = "badIndex" /\ UNCHANGED <<layoutVars, streams, clientVars, serverVars, endVars>>
  <2>1. EndsOK'
      BY <1>2 DEF Inv, EndsOK, endVars
  <2> QED
      BY <1>2, <2>1, StatusStep
<1> QED
    BY <1>1, <1>2, PutStep, RespondStep DEF fileAppend

-----------------------------------------------------------------------------
(* Reading the request.                                                    *)

(* The first of two sequences, one after the other, is read first.         *)
LEMMA ConcatHead ==
    ASSUME NEW S, NEW s \in Seq(S), NEW t \in Seq(S), s # <<>>
    PROVE  s \o t # <<>> /\ Head(s \o t) = Head(s) /\ Tail(s \o t) = Tail(s) \o t
<1>1. Head(s) \in S /\ Tail(s) \in Seq(S) /\ s = <<Head(s)>> \o Tail(s)
    BY ConsOf
<1> DEFINE h == Head(s)   u == Tail(s)
<1>2. <<h>> \in Seq(S) /\ u \o t \in Seq(S)
    BY <1>1, Tuples, ConcatProperties
<1>3. s \o t = <<h>> \o (u \o t)
  <2>1. (<<h>> \o u) \o t = <<h>> \o (u \o t)
      BY <1>1, <1>2, ConcatAssociative
  <2> QED
      BY <1>1, <2>1
<1>4. /\ <<h>> \o (u \o t) # <<>>
      /\ Head(<<h>> \o (u \o t)) = h
      /\ Tail(<<h>> \o (u \o t)) = u \o t
    BY <1>1, <1>2, ConsFacts
<1> QED
    BY <1>3, <1>4

(* One field off the stream is one field off what is on its way.           *)
LEMMA FlowTail ==
    ASSUME StreamsOK, toServer # <<>>, toServer' = Tail(toServer), sending' = sending,
           closed' = closed, NEW w \in Seq(Msgs), Flow(w)
    PROVE  /\ w # <<>> /\ Head(toServer) = Head(w)
           /\ Brings(toServer' \o sending', Tail(w), closed')
<1>1. /\ toServer \in Seq(Msgs) /\ sending \in Seq(Msgs) /\ closed \in BOOLEAN
      /\ toServer \o sending \in Seq(Msgs)
    BY FlowType DEF StreamsOK
<1>2. /\ toServer \o sending # <<>> /\ Head(toServer \o sending) = Head(toServer)
      /\ Tail(toServer \o sending) = Tail(toServer) \o sending
    BY <1>1, ConcatHead
<1>3. /\ w # <<>> /\ Head(toServer \o sending) = Head(w)
      /\ Brings(Tail(toServer \o sending), Tail(w), closed)
    BY <1>1, <1>2, BringsTail DEF Flow
<1> QED
    BY <1>2, <1>3

(* A field that the handler reads is the one the client has sent for it.   *)
LEMMA FieldRead ==
    ASSUME Inv, toServer # <<>>, reading # <<>>, toServer' = Tail(toServer),
           reading' = Tail(reading), UNCHANGED <<sending, arg, closed>>
    PROVE  /\ \A w \in Seq(Msgs) : Flow(Fields(reading, arg) \o w) =>
                  /\ Head(toServer) = Asking(Head(reading), arg)
                  /\ Brings(toServer' \o sending', Fields(reading', arg') \o w, closed')
           /\ Flow(Fields(reading, arg)) =>
                  /\ Head(toServer) = Asking(Head(reading), arg)
                  /\ Brings(toServer' \o sending', Fields(reading', arg'), closed')
           /\ \A f \in Functions : Flow(Request(f, arg)) =>
                  /\ Head(toServer) = Func(f)
                  /\ Brings(toServer' \o sending', Fields(Asked(f), arg'), closed')
           /\ ~Flow(<<>>)
<1>0. StreamsOK /\ arg \in Nat /\ reading \in Seq(Kinds)
    BY DEF Inv, StreamsOK, HandlerOK
<1>1. /\ Fields(reading, arg) = <<Asking(Head(reading), arg)>> \o Fields(Tail(reading), arg)
      /\ Fields(Tail(reading), arg) \in Seq(Msgs) /\ Asking(Head(reading), arg) \in Msgs
      /\ Fields(reading, arg) \in Seq(Msgs)
    BY <1>0, FieldsCons, FieldsType, AskingType, ConsOf
<1>2. /\ Fields(reading, arg) # <<>>
      /\ Head(Fields(reading, arg)) = Asking(Head(reading), arg)
      /\ Tail(Fields(reading, arg)) = Fields(reading', arg')
    BY <1>1, ConsFacts
<1>3. ASSUME NEW w \in Seq(Msgs), Flow(Fields(reading, arg) \o w)
      PROVE  /\ Head(toServer) = Asking(Head(reading), arg)
             /\ Brings(toServer' \o sending', Fields(reading', arg') \o w, closed')
  <2> DEFINE v == Fields(reading, arg) \o w
  <2>1. v \in Seq(Msgs) /\ Head(v) = Head(Fields(reading, arg))
        /\ Tail(v) = Tail(Fields(reading, arg)) \o w
      BY <1>1, <1>2, ConcatHead, ConcatProperties
  <2>2. Head(toServer) = Head(v) /\ Brings(toServer' \o sending', Tail(v), closed')
    <3> HIDE DEF v
    <3>1. Flow(v)
        BY <1>3 DEF v
    <3> QED
        BY <1>0, <2>1, <3>1, FlowTail
  <2> QED
      BY <1>2, <2>1, <2>2
<1>4. ASSUME Flow(Fields(reading, arg))
      PROVE  /\ Head(toServer) = Asking(Head(reading), arg)
             /\ Brings(toServer' \o sending', Fields(reading', arg'), closed')
    BY <1>0, <1>1, <1>2, <1>4, FlowTail
<1>5. ASSUME NEW f \in Functions, Flow(Request(f, arg))
      PROVE  /\ Head(toServer) = Func(f)
             /\ Brings(toServer' \o sending', Fields(Asked(f), arg'), closed')
  <2>1. Request(f, arg) \in Seq(Msgs) /\ Head(Request(f, arg)) = Func(f)
        /\ Tail(Request(f, arg)) = Fields(Asked(f), arg')
      BY <1>0, RequestType
  <2> QED
      BY <1>0, <1>5, <2>1, FlowTail
<1>6. ~Flow(<<>>)
    BY <1>0, FlowNone
<1> QED
    BY <1>3, <1>4, <1>5, <1>6

(* Where a handler can stand with something to read and something come.    *)
LEMMA ReadsWhat ==
    ASSUME Inv, toServer # <<>>, reading # <<>>
    PROVE  \/ /\ at = "func" /\ got = <<>>
              /\ \E f \in Functions : (f \in Puts => arg \in Sizes) /\ Flow(Request(f, arg))
           \/ /\ at # "func" /\ (at \in Puts => arg \in Sizes)
              /\ \E w \in Seq(Msgs) : Flow(Fields(reading, arg) \o w)
           \/ /\ at # "func" /\ (at \in Puts => arg \in Sizes)
              /\ Flow(Fields(reading, arg))
<1>0. ~Flow(<<>>) /\ arg \in Nat /\ <<>> \in Seq(Msgs)
    BY FlowNone, EmptySeq DEF Inv, StreamsOK
<1>1. ~(at = "func" /\ got # <<>>)
  <2>1. Len(got) \in Nat /\ Len(reading) \in Nat /\ Len(reading) # 0
        /\ Len(got) + Len(reading) = Len(Wants(at))
      BY EmptySeq, LenProperties DEF Inv, HandlerOK
  <2>2. got # <<>> => Len(got) # 0
      BY EmptySeq DEF Inv, HandlerOK
  <2>3. at = "func" => Len(Wants(at)) = 1
      BY WantsIs
  <2> QED
      BY <2>1, <2>2, <2>3
<1>2. at \in Opening \cup {"deleting"} \cup Storing => at # "func" /\ at \notin Puts
    BY DEF Opening, Storing, Puts
<1>3. \A f \in Functions : f # "func"
    BY DEF Functions, Puts
<1>4. \A f \in Functions : Request(f, arg) \in Seq(Msgs)
    BY <1>0, RequestType
<1> DEFINE Claim ==
           \/ /\ at = "func" /\ got = <<>>
              /\ \E f \in Functions : (f \in Puts => arg \in Sizes) /\ Flow(Request(f, arg))
           \/ /\ at # "func" /\ (at \in Puts => arg \in Sizes)
              /\ \E w \in Seq(Msgs) : Flow(Fields(reading, arg) \o w)
           \/ /\ at # "func" /\ (at \in Puts => arg \in Sizes)
              /\ Flow(Fields(reading, arg))
<1>5. ASSUME NEW f \in Functions, f \in Puts => arg \in Sizes, Behind(Request(f, arg)) \/ Reads(f)
      PROVE  Claim
    BY <1>1, <1>2, <1>3, <1>4, <1>5 DEF Behind, Reads
<1>6. ASSUME Behind(<<>>) PROVE Claim
    BY <1>0, <1>2, <1>6 DEF Behind
<1>7. ASSUME at \in Storing, Flow(Fields(reading, arg)) PROVE Claim
    BY <1>2, <1>7
<1> SUFFICES Claim
    OBVIOUS
<1> HIDE DEF Claim
<1>8. CASE closed
  <2>1. CASE \E f \in Functions : /\ f \in Puts => arg \in Sizes
                                  /\ Behind(Request(f, arg)) \/ Reads(f)
      BY <1>5, <2>1
  <2>2. CASE at \in Storing /\ Flow(Fields(reading, arg))
      BY <1>7, <2>2
  <2> QED
      BY <1>8, <2>1, <2>2 DEF Inv, Gone
<1>9. CASE ~closed
  <2>1. ~Quiet
      BY DEF Quiet
  <2>2. AtIdle \/ AtAsked \/ AtStored
      BY <1>9, <2>1, PhasePlaces DEF Inv, Phase
  <2>3. CASE AtIdle
      BY <1>6, <2>3 DEF AtIdle
  <2>4. CASE AtAsked
    <3>1. PICK f \in Functions : /\ f \in Puts => arg \in Sizes
                                 /\ Behind(Request(f, arg)) \/ Reads(f)
        BY <2>4 DEF AtAsked
    <3> QED
        BY <1>5, <3>1
  <2>5. CASE AtStored
      BY <1>7, <2>1, <2>5 DEF AtStored
  <2> QED
      BY <2>2, <2>3, <2>4, <2>5
<1> QED
    BY <1>8, <1>9

(* So neither side ever reads another field than the next one.             *)
LEMMA ServerInStep == ASSUME Inv PROVE ~serverMisreads
<1> SUFFICES ASSUME toServer # <<>>, reading # <<>> PROVE Head(toServer).kind = Head(reading)
    BY DEF serverMisreads
<1>0. StreamsOK /\ arg \in Nat /\ reading \in Seq(Kinds)
    BY DEF Inv, StreamsOK, HandlerOK
<1>1. Asking(Head(reading), arg).kind = Head(reading) /\ Asking(Head(reading), arg) \in Msgs
      /\ Fields(reading, arg) \in Seq(Msgs) /\ Fields(reading, arg) # <<>>
      /\ Head(Fields(reading, arg)) = Asking(Head(reading), arg)
  <2>1. Head(reading) \in Kinds /\ Tail(reading) \in Seq(Kinds)
      BY <1>0, ConsOf
  <2>2. Fields(reading, arg) = <<Asking(Head(reading), arg)>> \o Fields(Tail(reading), arg)
        /\ Fields(Tail(reading), arg) \in Seq(Msgs)
        /\ Asking(Head(reading), arg) \in Msgs /\ Asking(Head(reading), arg).kind = Head(reading)
        /\ Fields(reading, arg) \in Seq(Msgs)
      BY <1>0, <2>1, FieldsCons, FieldsType, AskingType
  <2> QED
      BY <2>2, ConsFacts
<1>2. ASSUME NEW w \in Seq(Msgs), Flow(w)
      PROVE  Head(toServer) = Head(w)
  <2>1. /\ toServer \in Seq(Msgs) /\ sending \in Seq(Msgs) /\ closed \in BOOLEAN
        /\ toServer \o sending \in Seq(Msgs)
      BY <1>0, FlowType DEF StreamsOK
  <2>2. toServer \o sending # <<>> /\ Head(toServer \o sending) = Head(toServer)
      BY <2>1, ConcatHead
  <2>3. Brings(toServer \o sending, w, closed)
      BY <1>2 DEF Flow
  <2>4. /\ w # <<>> /\ Head(toServer \o sending) = Head(w)
        /\ Brings(Tail(toServer \o sending), Tail(w), closed)
      BY <1>2, <2>1, <2>2, <2>3, BringsTail
  <2> QED
      BY <2>2, <2>4
<1>3. CASE at = "func" /\ got = <<>>
  <2>1. PICK f \in Functions : Flow(Request(f, arg))
      BY <1>3, ReadsWhat
  <2>2. Head(toServer) = Func(f)
      BY <1>0, <1>2, <2>1, RequestType
  <2>3. Head(reading) = "func"
    <3>1. Len(reading) = 1 /\ reading[1] = "func"
      <4>1. Len(got) = 0 /\ Len(Wants(at)) = 1 /\ Wants(at)[1] = "func" /\ Len(reading) \in Nat
          BY <1>3, WantsIs, LenProperties DEF Inv, HandlerOK
      <4> QED
          BY <4>1 DEF Inv, HandlerOK
    <3> QED
        BY <1>0, <3>1, ConsOf
  <2> QED
      BY <2>2, <2>3, FuncType
<1>4. CASE \E w \in Seq(Msgs) : Flow(Fields(reading, arg) \o w)
  <2>1. PICK w \in Seq(Msgs) : Flow(Fields(reading, arg) \o w)
      BY <1>4
  <2> DEFINE v == Fields(reading, arg) \o w
  <2>2. v \in Seq(Msgs) /\ Head(v) = Asking(Head(reading), arg)
      BY <1>1, ConcatHead, ConcatProperties
  <2> HIDE DEF v
  <2> QED
      BY <1>1, <1>2, <2>1, <2>2 DEF v
<1>5. CASE Flow(Fields(reading, arg))
    BY <1>1, <1>2, <1>5
<1> QED
    BY <1>3, <1>4, <1>5, ReadsWhat

(* One more field is read: the one that was wanted next.                   *)
LEMMA HeardOK ==
    ASSUME HandlerOK, reading # <<>>, reading' = Tail(reading), at' = at,
           NEW v \in Values, got' = Append(got, v),
           at = "func" => v \in Functions,
           at \in Puts /\ Head(reading) = "size" => v = Unsent \/ v \in Nat \ {0}
    PROVE  /\ HandlerOK' /\ Len(got') = Len(got) + 1 /\ got' # <<>>
           /\ got'[Len(got) + 1] = v /\ \A k \in 1 .. Len(got) : got'[k] = got[k]
           /\ Head(reading) = Wants(at)[Len(got) + 1]
           /\ at = "func" => got' = <<v>>
<1>1. /\ got \in Seq(Values) /\ reading \in Seq(Kinds)
      /\ Len(got) \in Nat /\ Len(reading) \in Nat \ {0}
    BY EmptySeq, LenProperties DEF HandlerOK
<1>2. /\ got' \in Seq(Values) /\ Len(got') = Len(got) + 1 /\ got' # <<>>
      /\ got'[Len(got) + 1] = v /\ \A k \in 1 .. Len(got) : got'[k] = got[k]
    BY <1>1, AppendProperties
<1>3. /\ reading' \in Seq(Kinds) /\ Len(reading') = Len(reading) - 1
      /\ \A k \in 1 .. Len(reading') : reading'[k] = reading[k + 1]
      /\ reading[1] = Head(reading)
    BY <1>1, HeadTailProperties, ConsOf
<1>4. ASSUME NEW k \in 1 .. Len(reading')
      PROVE  reading'[k] = Wants(at')[Len(got') + k]
  <2>1. k + 1 \in 1 .. Len(reading) /\ Len(got) + (k + 1) = Len(got') + k
      BY <1>1, <1>2, <1>3
  <2>2. reading[k + 1] = Wants(at)[Len(got) + (k + 1)]
      BY <2>1 DEF HandlerOK
  <2> QED
      BY <1>3, <2>1, <2>2
<1>5. Len(got') + Len(reading') = Len(Wants(at'))
    BY <1>1, <1>2, <1>3 DEF HandlerOK
<1>6. Head(reading) = Wants(at)[Len(got) + 1]
    BY <1>1, <1>3 DEF HandlerOK
<1>7. at = "func" => got' = <<v>>
  <2> SUFFICES ASSUME at = "func" PROVE got' = <<v>>
      OBVIOUS
  <2>1. Len(Wants(at)) = 1
      BY WantsIs
  <2>2. Len(got) = 0
      BY <1>1, <2>1 DEF HandlerOK
  <2>3. Len(got') = 1 /\ got'[1] = v
      BY <1>2, <2>2
  <2>4. <<v>> \in Seq(Values) /\ Len(<<v>>) = 1 /\ <<v>>[1] = v
      BY Tuples
  <2>5. \A k \in 1 .. Len(got') : got'[k] = <<v>>[k]
    <3>1. \A k \in 1 .. 1 : k = 1
        OBVIOUS
    <3> QED
        BY <2>3, <2>4, <3>1
  <2>6. got' \in Seq(Values) /\ Len(got') = Len(<<v>>)
      BY <1>2, <2>3, <2>4
  <2> QED
      BY <2>4, <2>5, <2>6, SeqEqual
<1>8. at' = "func" /\ got' # <<>> => got'[1] \in Functions
    BY <1>7
<1>9. at' \in Opening \cup Storing => Len(got') >= 1 /\ got'[1] = got[1]
  <2> SUFFICES ASSUME at \in Opening \cup Storing
               PROVE  Len(got') >= 1 /\ got'[1] = got[1]
      OBVIOUS
  <2>1. Len(got) >= 1
      BY DEF HandlerOK
  <2> QED
      BY <1>1, <1>2, <2>1
<1>10. at' \in Opening => Len(got') >= 1 /\ got'[1] \in BOOLEAN
    BY <1>9 DEF HandlerOK
<1>11. at' \in Storing => Len(got') >= 1 /\ got'[1] \in Nat \ {0}
    BY <1>9 DEF HandlerOK
<1>12. at' \in Puts /\ Len(got') = 3 => got'[3] = Unsent \/ got'[3] \in Nat \ {0}
  <2> SUFFICES ASSUME at \in Puts, Len(got') = 3
               PROVE  got'[3] = Unsent \/ got'[3] \in Nat \ {0}
      OBVIOUS
  <2>0. Len(got) + 1 = 3 /\ Len(got) \in Nat
      BY <1>1, <1>2
  <2>1. Len(got) = 2
    <3>1. \A m \in Nat : m + 1 = 3 => m = 2
        OBVIOUS
    <3> QED
        BY <2>0, <3>1, Zenon
  <2>2. Wants(at)[3] = "size"
    <3>1. Wants(at) = <<"path", "pid", "size">>
        BY WantsIs, AskedIs DEF Functions
    <3> QED
        BY <3>1
  <2> QED
      BY <1>2, <1>6, <2>0, <2>1, <2>2
<1>13. at' \in Places
    BY DEF HandlerOK
<1>14. HandlerOK'
    BY <1>2, <1>3, <1>4, <1>5, <1>8, <1>10, <1>11, <1>12, <1>13 DEF HandlerOK
<1> QED
    BY <1>2, <1>6, <1>7, <1>14

(* readNB of a field that is there: it is the one that is expected.        *)
LEMMA FieldReadStep ==
    ASSUME Inv, readRequest, toServer # <<>>
    PROVE  Inv'
<1> DEFINE v == Head(toServer).val
<1>0. /\ reading # <<>> /\ reading' = Tail(reading) /\ got' = Append(got, v)
      /\ toServer' = Tail(toServer) /\ at' = at /\ present' = present /\ opens' = opens
      /\ toClient' = toClient /\ cl' = cl /\ arg' = arg /\ sending' = sending
      /\ expects' = expects /\ answers' = answers /\ acked' = acked
      /\ closed' = closed /\ reset' = reset /\ cut' = cut /\ spoiled' = spoiled
      /\ status' = status /\ UNCHANGED layoutVars
    BY DEF readRequest, endOfStream, clientVars
<1>1. StreamsOK /\ HandlerOK /\ arg \in Nat /\ reading \in Seq(Kinds) /\ Head(reading) \in Kinds
    BY <1>0, ConsOf DEF Inv, StreamsOK, HandlerOK
<1>2. /\ \A w \in Seq(Msgs) : Flow(Fields(reading, arg) \o w) =>
             /\ Head(toServer) = Asking(Head(reading), arg)
             /\ Brings(toServer' \o sending', Fields(reading', arg') \o w, closed')
      /\ Flow(Fields(reading, arg)) =>
             /\ Head(toServer) = Asking(Head(reading), arg)
             /\ Brings(toServer' \o sending', Fields(reading', arg'), closed')
      /\ \A f \in Functions : Flow(Request(f, arg)) =>
             /\ Head(toServer) = Func(f)
             /\ Brings(toServer' \o sending', Fields(Asked(f), arg'), closed')
      /\ ~Flow(<<>>)
    BY <1>0, FieldRead
<1>3. /\ at = "func" => v \in Functions
      /\ at # "func" => v = Asking(Head(reading), arg).val
      /\ at \in Puts => arg \in Nat \ {0}
  <2>1. \A f \in Functions : Func(f).val = f
      BY FuncType
  <2>2. at \in Puts => at # "func"
      BY DEF Puts
  <2>3. \/ /\ at = "func" /\ got = <<>>
            /\ \E f \in Functions : (f \in Puts => arg \in Sizes) /\ Flow(Request(f, arg))
         \/ /\ at # "func" /\ (at \in Puts => arg \in Sizes)
            /\ \E w \in Seq(Msgs) : Flow(Fields(reading, arg) \o w)
         \/ /\ at # "func" /\ (at \in Puts => arg \in Sizes)
            /\ Flow(Fields(reading, arg))
      BY <1>0, ReadsWhat
  <2>4. at = "func" => v \in Functions
      BY <1>2, <2>1, <2>3
  <2>5. at # "func" => v = Asking(Head(reading), arg).val
      BY <1>2, <2>3
  <2>6. at \in Puts => arg \in Nat \ {0}
      BY <2>2, <2>3, ProtocolAssumption
  <2> QED
      BY <2>4, <2>5, <2>6
<1>4. v \in Values
  <2>1. Head(toServer) \in Msgs
      BY <1>1, ConsOf DEF StreamsOK
  <2> QED
      BY <2>1 DEF Msgs
<1>5. at \in Puts /\ Head(reading) = "size" => v = Unsent \/ v \in Nat \ {0}
  <2>1. Asking("size", arg).val = arg
      BY DEF Asking, Field
  <2>2. at \in Puts => at # "func"
      BY DEF Puts
  <2> QED
      BY <1>3, <2>1, <2>2
<1> HIDE DEF v
<1>6. /\ HandlerOK' /\ Len(got') = Len(got) + 1 /\ got' # <<>>
      /\ got'[Len(got) + 1] = v /\ \A k \in 1 .. Len(got) : got'[k] = got[k]
      /\ Head(reading) = Wants(at)[Len(got) + 1]
      /\ at = "func" => got' = <<v>>
    BY <1>0, <1>1, <1>3, <1>4, <1>5, HeardOK
<1>7. \A f \in Functions : Flow(Request(f, arg)) /\ at = "func" => Reads(f)'
  <2> SUFFICES ASSUME NEW f \in Functions, Flow(Request(f, arg)), at = "func"
               PROVE  Reads(f)'
      OBVIOUS
  <2>1. v = f
      BY <1>2, FuncType DEF v
  <2>2. at' = "func" /\ got' = <<f>> /\ Brings(toServer' \o sending', Fields(Asked(f), arg'), closed')
      BY <1>0, <1>2, <1>6, <2>1
  <2> QED
      BY <2>2 DEF Reads, Flow
<1>8. at # "func" => v = Asking(Wants(at)[Len(got) + 1], arg).val
    BY <1>3, <1>6
<1>9. \A f \in Functions : Behind(Request(f, arg)) => Behind(Request(f, arg))' \/ Reads(f)'
  <2> TAKE f \in Functions
  <2>1. Request(f, arg) \in Seq(Msgs)
      BY <1>1, RequestType
  <2>2. at \in Opening \cup {"deleting"} /\ Flow(Fields(reading, arg) \o Request(f, arg))
        => Behind(Request(f, arg))'
    <3>1. Flow(Fields(reading, arg) \o Request(f, arg)) =>
              Brings(toServer' \o sending', Fields(reading', arg') \o Request(f, arg'), closed')
        BY <1>0, <1>2, <2>1
    <3> QED
        BY <1>0, <3>1 DEF Behind, Flow
  <2> QED
      BY <1>7, <2>2 DEF Behind
<1>10. Behind(<<>>) => Behind(<<>>)'
  <2>1. <<>> \in Seq(Msgs)
      BY EmptySeq
  <2>2. Flow(Fields(reading, arg) \o <<>>) =>
            Brings(toServer' \o sending', Fields(reading', arg') \o <<>>, closed')
      BY <1>2, <2>1
  <2> QED
      BY <1>0, <1>2, <2>2 DEF Behind, Flow
<1>11. \A f \in Functions : Reads(f) => Reads(f)' /\ at = f /\ at' = f
  <2> TAKE f \in Functions
  <2>1. ~(at = "func" /\ got # <<>>)
    <3>1. (at = "func" => Len(Wants(at)) = 1) /\ Len(got) \in Nat /\ Len(reading) \in Nat
        BY WantsIs, LenProperties DEF Inv, HandlerOK
    <3>2. Len(reading) # 0 /\ (got # <<>> => Len(got) # 0)
        BY <1>0, EmptySeq DEF Inv, HandlerOK
    <3> QED
        BY <3>1, <3>2 DEF Inv, HandlerOK
  <2>2. at = f /\ Flow(Fields(reading, arg)) => Reads(f)'
      BY <1>0, <1>2 DEF Reads, Flow
  <2> QED
      BY <1>0, <2>1, <2>2 DEF Reads
<1>12. at \in Functions /\ Heard => Heard'
  <2> SUFFICES ASSUME at \in Functions, Heard, NEW k \in 1 .. Len(got')
               PROVE  got'[k] = Asking(Wants(at')[k], arg').val
      BY DEF Heard
  <2>1. Len(got) \in Nat /\ at # "func"
      BY <1>1, LenProperties DEF HandlerOK, Functions, Puts
  <2>2. CASE k = Len(got) + 1
      BY <1>0, <1>6, <1>8, <2>1, <2>2
  <2>3. CASE k # Len(got) + 1
    <3>1. k \in 1 .. Len(got)
        BY <1>6, <2>1, <2>3
    <3> QED
        BY <1>0, <1>6, <3>1 DEF Heard
  <2> QED
      BY <2>2, <2>3
<1>13. Flow(Fields(reading, arg)) => Flow(Fields(reading, arg))'
    BY <1>2 DEF Flow
<1>14. ASSUME closed PROVE Gone'
  <2>1. CASE at \in Storing /\ Flow(Fields(reading, arg))
      BY <1>0, <1>13, <1>14, <2>1 DEF Inv, Gone
  <2>2. CASE \E f \in Functions : /\ f \in Puts => arg \in Sizes
                                  /\ Behind(Request(f, arg)) \/ Reads(f)
    <3>1. PICK f \in Functions : /\ f \in Puts => arg \in Sizes
                                 /\ Behind(Request(f, arg)) \/ Reads(f)
        BY <2>2
    <3>2. Behind(Request(f, arg))' \/ Reads(f)'
        BY <1>9, <1>11, <3>1
    <3> QED
        BY <1>0, <1>14, <3>1, <3>2 DEF Inv, Gone
  <2> QED
      BY <1>14, <2>1, <2>2 DEF Inv, Gone
<1>15. ASSUME ~closed PROVE Phase'
  <2>1. ~Quiet
      BY DEF Quiet
  <2>2. AtIdle \/ AtAsked \/ AtStored
      BY <1>15, <2>1, PhasePlaces DEF Inv, Phase
  <2>3. CASE AtIdle
      BY <1>0, <1>10, <2>3 DEF AtIdle, Phase
  <2>4. CASE AtAsked
    <3>1. PICK f \in Functions :
              /\ cl = Place(f) /\ expects = <<Answer(f)>> /\ answers = <<>> /\ toClient = <<>>
              /\ f \in Puts => arg \in Sizes
              /\ Behind(Request(f, arg)) \/ (Reads(f) /\ (at = f => Heard))
        BY <2>4 DEF AtAsked
    <3>2. CASE Behind(Request(f, arg))
      <4>1. at # f
          BY <3>2 DEF Behind, Functions, Puts, Opening
      <4>2. Behind(Request(f, arg))' \/ (Reads(f)' /\ (at' = f => Heard'))
          BY <1>0, <1>9, <3>2, <4>1
      <4> QED
          BY <1>0, <3>1, <4>2 DEF AtAsked, Phase
    <3>3. CASE Reads(f) /\ (at = f => Heard)
      <4>1. Reads(f)' /\ Heard'
          BY <1>11, <1>12, <3>3
      <4> QED
          BY <1>0, <3>1, <4>1 DEF AtAsked, Phase
    <3> QED
        BY <3>1, <3>2, <3>3
  <2>5. CASE AtStored
    <3>1. at \in Storing /\ got[1] = arg /\ Flow(Fields(reading, arg))
        BY <2>1, <2>5 DEF AtStored
    <3>2. got'[1] = got[1]
      <4>1. Len(got) >= 1 /\ Len(got) \in Nat
          BY <1>1, <3>1, LenProperties DEF HandlerOK
      <4> QED
          BY <1>6, <4>1
    <3> QED
        BY <1>0, <1>13, <2>1, <2>5, <3>1, <3>2 DEF AtStored, Phase
  <2> QED
      BY <2>2, <2>3, <2>4, <2>5
<1>16. StreamsOK'
  <2>1. toServer' \in Seq(Msgs)
      BY <1>0, <1>1, ConsOf DEF readRequest, StreamsOK
  <2> QED
      BY <1>0, <2>1 DEF Inv, StreamsOK
<1>17. LayoutOK' /\ size' = size
    BY <1>0, SameLayout DEF Inv
<1>18. Acked' /\ EndsOK'
    BY <1>0, <1>17 DEF Inv, Acked, EndsOK
<1> QED
    BY <1>0, <1>6, <1>14, <1>15, <1>16, <1>17, <1>18 DEF Inv

(* Nothing more comes: the variable keeps what it had.                     *)
LEMMA EndReadStep ==
    ASSUME Inv, readRequest, toServer = <<>>
    PROVE  Inv'
<1>0. /\ reading # <<>> /\ reading' = Tail(reading) /\ got' = Append(got, Unsent)
      /\ closed /\ at # "func" /\ reset' = FALSE
      /\ UNCHANGED <<layoutVars, toServer, toClient, clientVars, at, present, opens, closed, cut,
                     spoiled, status>>
    BY DEF readRequest, endOfStream
<1>1. HandlerOK'
  <2>1. Unsent \in Values
      BY DEF Values
  <2> QED
      BY <1>0, <2>1, HeardOK DEF Inv
<1>2. Gone' /\ closed'
    BY <1>0, GoneStep
<1>3. StreamsOK'
    BY <1>0 DEF Inv, StreamsOK, clientVars
<1>4. LayoutOK'
    BY <1>0, SameLayout DEF Inv
<1>5. Acked'
    BY <1>2 DEF Acked, Gone
<1>6. EndsOK'
  <2>1. ~reset'
      BY <1>0
  <2> QED
      BY <1>0, <2>1 DEF Inv, EndsOK
<1> QED
    BY <1>1, <1>2, <1>3, <1>4, <1>5, <1>6 DEF Inv

(* clientReadReq: the function is the one whose number came.               *)
LEMMA RequestStep == ASSUME Inv, clientReadReq PROVE Inv'
<1>0. /\ at = "func" /\ reading = <<>> /\ Hear(Asked(got[1]), got[1])
      /\ UNCHANGED <<toServer, toClient, clientVars, closed, reset, cut, spoiled, status,
                     layoutVars, present, opens>>
    BY DEF clientReadReq, Handling, ServerOnly, endVars, Stored
<1>1. PICK f \in Functions : got = <<f>> /\ got # <<>>
  <2> DEFINE g == got[1]
  <2>1. Len(reading) = 0 /\ Len(got) \in Nat /\ Len(got) + Len(reading) = Len(Wants(at))
      BY <1>0, EmptySeq, LenProperties DEF Inv, HandlerOK
  <2>2. Len(Wants(at)) = 1
      BY <1>0, WantsIs
  <2>3. Len(got) = 1
      BY <2>1, <2>2
  <2>4. got # <<>>
      BY <2>3
  <2>5. g \in Functions
      BY <1>0, <2>4 DEF Inv, HandlerOK
  <2>6. got \in Seq(Values) /\ <<g>> \in Seq(Values) /\ Len(<<g>>) = 1 /\ <<g>>[1] = g
      BY <2>5, Tuples DEF Values, Inv, HandlerOK
  <2>7. \A k \in 1 .. Len(got) : got[k] = <<g>>[k]
    <3>1. \A k \in 1 .. 1 : k = 1
        OBVIOUS
    <3> QED
        BY <2>3, <3>1
  <2>8. got = <<g>>
      BY <2>3, <2>6, <2>7, SeqEqual
  <2> HIDE DEF g
  <2> QED
      BY <2>4, <2>5, <2>8
<1>9. /\ toServer' = toServer /\ toClient' = toClient
      /\ cl' = cl /\ arg' = arg /\ sending' = sending /\ expects' = expects /\ answers' = answers
      /\ closed' = closed
    BY <1>0 DEF clientVars
<1>2. HandlerOK' /\ at' = f /\ reading' = Asked(f) /\ got' = <<>>
  <2>1. Hear(Asked(f), f)
    <3>1. got[1] = f
        BY <1>1
    <3> QED
        BY <1>0, <3>1
  <2> QED
      BY <2>1, HearFunctionOK DEF Hear, HearAnd
<1>3. /\ at \notin Opening \cup Storing \cup Functions \cup {"deleting"} /\ ~Home
      /\ \A w : ~Behind(w)
      /\ \A g \in Functions : Reads(g) => g = f /\ Reads(f)'
  <2>1. at \notin Opening \cup Storing \cup Functions \cup {"deleting"} /\ ~Home
      BY <1>0, <1>1 DEF Opening, Storing, Functions, Puts, Home
  <2>2. \A w : ~Behind(w)
      BY <1>1, <2>1 DEF Behind
  <2>3. ASSUME NEW g \in Functions, Reads(g)
        PROVE  g = f /\ Reads(f)'
    <3>1. got = <<g>> /\ Flow(Fields(Asked(g), arg))
        BY <2>1, <2>3 DEF Reads
    <3>2. g = f
        BY <1>1, <3>1
    <3>3. Brings(toServer' \o sending', Fields(reading', arg'), closed')
        BY <1>2, <1>9, <3>1, <3>2 DEF Flow
    <3> QED
        BY <1>2, <3>2, <3>3 DEF Reads, Flow
  <2> QED
      BY <2>1, <2>2, <2>3
<1>4. ASSUME closed PROVE Gone'
  <2>1. CASE toServer = <<>>
      BY <1>0, <1>4, <2>1, GoneStep
  <2>2. CASE toServer # <<>>
    <3>1. PICK g \in Functions : /\ g \in Puts => arg \in Sizes
                                 /\ Behind(Request(g, arg)) \/ Reads(g)
        BY <1>3, <1>4, <2>2 DEF Inv, Gone
    <3>2. g = f /\ Reads(f)'
        BY <1>3, <3>1
    <3> QED
        BY <1>1, <1>4, <1>9, <3>1, <3>2 DEF Inv, Gone
  <2> QED
      BY <2>1, <2>2
<1>5. ASSUME ~closed PROVE Phase' /\ Acked'
  <2>1. AtAsked
    <3>1. ~AtIdle
        BY <1>3 DEF AtIdle
    <3> QED
        BY <1>3, <1>5, <3>1, PhasePlaces DEF Inv, Phase
  <2>2. PICK g \in Functions :
            /\ cl = Place(g) /\ expects = <<Answer(g)>> /\ answers = <<>> /\ toClient = <<>>
            /\ g \in Puts => arg \in Sizes
            /\ Behind(Request(g, arg)) \/ (Reads(g) /\ (at = g => Heard))
      BY <2>1 DEF AtAsked
  <2>3. g = f /\ Reads(f)'
      BY <1>3, <2>2
  <2>4. Heard'
    <3>1. Len(got') = 0
        BY <1>2
    <3> QED
        BY <3>1 DEF Heard
  <2>5. AtAsked'
      BY <1>1, <1>9, <2>2, <2>3, <2>4 DEF AtAsked
  <2>6. cl # "stored"
      BY <2>2, PlacesOf
  <2>7. Acked'
      BY <1>0, <2>6, SameLayout, AckedSame DEF Inv, clientVars
  <2> QED
      BY <2>5, <2>7 DEF Phase
<1>6. spoiled' \in BOOLEAN /\ opens' \in Int /\ present' \in BOOLEAN
    BY <1>0 DEF Inv, StreamsOK
<1>7. LayoutOK'
    BY <1>0, SameLayout DEF Inv
<1> QED
    BY <1>0, <1>2, <1>4, <1>5, <1>6, <1>7, ServerStep

(* The end of the connection: a wild call only after a death in a call.    *)
LEMMA ConnectionClosedStep == ASSUME Inv, connectionClosed PROVE Inv'
<1>0. /\ at = "func" /\ reading # <<>> /\ closed /\ toServer = <<>>
      /\ UNCHANGED <<layoutVars, streams, clientVars, got, present, opens, endVars>>
      /\ IF reset THEN status' = "wildCall" /\ UNCHANGED <<at, reading>>
                  ELSE at' = "closed" /\ reading' = <<>> /\ UNCHANGED status
    BY DEF connectionClosed, endOfStream
<1>1. CASE reset
  <2>1. UNCHANGED <<layoutVars, streams, clientVars, serverVars, endVars>> /\ status' = "wildCall"
      BY <1>0, <1>1 DEF serverVars
  <2>2. EndsOK'
      BY <1>1, <2>1 DEF Inv, EndsOK, endVars
  <2> QED
      BY <2>1, <2>2, StatusStep
<1>2. CASE ~reset
  <2>1. at' = "closed" /\ reading' = <<>> /\ UNCHANGED status
      BY <1>0, <1>2
  <2>2. got = <<>>
    <3>1. Len(got) \in Nat /\ Len(reading) \in Nat /\ Len(got) + Len(reading) = Len(Wants(at))
        BY LenProperties DEF Inv, HandlerOK
    <3>2. Len(reading) # 0 /\ (Len(got) = 0 => got = <<>>)
        BY <1>0, EmptySeq DEF Inv, HandlerOK
    <3>3. Len(Wants(at)) = 1
        BY <1>0, WantsIs
    <3> QED
        BY <3>1, <3>2, <3>3
  <2>3. HandlerOK'
    <3>1. HearAnd(<<>>, <<>>, "closed")
        BY <1>0, <2>1, <2>2 DEF HearAnd
    <3> QED
        BY <3>1, HearNothingOK
  <2>4. UNCHANGED <<toServer, toClient, clientVars, closed, reset, cut, spoiled, status>>
      BY <1>0, <2>1 DEF streams, endVars
  <2>5. Gone'
      BY <1>0, <2>4, GoneStep
  <2>6. LayoutOK'
      BY <1>0, SameLayout DEF Inv
  <2>7. spoiled' \in BOOLEAN /\ opens' \in Int /\ present' \in BOOLEAN
      BY <1>0, <2>4 DEF Inv, StreamsOK
  <2> QED
      BY <1>0, <2>3, <2>4, <2>5, <2>6, <2>7, ServerStep
<1> QED
    BY <1>1, <1>2

(* Another connection takes the file away.                                 *)
LEMMA OtherStep == ASSUME Inv, otherClient PROVE Inv'
<1>0. /\ cl \in {"idle", "search", "init"} /\ at = "func" /\ got = <<>>
      /\ present' = FALSE /\ opens' = 0 /\ freeBytes
      /\ UNCHANGED <<toServer, toClient, clientVars, at, reading, got, endVars, status>>
    BY DEF otherClient, streams
<1>1. ~closed /\ Phase
    BY <1>0 DEF Inv, Gone
<1>2. /\ toServer' = toServer /\ toClient' = toClient
      /\ cl' = cl /\ arg' = arg /\ sending' = sending /\ expects' = expects /\ answers' = answers
      /\ at' = at /\ reading' = reading /\ got' = got /\ closed' = closed
    BY <1>0 DEF clientVars, endVars
<1>3. ~present' /\ LayoutOK'
    BY <1>0, FreeKeepsLayout
<1>4. AtIdle \/ AtAsked \/ AtSearch \/ AtInit
    BY <1>0, <1>1, PhasePlaces DEF Phase
<1>5. Quiet' = Quiet /\ Home' = Home /\ Heard' = Heard
    BY <1>2 DEF Quiet, Home, Heard
<1>6. ASSUME AtIdle PROVE Phase'
  <2>1. Behind(<<>>)'
      BY <1>2, <1>6 DEF AtIdle, Behind, Flow
  <2>2. AtIdle'
      BY <1>2, <1>6, <2>1 DEF AtIdle
  <2> QED
      BY <2>2 DEF Phase
<1>7. ASSUME AtAsked PROVE Phase'
  <2>1. \A f \in Functions : /\ Behind(Request(f, arg)) => Behind(Request(f, arg))'
                             /\ Reads(f) => Reads(f)'
      BY <1>2 DEF Behind, Reads, Flow
  <2>2. \A f \in Functions : (at = f => Heard) => (at' = f => Heard')
      BY <1>2, <1>5
  <2>3. AtAsked'
      BY <1>2, <1>7, <2>1, <2>2 DEF AtAsked
  <2> QED
      BY <2>3 DEF Phase
<1>8. ASSUME AtSearch \/ AtInit PROVE Phase'
  <2>1. \A e \in Errors : Answered(e) => Answered(e)'
      BY <1>2 DEF Answered, Tells
  <2>2. AtSearch' \/ AtInit'
      BY <1>2, <1>3, <1>5, <1>8, <2>1 DEF AtSearch, AtInit
  <2> QED
      BY <2>2 DEF Phase
<1>9. Phase'
    BY <1>4, <1>6, <1>7, <1>8
<1>10. HandlerOK' /\ StreamsOK' /\ EndsOK'
  <2>1. HandlerOK'
      BY <1>2 DEF Inv, HandlerOK
  <2>2. EndsOK'
      BY <1>0 DEF Inv, EndsOK, endVars
  <2>3. present' \in BOOLEAN /\ opens' \in Int
    <3>1. present' = FALSE
        BY <1>0
    <3>2. present' \in BOOLEAN
        BY <3>1
    <3>3. opens' = 0
        BY <1>0
    <3> QED
        BY <3>2, <3>3
  <2>4. acked' = acked /\ spoiled' = spoiled
      BY <1>0 DEF clientVars, endVars
  <2>5. StreamsOK'
      BY <1>2, <2>3, <2>4 DEF Inv, StreamsOK
  <2> QED
      BY <2>1, <2>2, <2>5
<1> QED
    BY <1>1, <1>2, <1>3, <1>9, <1>10 DEF Inv, Acked

-----------------------------------------------------------------------------
(* Reading the answer.                                                     *)

(* All that the server writes.                                             *)
Contents == Field("contents", sent)
Response == Field("response", "ok")
NoName == Field("name_len", "end")
Told == {More, NoName, Name, Size, Contents, Response} \cup { Error(e) : e \in Errors }

(* The words that are left after a field are words of the server.          *)
LEMMA TailsAre ==
    /\ <<>> \in Seq(Told) /\ End \in Seq(Told)
    /\ Bytes(<<>>) \in Seq(Told) /\ Bytes(End) \in Seq(Told)
    /\ <<Size>> \o Bytes(<<>>) \in Seq(Told) /\ <<Size>> \o Bytes(End) \in Seq(Told)
    /\ <<Name, Size>> \o Bytes(End) = <<Name>> \o (<<Size>> \o Bytes(End))
    /\ <<Name, Size>> \o Bytes(End) \in Seq(Told)
<1>1. NoName \in Told /\ Name \in Told /\ Size \in Told /\ Contents \in Told
    BY DEF Told
<1>2. /\ <<>> \in Seq(Told) /\ <<NoName>> \in Seq(Told) /\ <<Contents>> \in Seq(Told)
      /\ <<Name>> \in Seq(Told) /\ <<Size>> \in Seq(Told) /\ <<Name, Size>> \in Seq(Told)
      /\ <<Name, Size>> = <<Name>> \o <<Size>>
    BY <1>1, EmptySeq, Tuples
<1>3. End = <<NoName>>
    BY DEF End, NoName
<1>4. Bytes(<<>>) \in Seq(Told) /\ Bytes(End) \in Seq(Told)
    BY <1>2, <1>3, ConcatProperties DEF Bytes, Contents
<1>5. <<Size>> \o Bytes(<<>>) \in Seq(Told) /\ <<Size>> \o Bytes(End) \in Seq(Told)
    BY <1>2, <1>4, ConcatProperties
<1>6. <<Name, Size>> \o Bytes(End) = <<Name>> \o (<<Size>> \o Bytes(End))
    BY <1>2, <1>4, ConcatAssociative
<1>7. <<Name, Size>> \o Bytes(End) \in Seq(Told)
    BY <1>2, <1>4, ConcatProperties
<1> QED
    BY <1>2, <1>3, <1>4, <1>5, <1>6, <1>7

(* The head, the tail and the end of short sequences.                      *)
LEMMA OneOf == \A x : Head(<<x>>) = x /\ Tail(<<x>>) = <<>> /\ Append(<<>>, x) = <<x>>
    OBVIOUS

(* The next field of an answer is the one to be read, and it is whole.     *)
LEMMA NextField ==
    ASSUME LayoutOK, NEW x \in Told, NEW tail \in Seq(Told), toClient = <<x>> \o tail,
           Head(expects) = x.kind,
           x.kind = "contents" => arg = size /\ x = Contents /\ Len(sent) = size
    PROVE  /\ Head(toClient) = x /\ Tail(toClient) = tail /\ toClient # <<>>
           /\ Fits(x)
           /\ taken(x) = x.val /\ rest(x) \o tail = tail
<1>1. Head(toClient) = x /\ Tail(toClient) = tail /\ toClient # <<>>
    BY ConsFacts
<1>2. <<>> \o tail = tail
    BY ConcatEmptySeq
<1>3. CASE x.kind = "contents"
  <2>1. x.val = sent /\ arg = size /\ Len(sent) = arg
      BY <1>3 DEF Contents, Field
  <2>2. SubSeq(sent, 1, arg) = sent
    <3>1. PICK S : sent \in Seq(S)
        BY SentIs
    <3> QED
        BY <2>1, <3>1, SubSeqFull
  <2>3. taken(x) = x.val
      BY <1>3, <2>1, <2>2 DEF taken
  <2>4. arg \in Nat
      BY <2>1 DEF LayoutOK
  <2>5. ~(Len(x.val) > arg) /\ Len(x.val) >= arg
      BY <2>1, <2>4
  <2>6. rest(x) = <<>> /\ Fits(x)
      BY <2>5 DEF rest, Fits
  <2> QED
      BY <1>1, <1>2, <2>3, <2>6
<1>4. CASE x.kind # "contents"
    BY <1>1, <1>2, <1>4 DEF taken, rest, Fits
<1> QED
    BY <1>3, <1>4

(* Nothing is changed by reading but what the client has read.             *)
ReadsOnly ==
    UNCHANGED <<layoutVars, toServer, cl, arg, sending, acked, calls, serverVars, endVars, status>>

(* The client reads the first of what it is told.                          *)
LEMMA TellsStep ==
    ASSUME Inv, NEW x \in Told, NEW tail \in Seq(Told), Tells(x, tail), expects # <<>>,
           x.kind = "contents" => arg = size /\ x = Contents /\ Len(sent) = size
    PROVE  /\ Fits(Head(toClient))
           /\ readAnswer => expects' = <<>> /\ toClient' = tail /\ answers' = <<x.val>> /\ ReadsOnly
<1>1. expects = <<x.kind>> /\ answers = <<>> /\ toClient = <<x>> \o tail
    BY DEF Tells
<1>2. Head(expects) = x.kind /\ Tail(expects) = <<>> /\ Append(<<>>, x.val) = <<x.val>>
    BY <1>1, OneOf
<1>3. /\ Head(toClient) = x /\ Tail(toClient) = tail /\ toClient # <<>>
      /\ Fits(x)
      /\ taken(x) = x.val /\ rest(x) \o tail = tail
    BY <1>1, <1>2, NextField DEF Inv
<1> QED
    BY <1>1, <1>2, <1>3 DEF readAnswer, ReadsOnly

(* What stays when a field is read.                                        *)
LEMMA StillThere ==
    ASSUME Inv, ReadsOnly
    PROVE  /\ Quiet' = Quiet /\ Home' = Home /\ Sent' = Sent
           /\ cl' = cl /\ at' = at /\ got' = got /\ present' = present /\ arg' = arg
           /\ size' = size /\ sent' = sent /\ closed' = closed
           /\ Size' = Size /\ Contents' = Contents
           /\ Bytes(<<>>)' = Bytes(<<>>) /\ Bytes(End)' = Bytes(End)
<1>1. size' = size /\ sent' = sent
    BY SameLayout DEF ReadsOnly
<1>2. /\ toServer' = toServer /\ sending' = sending /\ cl' = cl /\ at' = at /\ got' = got
      /\ present' = present /\ arg' = arg /\ closed' = closed
    BY DEF ReadsOnly, serverVars, endVars
<1> QED
    BY <1>1, <1>2 DEF Quiet, Home, Sent, Size, Contents, Bytes, End

(* The client reads the answer of a handler.                               *)
LEMMA AnsweredStep ==
    ASSUME Inv, NEW e \in Errors, Answered(e), expects # <<>>
    PROVE  Fits(Head(toClient)) /\ (readAnswer => ReadsOnly /\ Answered(e)')
<1>1. Error(e) \in Told /\ Error(e).kind = "err" /\ Error(e).val = e /\ <<>> \in Seq(Told)
    BY TailsAre DEF Told, Error, Field
<1>2. Tells(Error(e), <<>>)
    BY DEF Answered
<1>3. /\ Fits(Head(toClient))
      /\ readAnswer => expects' = <<>> /\ toClient' = <<>> /\ answers' = <<Error(e).val>> /\ ReadsOnly
    BY <1>1, <1>2, TellsStep
<1> QED
    BY <1>3 DEF Answered, Tells

(* The contents, or what is left when they are read.                       *)
LEMMA TookStep ==
    ASSUME Inv, Sent, NEW tail \in Seq(Told), Took(tail), expects # <<>>
    PROVE  /\ Fits(Head(toClient))
           /\ readAnswer => expects' = <<>> /\ toClient' = tail /\ answers' = <<Contents.val>> /\ ReadsOnly
           /\ arg = size /\ size # 0
<1>1. arg = size /\ size # 0 /\ Tells(Contents, tail) /\ Contents \in Told /\ Len(sent) = size
    BY DEF Took, Contents, Told, Sent
<1> QED
    BY <1>1, TellsStep

(* Whatever the place, the client reads the field it expects.              *)
LEMMA AnswerHeard ==
    ASSUME Inv, ~closed, expects # <<>>, toClient # <<>>
    PROVE  Fits(Head(toClient)) /\ (readAnswer => ReadsOnly /\ Phase')
<1>1. \A e \in Errors : Answered(e) =>
          Fits(Head(toClient)) /\ (readAnswer => ReadsOnly /\ Answered(e)')
    BY AnsweredStep
<1>2. ReadsOnly =>
          /\ Quiet' = Quiet /\ Home' = Home /\ Sent' = Sent
          /\ cl' = cl /\ at' = at /\ got' = got /\ present' = present /\ arg' = arg
          /\ size' = size /\ sent' = sent /\ closed' = closed
          /\ Size' = Size /\ Contents' = Contents
          /\ Bytes(<<>>)' = Bytes(<<>>) /\ Bytes(End)' = Bytes(End)
    BY StillThere
<1>3. "ok" \in Errors /\ Errors \ {"ok"} \subseteq Errors
    BY DEF Errors
<1> DEFINE OK == Fits(Head(toClient)) /\ (readAnswer => ReadsOnly /\ Phase')
<1>4. ~AtIdle /\ ~AtAsked
    BY DEF AtIdle, AtAsked
<1>5. ASSUME AtSearch PROVE OK
  <2>1. PICK e \in Errors : Answered(e)
      BY <1>5 DEF AtSearch
  <2>2. readAnswer => AtSearch'
      BY <1>1, <1>2, <1>5, <2>1 DEF AtSearch
  <2> QED
      BY <1>1, <2>1, <2>2 DEF Phase
<1>6. ASSUME AtInit PROVE OK
  <2>1. PICK e \in Errors : Answered(e)
      BY <1>6 DEF AtInit
  <2>2. readAnswer => AtInit'
      BY <1>1, <1>2, <1>6, <2>1 DEF AtInit
  <2> QED
      BY <1>1, <2>1, <2>2 DEF Phase
<1>7. ASSUME AtOpen PROVE OK
  <2>1. PICK e \in Errors : Answered(e)
      BY <1>7 DEF AtOpen
  <2>2. readAnswer => AtOpen'
      BY <1>1, <1>2, <1>7, <2>1 DEF AtOpen
  <2> QED
      BY <1>1, <2>1, <2>2 DEF Phase
<1>8. ASSUME AtRemove PROVE OK
  <2>1. PICK e \in Errors : Answered(e)
      BY <1>8 DEF AtRemove
  <2>2. readAnswer => AtRemove'
      BY <1>1, <1>2, <1>8, <2>1 DEF AtRemove
  <2> QED
      BY <1>1, <2>1, <2>2 DEF Phase
<1>9. ASSUME AtPut PROVE OK
  <2>1. CASE Home /\ \E e \in Errors \ {"ok"} : Answered(e)
    <3>1. PICK e \in Errors \ {"ok"} : Answered(e)
        BY <2>1
    <3>2. readAnswer => AtPut'
        BY <1>1, <1>2, <1>3, <1>9, <2>1, <3>1 DEF AtPut
    <3> QED
        BY <1>1, <1>3, <3>1, <3>2 DEF Phase
  <2>2. CASE at \in Storing /\ Len(got) = 1 /\ got[1] = arg /\ arg \in Sizes
             /\ present /\ Answered("ok")
    <3>1. readAnswer => AtPut'
        BY <1>1, <1>2, <1>3, <1>9, <2>2 DEF AtPut
    <3> QED
        BY <1>1, <1>3, <2>2, <3>1 DEF Phase
  <2> QED
      BY <1>9, <2>1, <2>2 DEF AtPut
<1>10. ASSUME AtStored PROVE OK
  <2>1. /\ Quiet /\ Home /\ expects = <<"response">> /\ toClient = <<Response>>
        /\ cl = "stored" /\ arg \in Sizes /\ present
      BY <1>10 DEF AtStored, Response
  <2>2. toClient = <<Response>> \o <<>> /\ Response \in Told /\ Response.kind = "response"
      BY <2>1, Alone DEF Told, Response, Field
  <2>3. Head(expects) = Response.kind /\ Tail(expects) = <<>>
      BY <2>1, <2>2, OneOf
  <2>4. /\ Head(toClient) = Response /\ Tail(toClient) = <<>>
        /\ Fits(Response) /\ rest(Response) \o <<>> = <<>>
      BY <2>2, <2>3, TailsAre, NextField DEF Inv
  <2>5. readAnswer => ReadsOnly /\ expects' = <<>> /\ toClient' = <<>>
      BY <2>3, <2>4 DEF readAnswer, ReadsOnly
  <2>6. readAnswer => AtStored'
      BY <1>2, <2>1, <2>5 DEF AtStored
  <2> QED
      BY <2>4, <2>5, <2>6 DEF Phase
<1>11. ASSUME AtRead PROVE OK
  <2>1. CASE \E e \in Errors \ {"ok"} : Answered(e)
    <3>1. PICK e \in Errors \ {"ok"} : Answered(e)
        BY <2>1
    <3>2. readAnswer => AtRead'
        BY <1>1, <1>2, <1>3, <1>11, <3>1 DEF AtRead
    <3> QED
        BY <1>1, <1>3, <3>1, <3>2 DEF Phase
  <2>2. CASE Sent /\ Tells(Error("ok"), <<Size>> \o Bytes(<<>>))
    <3>1. Error("ok") \in Told /\ Error("ok").kind # "contents" /\ Error("ok").val = "ok"
        BY <1>3 DEF Told, Error, Field
    <3>2. /\ Fits(Head(toClient))
          /\ readAnswer => /\ expects' = <<>> /\ toClient' = <<Size>> \o Bytes(<<>>)
                           /\ answers' = <<Error("ok").val>> /\ ReadsOnly
        BY <2>2, <3>1, TailsAre, TellsStep
    <3>3. readAnswer => AtRead'
        BY <1>2, <1>11, <2>2, <3>1, <3>2 DEF AtRead, Tells
    <3> QED
        BY <3>2, <3>3 DEF Phase
  <2> QED
      BY <1>11, <2>1, <2>2 DEF AtRead
<1>12. ASSUME AtReadSize PROVE OK
  <2>1. Size \in Told /\ Size.kind # "contents" /\ Tells(Size, Bytes(<<>>))
      BY <1>12 DEF Told, Size, Field, AtReadSize
  <2>2. /\ Fits(Head(toClient))
        /\ readAnswer => /\ expects' = <<>> /\ toClient' = Bytes(<<>>)
                         /\ answers' = <<Size.val>> /\ ReadsOnly
      BY <2>1, TailsAre, TellsStep
  <2>3. readAnswer => AtReadSize'
      BY <1>2, <1>12, <2>2 DEF AtReadSize, Tells
  <2> QED
      BY <2>2, <2>3 DEF Phase
<1>13. ASSUME AtReadBytes PROVE OK
  <2>1. cl = "readBytes" /\ Sent /\ Took(<<>>)
      BY <1>13 DEF AtReadBytes
  <2>2. /\ Fits(Head(toClient))
        /\ readAnswer => /\ expects' = <<>> /\ toClient' = <<>>
                         /\ answers' = <<Contents.val>> /\ ReadsOnly
        /\ arg = size /\ size # 0
      BY <2>1, TailsAre, TookStep
  <2>3. readAnswer => AtReadBytes'
    <3>1. readAnswer => Tells(Field("contents", sent), <<>>)'
        BY <1>2, <2>2 DEF Tells, Contents
    <3> QED
        BY <1>2, <2>1, <2>2, <3>1 DEF AtReadBytes, Took
  <2> QED
      BY <2>2, <2>3 DEF Phase
<1>14. ASSUME AtNext PROVE OK
  <2>1. CASE Tells(NoName, <<>>)
    <3>1. NoName \in Told /\ NoName.kind # "contents"
        BY DEF Told, NoName, Field
    <3>2. /\ Fits(Head(toClient))
          /\ readAnswer => /\ expects' = <<>> /\ toClient' = <<>>
                           /\ answers' = <<NoName.val>> /\ ReadsOnly
        BY <2>1, <3>1, TailsAre, TellsStep
    <3>3. readAnswer => AtNext'
        BY <1>2, <1>14, <2>1, <3>2 DEF AtNext, Tells, NoName
    <3> QED
        BY <3>2, <3>3 DEF Phase
  <2>2. CASE Sent /\ Tells(More, <<Name, Size>> \o Bytes(End))
    <3>1. More \in Told /\ More.kind # "contents"
        BY DEF Told, More, Field
    <3>2. /\ Fits(Head(toClient))
          /\ readAnswer => /\ expects' = <<>> /\ toClient' = <<Name, Size>> \o Bytes(End)
                           /\ answers' = <<More.val>> /\ ReadsOnly
        BY <2>2, <3>1, TailsAre, TellsStep
    <3>3. readAnswer => AtNext'
        BY <1>2, <1>14, <2>2, <3>2 DEF AtNext, Tells, More
    <3> QED
        BY <3>2, <3>3 DEF Phase
  <2> QED
      BY <1>14, <2>1, <2>2 DEF AtNext, NoName, More
<1>15. ASSUME AtNextSize PROVE OK
  <2>1. cl = "nextSize" /\ Sent
      BY <1>15 DEF AtNextSize
  <2>2. CASE expects = <<"name", "size">> /\ toClient = <<Name, Size>> \o Bytes(End) /\ answers = <<>>
    <3>1. Name \in Told /\ Name.kind = "name" /\ Name.val = "ours"
        BY DEF Told, Name, Field
    <3>2. Head(expects) = "name" /\ Tail(expects) = <<"size">>
        BY <2>2
    <3>3. toClient = <<Name>> \o (<<Size>> \o Bytes(End))
        BY <2>2, TailsAre
    <3>4. /\ Head(toClient) = Name /\ Tail(toClient) = <<Size>> \o Bytes(End) /\ Fits(Name)
          /\ taken(Name) = "ours" /\ rest(Name) \o (<<Size>> \o Bytes(End)) = <<Size>> \o Bytes(End)
        BY <3>1, <3>2, <3>3, TailsAre, NextField DEF Inv
    <3>5. readAnswer => /\ ReadsOnly /\ expects' = <<"size">> /\ toClient' = <<Size>> \o Bytes(End)
                        /\ answers' = <<"ours">>
        BY <2>2, <3>2, <3>4, OneOf DEF readAnswer, ReadsOnly
    <3>6. readAnswer => AtNextSize'
        BY <1>2, <2>1, <3>5 DEF AtNextSize
    <3> QED
        BY <3>4, <3>5, <3>6 DEF Phase
  <2>3. CASE expects = <<"size">> /\ toClient = <<Size>> \o Bytes(End) /\ answers = <<"ours">>
    <3>1. Size \in Told /\ Size.kind = "size" /\ Size.val = size
        BY DEF Told, Size, Field
    <3>2. Head(expects) = "size" /\ Tail(expects) = <<>>
        BY <2>3
    <3>3. /\ Head(toClient) = Size /\ Tail(toClient) = Bytes(End) /\ Fits(Size)
          /\ taken(Size) = size /\ rest(Size) \o Bytes(End) = Bytes(End)
        BY <2>3, <3>1, <3>2, TailsAre, NextField DEF Inv
    <3>4. Append(<<"ours">>, size) = <<"ours", size>>
      <4> DEFINE S == {"ours", size}
      <4>1. "ours" \in S /\ size \in S
          OBVIOUS
      <4> HIDE DEF S
      <4>2. <<"ours">> \in Seq(S)
          BY <4>1, Tuples
      <4>3. Append(<<"ours">>, size) = <<"ours">> \o <<size>>
          BY <4>1, <4>2, AppendIsConcat
      <4> QED
          BY <4>1, <4>3, Pair
    <3>5. readAnswer => /\ ReadsOnly /\ expects' = <<>> /\ toClient' = Bytes(End)
                        /\ answers' = <<"ours", size>>
        BY <2>3, <3>2, <3>3, <3>4 DEF readAnswer, ReadsOnly
    <3>6. readAnswer => AtNextSize'
        BY <1>2, <2>1, <3>5 DEF AtNextSize
    <3> QED
        BY <3>3, <3>5, <3>6 DEF Phase
  <2> QED
      BY <1>15, <2>2, <2>3 DEF AtNextSize
<1>16. ASSUME AtNextBytes PROVE OK
  <2>1. cl = "nextBytes" /\ Sent /\ Took(End)
      BY <1>16 DEF AtNextBytes
  <2>2. /\ Fits(Head(toClient))
        /\ readAnswer => /\ expects' = <<>> /\ toClient' = End
                         /\ answers' = <<Contents.val>> /\ ReadsOnly
        /\ arg = size /\ size # 0
      BY <2>1, TailsAre, TookStep
  <2>3. readAnswer => AtNextBytes'
    <3>1. readAnswer => Tells(Field("contents", sent), End)'
        BY <1>2, <2>2 DEF Tells, Contents, End
    <3> QED
        BY <1>2, <2>1, <2>2, <3>1 DEF AtNextBytes, Took
  <2> QED
      BY <2>2, <2>3 DEF Phase
<1> HIDE DEF OK
<1>17. OK
    BY <1>4, <1>5, <1>6, <1>7, <1>8, <1>9, <1>10, <1>11, <1>12, <1>13, <1>14, <1>15, <1>16
    DEF Inv, Phase
<1> QED
    BY <1>17 DEF OK

(* The client reads what comes next in its call.                           *)
LEMMA ReadAnswerStep == ASSUME Inv, readAnswer PROVE Inv'
<1>1. ~closed /\ expects # <<>> /\ toClient # <<>>
    BY DEF readAnswer
<1>2. ReadsOnly /\ Phase'
    BY <1>1, AnswerHeard
<1>3. UNCHANGED <<layoutVars, toServer, serverVars, closed, reset, cut, spoiled, status>>
      /\ sending' \in Seq(Msgs) /\ arg' \in Nat /\ acked' \in Nat
    BY <1>2 DEF ReadsOnly, endVars, Inv, StreamsOK
<1>4. Acked'
  <2>1. size' = size
      BY <1>3, SameLayout
  <2> QED
      BY <1>2, <2>1 DEF ReadsOnly, serverVars, Inv, Acked
<1> QED
    BY <1>1, <1>2, <1>3, <1>4, ClientStep

(* The client never reads a field for another one.                         *)
LEMMA ClientInStep == ASSUME Inv PROVE ~clientMisreads
<1> SUFFICES ASSUME expects # <<>>, toClient # <<>>
             PROVE  Fits(Head(toClient))
    BY DEF clientMisreads, Fits
<1>1. ~closed
    BY DEF Inv, Gone
<1> QED
    BY <1>1, AnswerHeard

-----------------------------------------------------------------------------
(* The calls.                                                              *)

(* What is written leaves the client and is on its way as it was.          *)
LEMMA SendStep == ASSUME Inv, sendToSocket PROVE Inv'
<1>0. /\ ~closed /\ sending # <<>> /\ toServer' = Append(toServer, Head(sending))
      /\ sending' = Tail(sending)
      /\ toClient' = toClient /\ cl' = cl /\ arg' = arg /\ expects' = expects
      /\ answers' = answers /\ acked' = acked /\ at' = at /\ reading' = reading /\ got' = got
      /\ present' = present /\ opens' = opens /\ closed' = closed /\ reset' = reset
      /\ cut' = cut /\ spoiled' = spoiled /\ status' = status /\ UNCHANGED layoutVars
    BY DEF sendToSocket, serverVars, endVars
<1>1. toServer \in Seq(Msgs) /\ sending \in Seq(Msgs)
    BY DEF Inv, StreamsOK
<1>2. /\ Head(sending) \in Msgs /\ Tail(sending) \in Seq(Msgs)
      /\ sending = <<Head(sending)>> \o Tail(sending)
    BY <1>0, <1>1, ConsOf
<1> DEFINE h == Head(sending)   t == Tail(sending)
<1>3. toServer' = toServer \o <<h>> /\ <<h>> \in Seq(Msgs)
    BY <1>0, <1>1, <1>2, AppendIsConcat, Tuples
<1>4. toServer' \in Seq(Msgs) /\ toServer' \o sending' = toServer \o sending
  <2>1. (toServer \o <<h>>) \o t = toServer \o (<<h>> \o t)
      BY <1>1, <1>2, <1>3, ConcatAssociative
  <2>2. toServer \o <<h>> \in Seq(Msgs)
      BY <1>1, <1>3, ConcatProperties
  <2> QED
      BY <1>0, <1>2, <1>3, <2>1, <2>2
<1> HIDE DEF h, t
<1>5. /\ Behind(<<>>) => Behind(<<>>)'
      /\ Flow(Fields(reading, arg)) => Flow(Fields(reading, arg))'
      /\ \A f \in Functions : /\ Behind(Request(f, arg)) => Behind(Request(f, arg))'
                              /\ Reads(f) => Reads(f)'
    BY <1>0, <1>4 DEF Behind, Reads, Flow
<1>6. Heard' = Heard
    BY <1>0 DEF Heard
<1>7. AtIdle \/ AtAsked \/ AtStored
  <2>1. ~Quiet
      BY <1>0 DEF Quiet
  <2> QED
      BY <1>0, <2>1, PhasePlaces DEF Inv, Phase
<1>8. AtIdle => AtIdle'
    BY <1>0, <1>5 DEF AtIdle
<1>9. AtAsked => AtAsked'
  <2>1. \A f \in Functions : (at = f => Heard) => (at' = f => Heard')
      BY <1>0, <1>6
  <2> QED
      BY <1>0, <1>5, <2>1 DEF AtAsked
<1>10. AtStored => AtStored'
  <2>1. ~Quiet
      BY <1>0 DEF Quiet
  <2> QED
      BY <1>0, <1>5, <2>1 DEF AtStored
<1>11. Phase'
    BY <1>7, <1>8, <1>9, <1>10 DEF Phase
<1>12. LayoutOK' /\ size' = size
    BY <1>0, SameLayout DEF Inv
<1>13. StreamsOK' /\ HandlerOK' /\ EndsOK' /\ Acked'
  <2>1. StreamsOK'
      BY <1>0, <1>2, <1>4 DEF Inv, StreamsOK
  <2>2. HandlerOK'
      BY <1>0 DEF Inv, HandlerOK
  <2>3. EndsOK'
      BY <1>0 DEF Inv, EndsOK
  <2>4. Acked'
      BY <1>0, <1>12 DEF Inv, Acked
  <2> QED
      BY <2>1, <2>2, <2>3, <2>4
<1> QED
    BY <1>0, <1>11, <1>12, <1>13 DEF Inv

(* A piece of a call.                                                      *)
LEMMA PieceAt ==
    ASSUME Inv, NEW l \in {"idle", "search", "init", "open", "remove", "write", "append", "stored",
                           "read", "readSize", "readBytes", "next", "nextSize", "nextBytes"},
           Ready(l)
    PROVE  ~closed /\ Phase /\ cl = l /\ sending = <<>> /\ expects = <<>>
    BY DEF Inv, Gone, Ready

(* What a piece of a call leaves alone.                                    *)
LEMMA Unmoved ==
    ASSUME ClientOnly
    PROVE  /\ toServer' = toServer /\ toClient' = toClient /\ at' = at /\ reading' = reading
           /\ got' = got /\ present' = present /\ closed' = closed /\ size' = size /\ sent' = sent
           /\ spoiled' = spoiled
           /\ Home' = Home /\ Size' = Size
           /\ Bytes(<<>>)' = Bytes(<<>>) /\ Bytes(End)' = Bytes(End)
<1>1. size' = size /\ sent' = sent
    BY SameLayout DEF ClientOnly
<1>2. /\ toServer' = toServer /\ toClient' = toClient /\ at' = at /\ reading' = reading
      /\ got' = got /\ present' = present /\ closed' = closed /\ spoiled' = spoiled
    BY DEF ClientOnly, streams, serverVars, endVars
<1> QED
    BY <1>1, <1>2 DEF Home, Size, Bytes, End

(* A piece of a call keeps the invariant if it ends where Phase says.      *)
LEMMA PieceStep ==
    ASSUME Inv, ~closed, ClientOnly, sending' \in Seq(Msgs), arg' \in Nat, acked' \in Nat, Acked',
           Phase'
    PROVE  Inv'
<1>1. UNCHANGED <<layoutVars, toServer, serverVars, closed, reset, cut, spoiled, status>>
    BY DEF ClientOnly, streams, endVars
<1> QED
    BY <1>1, ClientStep

(* The acknowledged bytes, when a call moves on.                           *)
LEMMA AckedMoves ==
    ASSUME Inv, ClientOnly, acked' = acked, cl \notin {"init", "closed", "stored"}, cl' # "stored"
    PROVE  Acked'
    BY Unmoved DEF Inv, Acked

(* What is left to read before the end of a handler does not depend on n.  *)
LEMMA RestOfEarlier ==
    ASSUME HandlerOK, at \in Opening \cup {"deleting"}, NEW n \in Nat, NEW m \in Nat
    PROVE  Fields(reading, n) = Fields(reading, m)
<1>1. reading \in Seq(Kinds) /\ Len(reading) \in Nat /\ Len(got) \in Nat
      /\ Len(got) + Len(reading) = Len(Wants(at))
      /\ \A k \in 1 .. Len(reading) : reading[k] = Wants(at)[Len(got) + k]
    BY LenProperties DEF HandlerOK
<1>2. ASSUME NEW k \in 1 .. Len(reading) PROVE reading[k] = "pid"
  <2>1. CASE at \in Opening
    <3>1. Wants(at) = <<"found", "pid">> /\ Len(Wants(at)) = 2 /\ Wants(at)[2] = "pid"
      <4>1. Wants(at) = <<"found", "pid">>
          BY <2>1, WantsIs
      <4> QED
          BY <4>1
    <3>2. Len(got) >= 1
        BY <2>1 DEF HandlerOK
    <3>3. Len(got) + k = 2
        BY <1>1, <3>1, <3>2
    <3> QED
        BY <1>1, <3>1, <3>3
  <2>2. CASE at = "deleting"
    <3>1. Len(Wants(at)) = 0
        BY <2>2, WantsIs
    <3> QED
        BY <1>1, <3>1
  <2> QED
      BY <2>1, <2>2
<1>3. \A k \in 1 .. Len(reading) : Asking(reading[k], n) = Asking(reading[k], m)
    BY <1>2 DEF Asking
<1> QED
    BY <1>3 DEF Fields

(* A call that begins, or goes on with another request.                    *)
LEMMA AskStep ==
    ASSUME Inv, ~closed, ClientOnly, sending = <<>>, toClient = <<>>, Behind(<<>>),
           NEW f \in Functions,
           sending' = Request(f, arg'), expects' = <<Answer(f)>>, answers' = <<>>, cl' = Place(f),
           arg' \in Nat, f \in Puts => arg' \in Sizes, acked' \in Nat, Acked'
    PROVE  Inv'
<1>1. /\ toServer' = toServer /\ toClient' = <<>> /\ at' = at /\ reading' = reading
      /\ got' = got /\ closed' = closed
    BY Unmoved
<1> DEFINE w == Request(f, arg')
<1>2. w \in Seq(Msgs) /\ toServer \in Seq(Msgs) /\ closed = FALSE /\ arg \in Nat
    BY RequestType DEF Inv, StreamsOK
<1>3. toServer \o sending = toServer /\ toServer \o sending \in Seq(Msgs) /\ <<>> \in Seq(Msgs)
    BY <1>2, ConcatEmptySeq, EmptySeq
<1> HIDE DEF w
<1>4. sending' = w
    BY DEF w
<1>5. CASE at = "func" /\ got = <<>> /\ Flow(<<>>)
  <2>1. toServer = <<>>
      BY <1>5, FlowNone DEF Inv
  <2>2. toServer' \o sending' = w
      BY <1>1, <1>2, <1>4, <2>1, ConcatEmptySeq
  <2>3. Brings(toServer' \o sending', w, closed')
      BY <1>1, <1>2, <2>2, BringsAll
  <2>4. Behind(Request(f, arg))'
      BY <1>1, <1>5, <2>3 DEF Behind, Flow, w
  <2>5. AtAsked'
      BY <1>1, <2>4 DEF AtAsked
  <2> QED
      BY <1>2, <1>4, <2>5, PieceStep DEF Phase
<1>6. CASE at \in Opening \cup {"deleting"} /\ Flow(Fields(reading, arg) \o <<>>)
  <2>1. Fields(reading, arg) \in Seq(Msgs) /\ Fields(reading, arg') = Fields(reading, arg)
      BY <1>2, <1>6, ReadingType, RestOfEarlier DEF Inv
  <2>2. toServer = Fields(reading, arg)
    <3>1. Fields(reading, arg) \o <<>> = Fields(reading, arg)
        BY <2>1, ConcatEmptySeq
    <3> QED
        BY <1>2, <1>3, <1>6, <2>1, <3>1, FlowIs DEF Inv
  <2> DEFINE u == Fields(reading, arg')
  <2>3. toServer' \o sending' = u \o w /\ u \o w \in Seq(Msgs)
    <3>1. u \in Seq(Msgs) /\ toServer' = u
        BY <1>1, <2>1, <2>2
    <3> HIDE DEF u
    <3> QED
        BY <1>2, <1>4, <3>1, ConcatProperties
  <2>4. Brings(toServer' \o sending', u \o w, closed')
    <3> HIDE DEF u
    <3> QED
        BY <1>1, <1>2, <2>3, BringsAll
  <2>5. Behind(Request(f, arg))'
      BY <1>1, <1>6, <2>4 DEF Behind, Flow, w
  <2>6. AtAsked'
      BY <1>1, <2>5 DEF AtAsked
  <2> QED
      BY <1>2, <1>4, <2>6, PieceStep DEF Phase
<1> QED
    BY <1>5, <1>6 DEF Behind

(* A call that returns.                                                    *)
LEMMA ReturnStep ==
    ASSUME Inv, ~closed, ClientOnly, Quiet, Home \/ at = "deleting", toClient = <<>>, Return,
           arg' \in Nat, acked' \in Nat, Acked'
    PROVE  Inv'
<1>1. /\ toServer' = toServer /\ toClient' = <<>> /\ at' = at /\ reading' = reading
      /\ got' = got /\ closed' = closed /\ closed = FALSE
    BY Unmoved DEF Inv, StreamsOK
<1>2. sending' = <<>> /\ expects' = <<>> /\ cl' = "idle" /\ <<>> \in Seq(Msgs)
    BY EmptySeq DEF Return, Ask
<1>3. toServer' \o sending' = <<>> /\ <<>> \o <<>> = <<>>
    BY <1>1, <1>2, ConcatEmptySeq DEF Quiet
<1>4. Brings(toServer' \o sending', <<>>, closed')
    BY <1>1, <1>2, <1>3, BringsAll
<1>5. at = "deleting" => Fields(reading', arg') = <<>>
  <2> SUFFICES ASSUME at = "deleting" PROVE Fields(reading, arg') = <<>>
      BY <1>1
  <2>1. Len(reading) \in Nat /\ Len(got) \in Nat /\ Len(got) + Len(reading) = Len(Wants(at))
      BY LenProperties DEF Inv, HandlerOK
  <2>2. Len(Wants(at)) = 0
      BY WantsIs
  <2>3. reading = <<>>
      BY <2>1, <2>2, EmptySeq DEF Inv, HandlerOK
  <2> QED
      BY <2>3, FieldsNone
<1>6. Behind(<<>>)'
    BY <1>1, <1>3, <1>4, <1>5 DEF Behind, Flow, Home
<1>7. AtIdle'
    BY <1>1, <1>2, <1>6 DEF AtIdle
<1> QED
    BY <1>2, <1>7, PieceStep DEF Phase

(* Every call of the client begins between two calls.                      *)
LEMMA BeginStep ==
    ASSUME Inv, Begin, ClientOnly, NEW f \in Functions, Ask(Request(f, arg'), <<Answer(f)>>, Place(f)),
           arg' \in Nat, f \in Puts => arg' \in Sizes
    PROVE  Inv'
<1>1. ~closed /\ Phase /\ cl = "idle" /\ sending = <<>> /\ expects = <<>> /\ acked' = acked
    BY PieceAt DEF Begin
<1>2. AtIdle
    BY <1>1, PhaseAt
<1>3. toClient = <<>> /\ Behind(<<>>)
    BY <1>2 DEF AtIdle
<1>4. sending' = Request(f, arg') /\ expects' = <<Answer(f)>> /\ answers' = <<>> /\ cl' = Place(f)
    BY DEF Ask
<1>5. cl' # "stored"
    BY <1>4, PlacesOf
<1>6. acked' \in Nat /\ Acked'
    BY <1>1, <1>5, AckedMoves DEF Inv, StreamsOK
<1> QED
    BY <1>1, <1>3, <1>4, <1>6, AskStep

(* A call asks for f with the fields of f.                                 *)
LEMMA AsksIt ==
    ASSUME NEW n \in Nat
    PROVE  /\ \A f \in {"fileSearch", "fileInit", "fileOpen", "fileClose"} :
                  \A l : Ask(<<Func(f), Path>>, <<"err">>, l) /\ Place(f) = l =>
                             f \in Functions \ Puts /\ Ask(Request(f, n), <<Answer(f)>>, Place(f))
           /\ \A f \in {"fileRead", "fileDelete"} :
                  \A l : Ask(<<Func(f), Path, Pid>>, <<"err">>, l) /\ Place(f) = l =>
                             f \in Functions \ Puts /\ Ask(Request(f, n), <<Answer(f)>>, Place(f))
           /\ \A f \in Puts :
                  \A l : Ask(<<Func(f), Path, Pid, Field("size", n)>>, <<"err">>, l) /\ Place(f) = l =>
                             f \in Functions /\ Ask(Request(f, n), <<Answer(f)>>, Place(f))
           /\ Ask(<<Func("fileNRead"), Field("count", 0)>>, <<"name_len">>, "next") =>
                  Ask(Request("fileNRead", n), <<Answer("fileNRead")>>, Place("fileNRead"))
<1>1. \A f \in {"fileSearch", "fileInit", "fileOpen", "fileClose", "fileRead", "fileDelete"} :
          f \in Functions \ Puts /\ Answer(f) = "err"
    BY DEF Functions, Puts, Answer
<1>2. \A f \in Puts : f \in Functions /\ Answer(f) = "err"
    BY DEF Functions, Puts, Answer
<1>3. Answer("fileNRead") = "name_len" /\ Place("fileNRead") = "next"
    BY DEF Answer, Place
<1> QED
    BY <1>1, <1>2, <1>3, RequestIs

(* openFile: fileSearch and fileInit before fileOpen for O_CREATE.         *)
LEMMA OpenFileStep == ASSUME Inv, openFile PROVE Inv'
<1>0. arg \in Nat /\ ClientOnly /\ arg' = arg
    BY DEF openFile, Inv, StreamsOK
<1>1. CASE Begin
  <2>1. \/ Ask(<<Func("fileSearch"), Path>>, <<"err">>, "search")
        \/ Ask(<<Func("fileOpen"), Path>>, <<"err">>, "open")
      BY <1>1 DEF openFile, Begin, Continue, Ready
  <2>2. Place("fileSearch") = "search" /\ Place("fileOpen") = "open"
      BY DEF Place
  <2>3. \E f \in Functions \ Puts : Ask(Request(f, arg'), <<Answer(f)>>, Place(f))
      BY <1>0, <2>1, <2>2, AsksIt
  <2> QED
      BY <1>0, <1>1, <2>3, BeginStep
<1>2. CASE Continue("search")
  <2>1. ~closed /\ Phase /\ cl = "search" /\ sending = <<>> /\ expects = <<>>
      BY <1>2, PieceAt DEF Continue
  <2>2. AtSearch
      BY <2>1, PhaseAt
  <2>3. Quiet /\ Home /\ toClient = <<>>
      BY <2>1, <2>2 DEF AtSearch, Answered, Tells
  <2>4. acked' = acked /\ acked' \in Nat
      BY <1>2, <2>1 DEF openFile, Continue, Ready, Begin, Inv, StreamsOK
  <2>5. \/ Ask(<<Func("fileInit"), Path>>, <<"err">>, "init") \/ Return
      BY <1>2, <2>1 DEF openFile, Continue, Ready, Begin
  <2>6. CASE Return
    <3>1. Acked'
        BY <1>0, <2>1, <2>4, <2>6, AckedMoves DEF Return, Ask
    <3> QED
        BY <1>0, <2>1, <2>3, <2>4, <2>6, <3>1, ReturnStep
  <2>7. CASE Ask(<<Func("fileInit"), Path>>, <<"err">>, "init")
    <3>1. Place("fileInit") = "init"
        BY DEF Place
    <3>2. "fileInit" \in Functions \ Puts /\ Ask(Request("fileInit", arg'), <<Answer("fileInit")>>, Place("fileInit"))
        BY <1>0, <2>7, <3>1, AsksIt
    <3>3. Behind(<<>>)
      <4>1. toServer \o sending = <<>>
          BY <2>3, ConcatEmptySeq, EmptySeq DEF Quiet
      <4>2. Flow(<<>>)
          BY <2>1, <4>1, FlowIs, EmptySeq DEF Inv
      <4> QED
          BY <2>3, <4>2 DEF Behind, Home
    <3>4. sending' = Request("fileInit", arg') /\ expects' = <<Answer("fileInit")>> /\ answers' = <<>>
          /\ cl' = Place("fileInit")
        BY <3>2 DEF Ask
    <3>5. Acked'
        BY <1>0, <2>1, <2>4, <3>1, <3>4, AckedMoves
    <3> QED
        BY <1>0, <2>1, <2>3, <2>4, <3>2, <3>3, <3>4, <3>5, AskStep
  <2> QED
      BY <2>5, <2>6, <2>7
<1>3. CASE Continue("init")
  <2>1. ~closed /\ Phase /\ cl = "init" /\ sending = <<>> /\ expects = <<>>
      BY <1>3, PieceAt DEF Continue
  <2>2. AtInit
      BY <2>1, PhaseAt
  <2>3. Quiet /\ Home /\ toClient = <<>> /\ (present => size = 0)
      BY <2>1, <2>2 DEF AtInit, Answered, Tells
  <2>4. acked' = 0 /\ acked' \in Nat /\ Ask(<<Func("fileOpen"), Path>>, <<"err">>, "open")
      BY <1>3, <2>1 DEF openFile, Continue, Ready, Begin
  <2>5. Place("fileOpen") = "open"
      BY DEF Place
  <2>6. "fileOpen" \in Functions \ Puts /\ Ask(Request("fileOpen", arg'), <<Answer("fileOpen")>>, Place("fileOpen"))
      BY <1>0, <2>4, <2>5, AsksIt
  <2>7. Behind(<<>>)
    <3>1. toServer \o sending = <<>>
        BY <2>3, ConcatEmptySeq, EmptySeq DEF Quiet
    <3>2. Flow(<<>>)
        BY <2>1, <3>1, FlowIs, EmptySeq DEF Inv
    <3> QED
        BY <2>3, <3>2 DEF Behind, Home
  <2>8. sending' = Request("fileOpen", arg') /\ expects' = <<Answer("fileOpen")>> /\ answers' = <<>>
        /\ cl' = Place("fileOpen")
      BY <2>6 DEF Ask
  <2>9. Acked'
    <3>1. present' = present /\ size' = size /\ cl' = "open"
        BY <1>0, <2>5, <2>8, Unmoved
    <3> QED
        BY <2>3, <2>4, <3>1 DEF Acked
  <2> QED
      BY <1>0, <2>1, <2>3, <2>4, <2>6, <2>7, <2>8, <2>9, AskStep
<1> QED
    BY <1>1, <1>2, <1>3 DEF openFile

(* closeFile asks.                                                         *)
LEMMA CloseFileStep == ASSUME Inv, closeFile PROVE Inv'
<1>0. arg \in Nat /\ ClientOnly /\ arg' = arg /\ Begin /\ Ask(<<Func("fileClose"), Path>>, <<"err">>, "open")
    BY DEF closeFile, Inv, StreamsOK
<1>1. Place("fileClose") = "open"
    BY DEF Place
<1>2. "fileClose" \in Functions \ Puts /\ Ask(Request("fileClose", arg'), <<Answer("fileClose")>>, Place("fileClose"))
    BY <1>0, <1>1, AsksIt
<1> QED
    BY <1>0, <1>2, BeginStep

(* The pid that follows the answer of fileOpen and fileClose.              *)
LEMMA SendPidStep == ASSUME Inv, sendPid PROVE Inv'
<1>0. /\ ClientOnly /\ arg' = arg /\ acked' = acked /\ Continue("open")
      /\ sending' = <<Pid>> /\ expects' = <<>> /\ answers' = <<>> /\ cl' = "idle"
    BY DEF sendPid, Ask, pidAfter
<1>1. ~closed /\ Phase /\ cl = "open" /\ sending = <<>> /\ expects = <<>>
    BY <1>0, PieceAt DEF Continue
<1>2. AtOpen
    BY <1>1, PhaseAt
<1>3. Quiet /\ at \in Opening /\ Len(got) = 1 /\ toClient = <<>>
    BY <1>1, <1>2 DEF AtOpen, Answered, Tells
<1>4. arg \in Nat /\ acked \in Nat /\ closed = FALSE
    BY <1>1 DEF Inv, StreamsOK
<1>5. Fields(reading, arg) = <<Pid>> /\ <<Pid>> \in Seq(Msgs)
  <2>1. Len(reading) = 1 /\ reading[1] = "pid" /\ reading \in Seq(Kinds)
    <3>1. Wants(at) = <<"found", "pid">>
        BY <1>3, WantsIs
    <3>2. Len(Wants(at)) = 2 /\ Wants(at)[2] = "pid"
        BY <3>1
    <3>3. Len(reading) \in Nat /\ Len(got) + Len(reading) = 2 /\ reading \in Seq(Kinds)
        BY <3>2, LenProperties DEF Inv, HandlerOK
    <3>4. Len(reading) = 1
      <4>1. 1 + Len(reading) = 2 /\ Len(reading) \in Nat
          BY <1>3, <3>3
      <4>2. \A m \in Nat : 1 + m = 2 => m = 1
          OBVIOUS
      <4> QED
          BY <4>1, <4>2, Zenon
    <3>5. reading[1] = Wants(at)[Len(got) + 1]
        BY <3>4 DEF Inv, HandlerOK
    <3> QED
        BY <1>3, <3>2, <3>3, <3>4, <3>5
  <2>2. Fields(reading, arg) = [k \in 1 .. 1 |-> Asking("pid", arg)]
      BY <2>1 DEF Fields
  <2>3. Asking("pid", arg) = Pid /\ Pid \in Msgs
    <3>1. "pid" \in Kinds
        BY DEF Kinds
    <3>2. Asking("pid", arg) = Pid
        BY DEF Asking, Pid
    <3> QED
        BY <1>4, <3>1, <3>2, AskingType
  <2>4. <<Pid>> \in Seq(Msgs) /\ Len(<<Pid>>) = 1 /\ <<Pid>>[1] = Pid
      BY <2>3, Tuples
  <2>5. Fields(reading, arg) \in Seq(Msgs) /\ Len(Fields(reading, arg)) = 1
      BY <1>4, <2>1, FieldsType
  <2>6. \A k \in 1 .. Len(Fields(reading, arg)) : Fields(reading, arg)[k] = <<Pid>>[k]
    <3>1. \A k \in 1 .. 1 : k = 1
        OBVIOUS
    <3>2. Fields(reading, arg)[1] = Pid
        BY <2>2, <2>3
    <3> QED
        BY <2>4, <2>5, <3>1, <3>2
  <2> QED
      BY <2>4, <2>5, <2>6, SeqEqual
<1>6. /\ toServer' = toServer /\ toClient' = <<>> /\ at' = at /\ reading' = reading
      /\ closed' = closed
    BY <1>0, <1>3, Unmoved
<1> DEFINE u == <<Pid>>
<1>7. u \in Seq(Msgs) /\ sending' = u /\ Fields(reading, arg) = u
    BY <1>0, <1>5
<1> HIDE DEF u
<1>8. toServer' \o sending' = u /\ u \o <<>> = u
    BY <1>3, <1>6, <1>7, ConcatEmptySeq DEF Quiet
<1>9. Brings(toServer' \o sending', u \o <<>>, closed')
    BY <1>4, <1>6, <1>7, <1>8, BringsAll, ZenonT(60)
<1>10. Behind(<<>>)'
    BY <1>0, <1>3, <1>6, <1>7, <1>9 DEF Behind, Flow
<1>11. AtIdle'
    BY <1>0, <1>6, <1>10 DEF AtIdle
<1>12. Acked'
    BY <1>0, <1>1, AckedMoves
<1> QED
    BY <1>0, <1>1, <1>4, <1>7, <1>11, <1>12, PieceStep DEF Phase

(* A call that returns with what it has read.                              *)
LEMMA CallEnds ==
    ASSUME Inv, ClientOnly, UNCHANGED <<arg, acked>>, Return,
           NEW l \in {"search", "remove", "write", "append", "read", "readBytes", "next"}, Ready(l),
           toClient = <<>>, ~(at \in Opening \cup Storing)
    PROVE  Inv'
<1>1. ~closed /\ Phase /\ cl = l /\ sending = <<>> /\ expects = <<>>
    BY PieceAt
<1>2. Quiet /\ (Home \/ at = "deleting")
  <2>1. \/ AtSearch \/ AtRemove \/ AtPut \/ AtRead \/ AtReadBytes \/ AtNext
      BY <1>1, PhaseAt
  <2> QED
      BY <2>1, PhasePlaces
<1>3. arg' \in Nat /\ acked' \in Nat /\ arg' = arg /\ acked' = acked
    BY DEF Inv, StreamsOK
<1>4. cl' # "stored"
    BY DEF Return, Ask
<1>5. Acked'
    BY <1>1, <1>3, <1>4, AckedMoves
<1> QED
    BY <1>1, <1>2, <1>3, <1>5, ReturnStep

(* A call that goes on reading what the handler has sent.                  *)
LEMMA GoesOn ==
    ASSUME Inv, ClientOnly, NEW l \in {"read", "readSize", "next", "nextSize", "nextBytes"}, Ready(l),
           arg' \in Nat, acked' = acked, cl' # "stored", sending' = <<>>, Phase'
    PROVE  Inv'
<1>1. ~closed /\ cl = l
    BY PieceAt
<1>2. acked' \in Nat /\ sending' \in Seq(Msgs)
    BY EmptySeq DEF Inv, StreamsOK
<1>3. Acked'
    BY <1>1, AckedMoves
<1> QED
    BY <1>1, <1>2, <1>3, PieceStep

(* What was sent to the client is there until it is read.                  *)
LEMMA SentStays ==
    ASSUME Inv, ClientOnly, Sent, sending' = <<>>
    PROVE  Sent'
<1>1. /\ toServer' = toServer /\ at' = at /\ got' = got /\ present' = present
      /\ size' = size /\ sent' = sent
    BY Unmoved
<1> QED
    BY <1>1 DEF Sent, Quiet, Home

(* removeFile asks and has its answer.                                     *)
LEMMA RemoveFileStep == ASSUME Inv, removeFile PROVE Inv'
<1>0. arg \in Nat /\ ClientOnly /\ arg' = arg
    BY DEF removeFile, Inv, StreamsOK
<1>1. CASE Begin
  <2>1. Ask(<<Func("fileDelete"), Path, Pid>>, <<"err">>, "remove")
      BY <1>1 DEF removeFile, Begin, Continue, Ready
  <2>2. Place("fileDelete") = "remove"
      BY DEF Place
  <2>3. "fileDelete" \in Functions \ Puts /\ Ask(Request("fileDelete", arg'), <<Answer("fileDelete")>>, Place("fileDelete"))
      BY <1>0, <2>1, <2>2, AsksIt
  <2> QED
      BY <1>0, <1>1, <2>3, BeginStep
<1>2. CASE Continue("remove")
  <2>1. Ready("remove") /\ Return /\ arg' = arg /\ acked' = acked
      BY <1>2 DEF removeFile, Continue, Ready, Begin
  <2>2. AtRemove /\ expects = <<>>
      BY <2>1, PieceAt, PhaseAt
  <2>3. toClient = <<>> /\ (Home \/ at = "deleting")
      BY <2>2 DEF AtRemove, Answered, Tells
  <2>4. ~(at \in Opening \cup Storing)
      BY <2>3 DEF Home, Opening, Storing
  <2> QED
      BY <1>0, <2>1, <2>3, <2>4, CallEnds
<1> QED
    BY <1>1, <1>2 DEF removeFile

(* The answer of fileRead, with the size and the contents behind it.       *)
LEMMA ReadFileStep == ASSUME Inv, readFile PROVE Inv'
<1>0. arg \in Nat /\ ClientOnly
    BY DEF readFile, Announced, Inv, StreamsOK
<1>1. CASE Begin
  <2>1. Ask(<<Func("fileRead"), Path, Pid>>, <<"err">>, "read") /\ arg' = arg
      BY <1>1 DEF readFile, Begin, Continue, Ready
  <2>2. Place("fileRead") = "read"
      BY DEF Place
  <2>3. "fileRead" \in Functions \ Puts /\ Ask(Request("fileRead", arg'), <<Answer("fileRead")>>, Place("fileRead"))
      BY <1>0, <2>1, <2>2, AsksIt
  <2> QED
      BY <1>0, <1>1, <2>1, <2>3, BeginStep
<1>2. CASE Continue("read")
  <2>1. Ready("read") /\ arg' = arg /\ acked' = acked
        /\ IF answers[1] = "ok" THEN Ask(<<>>, <<"size">>, "readSize") ELSE Return
      BY <1>2 DEF readFile, Continue, Ready, Begin
  <2>2. AtRead /\ expects = <<>>
      BY <2>1, PieceAt, PhaseAt
  <2>3. Quiet /\ Home /\ ~(at \in Opening \cup Storing)
      BY <2>2 DEF AtRead, Home, Opening, Storing
  <2>4. CASE \E e \in Errors \ {"ok"} : Answered(e)
    <3>1. PICK e \in Errors \ {"ok"} : Answered(e)
        BY <2>4
    <3>2. toClient = <<>> /\ answers = <<e>>
        BY <2>2, <3>1 DEF Answered, Tells, Error, Field
    <3>3. Return
        BY <2>1, <3>2
    <3> QED
        BY <1>0, <2>1, <2>3, <3>2, <3>3, CallEnds
  <2>5. CASE Sent /\ Tells(Error("ok"), <<Size>> \o Bytes(<<>>))
    <3>1. toClient = <<Size>> \o Bytes(<<>>) /\ answers = <<"ok">>
        BY <2>2, <2>5 DEF Tells, Error, Field
    <3>2. Ask(<<>>, <<"size">>, "readSize")
        BY <2>1, <3>1
    <3>3. sending' = <<>> /\ expects' = <<"size">> /\ answers' = <<>> /\ cl' = "readSize"
        BY <3>2 DEF Ask
    <3>4. Sent' /\ toClient' = toClient /\ Size' = Size /\ Bytes(<<>>)' = Bytes(<<>>)
        BY <1>0, <2>5, <3>3, SentStays, Unmoved
    <3>5. Tells(Size, Bytes(<<>>))'
        BY <3>1, <3>3, <3>4 DEF Tells, Size, Field
    <3>6. AtReadSize'
        BY <3>3, <3>4, <3>5 DEF AtReadSize
    <3> QED
        BY <1>0, <2>1, <3>3, <3>6, GoesOn DEF Phase
  <2> QED
      BY <2>2, <2>4, <2>5 DEF AtRead
<1>3. CASE cl = "readSize" /\ Announced("readSize", answers[1], "readBytes")
  <2>1. Ready("readSize") /\ arg' = answers[1] /\ acked' = acked
        /\ Ask(<<>>, IF answers[1] = 0 THEN <<>> ELSE <<"contents">>, "readBytes")
      BY <1>3 DEF Announced, Continue
  <2>2. AtReadSize /\ expects = <<>>
      BY <2>1, PieceAt, PhaseAt
  <2>3. Sent /\ toClient = Bytes(<<>>) /\ answers = <<size>>
      BY <2>2 DEF AtReadSize, Tells, Size, Field
  <2>4. answers[1] = size
      BY <2>3
  <2>5. arg' = size /\ size \in Nat
        /\ sending' = <<>> /\ cl' = "readBytes" /\ answers' = <<>>
        /\ expects' = IF size = 0 THEN <<>> ELSE <<"contents">>
      BY <2>1, <2>4 DEF Ask, Inv, LayoutOK
  <2>6. Sent' /\ toClient' = toClient /\ size' = size /\ sent' = sent
      BY <1>0, <2>3, <2>5, SentStays, Unmoved
  <2>7. Took(<<>>)'
    <3>1. CASE size = 0
        BY <2>3, <2>5, <2>6, <3>1 DEF Took, Bytes
    <3>2. CASE size # 0
      <4>1. <<Field("contents", sent)>> \o <<>> = toClient
          BY <2>3, <3>2 DEF Bytes
      <4>2. Tells(Field("contents", sent), <<>>)'
          BY <2>5, <2>6, <3>2, <4>1 DEF Tells, Field
      <4> QED
          BY <2>5, <2>6, <3>2, <4>2 DEF Took
    <3> QED
        BY <3>1, <3>2
  <2>8. AtReadBytes'
      BY <2>5, <2>6, <2>7 DEF AtReadBytes
  <2> QED
      BY <1>0, <2>1, <2>5, <2>8, GoesOn DEF Phase
<1>4. CASE Continue("readBytes")
  <2>1. Ready("readBytes") /\ Return /\ arg' = arg /\ acked' = acked
      BY <1>4 DEF readFile, Continue, Ready, Begin
  <2>2. AtReadBytes /\ expects = <<>>
      BY <2>1, PieceAt, PhaseAt
  <2>3. toClient = <<>> /\ Home
      BY <2>2 DEF AtReadBytes, Took, Tells, Sent
  <2>4. ~(at \in Opening \cup Storing)
      BY <2>3 DEF Home, Opening, Storing
  <2> QED
      BY <1>0, <2>1, <2>3, <2>4, CallEnds
<1> QED
    BY <1>1, <1>2, <1>3, <1>4 DEF readFile

(* The names, sizes and contents fileNRead sends, and the end of them.     *)
LEMMA ReadNFilesStep == ASSUME Inv, readNFiles PROVE Inv'
<1>0. arg \in Nat /\ ClientOnly
    BY DEF readNFiles, Announced, Inv, StreamsOK
<1>1. CASE Begin
  <2>1. Ask(<<Func("fileNRead"), Field("count", 0)>>, <<"name_len">>, "next") /\ arg' = arg
      BY <1>1 DEF readNFiles, Begin, Continue, Ready
  <2>2. "fileNRead" \in Functions \ Puts
      BY DEF Functions, Puts
  <2>3. Ask(Request("fileNRead", arg'), <<Answer("fileNRead")>>, Place("fileNRead"))
      BY <1>0, <2>1, AsksIt
  <2> QED
      BY <1>0, <1>1, <2>1, <2>2, <2>3, BeginStep
<1>2. CASE Continue("next")
  <2>1. Ready("next") /\ arg' = arg /\ acked' = acked
        /\ IF answers[1] = "end" THEN Return ELSE Ask(<<>>, <<"name", "size">>, "nextSize")
      BY <1>2 DEF readNFiles, Continue, Ready, Begin
  <2>2. AtNext /\ expects = <<>>
      BY <2>1, PieceAt, PhaseAt
  <2>3. Quiet /\ Home /\ ~(at \in Opening \cup Storing)
      BY <2>2 DEF AtNext, Home, Opening, Storing
  <2>4. CASE Tells(Field("name_len", "end"), <<>>)
    <3>1. toClient = <<>> /\ answers = <<"end">>
        BY <2>2, <2>4 DEF Tells, Field
    <3>2. Return
        BY <2>1, <3>1
    <3> QED
        BY <1>0, <2>1, <2>3, <3>1, <3>2, CallEnds
  <2>5. CASE Sent /\ Tells(Field("name_len", "more"), <<Name, Size>> \o Bytes(End))
    <3>1. toClient = <<Name, Size>> \o Bytes(End) /\ answers = <<"more">>
        BY <2>2, <2>5 DEF Tells, Field
    <3>2. Ask(<<>>, <<"name", "size">>, "nextSize")
        BY <2>1, <3>1
    <3>3. sending' = <<>> /\ expects' = <<"name", "size">> /\ answers' = <<>> /\ cl' = "nextSize"
        BY <3>2 DEF Ask
    <3>4. Sent' /\ toClient' = toClient /\ Size' = Size /\ Bytes(End)' = Bytes(End)
        BY <1>0, <2>5, <3>3, SentStays, Unmoved
    <3>5. AtNextSize'
        BY <3>1, <3>3, <3>4 DEF AtNextSize, Name
    <3> QED
        BY <1>0, <2>1, <3>3, <3>5, GoesOn DEF Phase
  <2> QED
      BY <2>2, <2>4, <2>5 DEF AtNext
<1>3. CASE cl = "nextSize" /\ Announced("nextSize", answers[2], "nextBytes")
  <2>1. Ready("nextSize") /\ arg' = answers[2] /\ acked' = acked
        /\ Ask(<<>>, IF answers[2] = 0 THEN <<>> ELSE <<"contents">>, "nextBytes")
      BY <1>3 DEF Announced, Continue
  <2>2. AtNextSize /\ expects = <<>>
      BY <2>1, PieceAt, PhaseAt
  <2>3. Sent /\ toClient = Bytes(End) /\ answers = <<"ours", size>>
      BY <2>2 DEF AtNextSize
  <2>4. answers[2] = size
      BY <2>3
  <2>5. arg' = size /\ size \in Nat
        /\ sending' = <<>> /\ cl' = "nextBytes" /\ answers' = <<>>
        /\ expects' = IF size = 0 THEN <<>> ELSE <<"contents">>
      BY <2>1, <2>4 DEF Ask, Inv, LayoutOK
  <2>6. Sent' /\ toClient' = toClient /\ size' = size /\ sent' = sent
      BY <1>0, <2>3, <2>5, SentStays, Unmoved
  <2>7. Took(End)'
    <3>1. CASE size = 0
        BY <2>3, <2>5, <2>6, <3>1 DEF Took, Bytes, End
    <3>2. CASE size # 0
      <4>1. <<Field("contents", sent)>> \o End = toClient
          BY <2>3, <3>2 DEF Bytes
      <4>2. Tells(Field("contents", sent), End)'
          BY <2>5, <2>6, <3>2, <4>1 DEF Tells, Field, End
      <4> QED
          BY <2>5, <2>6, <3>2, <4>2 DEF Took
    <3> QED
        BY <3>1, <3>2
  <2>8. AtNextBytes'
      BY <2>5, <2>6, <2>7 DEF AtNextBytes
  <2> QED
      BY <1>0, <2>1, <2>5, <2>8, GoesOn DEF Phase
<1>4. CASE Continue("nextBytes")
  <2>1. Ready("nextBytes") /\ arg' = arg /\ acked' = acked
        /\ Ask(<<>>, <<"name_len">>, "next")
      BY <1>4 DEF readNFiles, Continue, Ready, Begin
  <2>2. AtNextBytes /\ expects = <<>>
      BY <2>1, PieceAt, PhaseAt
  <2>3. toClient = End /\ Sent
      BY <2>2 DEF AtNextBytes, Took, Tells
  <2>4. sending' = <<>> /\ expects' = <<"name_len">> /\ answers' = <<>> /\ cl' = "next"
      BY <2>1 DEF Ask
  <2>5. Sent' /\ toClient' = toClient
      BY <1>0, <2>3, <2>4, SentStays, Unmoved
  <2>6. NoName \in Told /\ End = <<NoName>> /\ Field("name_len", "end") = NoName
      BY DEF End, NoName, Told
  <2>7. <<NoName>> \o <<>> = <<NoName>>
    <3>1. <<NoName>> \in Seq(Told)
        BY <2>6, Tuples
    <3> QED
        BY <3>1, ConcatEmptySeq
  <2>8. Tells(NoName, <<>>)'
    <3>1. toClient' = <<NoName>> \o <<>>
        BY <2>3, <2>5, <2>6, <2>7
    <3> QED
        BY <2>4, <3>1 DEF Tells, NoName, Field
  <2>9. AtNext'
      BY <2>4, <2>5, <2>6, <2>8 DEF AtNext, Sent
  <2> QED
      BY <1>0, <2>1, <2>4, <2>9, GoesOn DEF Phase
<1> QED
    BY <1>1, <1>2, <1>3, <1>4 DEF readNFiles

(* writeFile and appendToFile ask.                                         *)
LEMMA PutAskStep ==
    ASSUME Inv, NEW f \in Puts, NEW n \in Sizes, Put(f, Place(f), n)
    PROVE  Inv'
<1>1. n \in Nat /\ arg' = n /\ ClientOnly /\ Begin
      /\ Ask(<<Func(f), Path, Pid, Field("size", n)>>, <<"err">>, Place(f))
    BY ProtocolAssumption DEF Put
<1>2. f \in Functions /\ Ask(Request(f, arg'), <<Answer(f)>>, Place(f))
    BY <1>1, AsksIt
<1> QED
    BY <1>1, <1>2, BeginStep

(* What is left to read of a write that was accepted.                      *)
LEMMA ContentsLeft ==
    ASSUME HandlerOK, at \in Storing, Len(got) = 1, arg \in Nat
    PROVE  /\ Fields(reading, arg) = <<Field("contents", arg)>>
           /\ <<Field("contents", arg)>> \in Seq(Msgs)
<1> DEFINE x == Field("contents", arg)
<1>1. Len(reading) = 1 /\ reading[1] = "contents" /\ reading \in Seq(Kinds)
  <2>1. Wants(at) = <<"size", "contents">>
      BY WantsIs
  <2>2. Len(Wants(at)) = 2 /\ Wants(at)[2] = "contents"
      BY <2>1
  <2>3. Len(reading) \in Nat /\ Len(got) + Len(reading) = 2 /\ reading \in Seq(Kinds)
      BY <2>2, LenProperties DEF HandlerOK
  <2>4. Len(reading) = 1
    <3>1. 1 + Len(reading) = 2 /\ Len(reading) \in Nat
        BY <2>3
    <3>2. \A m \in Nat : 1 + m = 2 => m = 1
        OBVIOUS
    <3> QED
        BY <3>1, <3>2, Zenon
  <2>5. reading[1] = Wants(at)[Len(got) + 1]
      BY <2>4 DEF HandlerOK
  <2> QED
      BY <2>2, <2>3, <2>4, <2>5
<1>2. Fields(reading, arg) = [k \in 1 .. 1 |-> Asking("contents", arg)]
    BY <1>1 DEF Fields
<1>3. Asking("contents", arg) = x /\ x \in Msgs
  <2>1. "contents" \in Kinds
      BY DEF Kinds
  <2>2. Asking("contents", arg) = x
      BY DEF Asking
  <2> QED
      BY <2>1, <2>2, AskingType
<1>4. Fields(reading, arg) \in Seq(Msgs) /\ Len(Fields(reading, arg)) = 1
    BY <1>1, FieldsType
<1>5. Fields(reading, arg)[1] = x
    BY <1>2, <1>3
<1> HIDE DEF x
<1>6. <<x>> \in Seq(Msgs) /\ Len(<<x>>) = 1 /\ <<x>>[1] = x
    BY <1>3, Tuples
<1>7. \A k \in 1 .. Len(Fields(reading, arg)) : Fields(reading, arg)[k] = <<x>>[k]
  <2>1. \A k \in 1 .. 1 : k = 1
      OBVIOUS
  <2> QED
      BY <1>4, <1>5, <1>6, <2>1
<1>8. Fields(reading, arg) = <<x>>
    BY <1>4, <1>6, <1>7, SeqEqual
<1> QED
    BY <1>6, <1>8 DEF x

(* The contents follow an answer that is not an error.                     *)
LEMMA PutAnsweredStep ==
    ASSUME Inv, NEW l \in {"write", "append"}, PutAnswered(l)
    PROVE  Inv'
<1>0. /\ Ready(l) /\ ClientOnly /\ arg' = arg /\ acked' = acked
      /\ IF answers[1] = "ok" THEN Ask(<<Field("contents", arg)>>, <<"response">>, "stored") ELSE Return
    BY DEF PutAnswered, Continue
<1>1. ~closed /\ Phase /\ cl = l /\ sending = <<>> /\ expects = <<>>
    BY <1>0, PieceAt
<1>2. AtPut
    BY <1>1, PhaseAt
<1>3. CASE Home /\ \E e \in Errors \ {"ok"} : Answered(e)
  <2>1. PICK e \in Errors \ {"ok"} : Answered(e)
      BY <1>3
  <2>2. toClient = <<>> /\ answers = <<e>>
      BY <1>1, <2>1 DEF Answered, Tells, Error, Field
  <2>3. Return
      BY <1>0, <2>2
  <2>4. ~(at \in Opening \cup Storing)
      BY <1>3 DEF Home, Opening, Storing
  <2> QED
      BY <1>0, <2>2, <2>3, <2>4, CallEnds
<1>4. CASE /\ at \in Storing /\ Len(got) = 1 /\ got[1] = arg /\ arg \in Sizes
           /\ present /\ Answered("ok")
  <2>1. toClient = <<>> /\ answers = <<"ok">> /\ toServer = <<>>
      BY <1>1, <1>2, <1>4 DEF Answered, Tells, Error, Field, AtPut, Quiet
  <2>2. sending' = <<Field("contents", arg)>> /\ expects' = <<"response">> /\ cl' = "stored"
      BY <1>0, <2>1 DEF Ask
  <2>3. /\ toServer' = <<>> /\ toClient' = <<>> /\ at' = at /\ reading' = reading /\ got' = got
        /\ present' = present /\ closed' = closed /\ size' = size
      BY <1>0, <2>1, Unmoved
  <2>4. /\ Fields(reading, arg) = <<Field("contents", arg)>>
        /\ <<Field("contents", arg)>> \in Seq(Msgs) /\ arg \in Nat
      BY <1>4, ContentsLeft DEF Inv, StreamsOK
  <2> DEFINE u == <<Field("contents", arg)>>
  <2>5. u \in Seq(Msgs) /\ sending' = u /\ Fields(reading, arg) = u
      BY <2>2, <2>4
  <2> HIDE DEF u
  <2>6. toServer' \o sending' = u /\ closed = FALSE
      BY <1>1, <2>3, <2>5, ConcatEmptySeq DEF Inv, StreamsOK
  <2>7. Brings(toServer' \o sending', u, closed')
      BY <2>3, <2>5, <2>6, BringsAll, ZenonT(60)
  <2>8. Flow(Fields(reading, arg))'
      BY <1>0, <2>3, <2>5, <2>7 DEF Flow
  <2>9. AtStored'
      BY <1>0, <1>4, <2>2, <2>3, <2>8 DEF AtStored
  <2>10. Acked'
    <3>1. at # "func" /\ cl \notin {"init", "closed", "stored"}
        BY <1>1, <1>4 DEF Storing
    <3>2. present => size = acked + 0
        BY <3>1 DEF Inv, Acked
    <3> QED
        BY <1>0, <2>2, <2>3, <3>1, <3>2 DEF Acked
  <2>11. arg' \in Nat /\ acked' \in Nat
      BY <1>0 DEF Inv, StreamsOK
  <2> QED
      BY <1>0, <1>1, <2>5, <2>9, <2>10, <2>11, PieceStep DEF Phase
<1> QED
    BY <1>2, <1>3, <1>4 DEF AtPut

(* writeFile and appendToFile ask, and go on with the answer.              *)
LEMMA WriteFileStep == ASSUME Inv, writeFile \/ appendToFile PROVE Inv'
<1>1. Place("fileWrite") = "write" /\ Place("fileAppend") = "append" /\ Puts = {"fileWrite", "fileAppend"}
    BY DEF Place, Puts
<1>2. \/ \E f \in Puts, n \in Sizes : Put(f, Place(f), n)
      \/ \E l \in {"write", "append"} : PutAnswered(l)
    BY <1>1 DEF writeFile, appendToFile
<1> QED
    BY <1>2, PutAskStep, PutAnsweredStep

(* The response: the bytes are acknowledged.                               *)
LEMMA PutDoneStep == ASSUME Inv, putDone PROVE Inv'
<1>0. Ready("stored") /\ Return /\ ClientOnly /\ arg' = arg /\ acked' = acked + arg
    BY DEF putDone, Continue
<1>1. ~closed /\ Phase /\ cl = "stored" /\ sending = <<>> /\ expects = <<>>
    BY <1>0, PieceAt
<1>2. AtStored
    BY <1>1, PhaseAt
<1>3. Quiet /\ Home /\ toClient = <<>>
    BY <1>1, <1>2 DEF AtStored
<1>4. arg' \in Nat /\ acked' \in Nat
    BY <1>0 DEF Inv, StreamsOK
<1>5. Acked'
  <2>1. present => size = acked + arg
      BY <1>1, <1>3 DEF Inv, Acked, Home
  <2>2. present' = present /\ size' = size /\ cl' = "idle"
      BY <1>0, Unmoved DEF Return, Ask
  <2>3. size = acked + arg => size' = acked' + 0
    <3>1. acked + arg \in Nat
        BY <1>0, <1>4
    <3> QED
        BY <1>0, <2>2, <3>1
  <2> QED
      BY <2>1, <2>2, <2>3 DEF Acked
<1> QED
    BY <1>0, <1>1, <1>3, <1>4, <1>5, ReturnStep

-----------------------------------------------------------------------------
(* The end of the connection.                                              *)

(* A beginning of u is a beginning of u and more.                          *)
LEMMA BringsMore ==
    ASSUME NEW S, NEW s \in Seq(S), NEW u \in Seq(S), NEW t \in Seq(S), NEW p \in BOOLEAN,
           Brings(s, u, p)
    PROVE  Brings(s, u \o t, TRUE)
<1>1. /\ Len(s) \in Nat /\ Len(t) \in Nat /\ Len(u) \in Nat
      /\ Len(u \o t) = Len(u) + Len(t)
      /\ \A k \in 1 .. Len(u) + Len(t) : (u \o t)[k] = IF k <= Len(u) THEN u[k] ELSE t[k - Len(u)]
    BY LenProperties, ConcatProperties
<1>2. Len(s) <= Len(u) /\ \A k \in 1 .. Len(s) : s[k] = u[k]
    BY DEF Brings
<1>3. Len(s) <= Len(u \o t)
    BY <1>1, <1>2
<1>4. \A k \in 1 .. Len(s) : s[k] = (u \o t)[k]
    BY <1>1, <1>2
<1> QED
    BY <1>3, <1>4 DEF Brings

(* What a client has not sent when it closes is never sent.                *)
LEMMA CutShort ==
    ASSUME Inv, toServer' = toServer, sending' = <<>>, closed' = TRUE, NEW w \in Seq(Msgs), Flow(w)
    PROVE  Brings(toServer' \o sending', w, closed')
<1>1. toServer \in Seq(Msgs) /\ sending \in Seq(Msgs) /\ closed \in BOOLEAN
    BY DEF Inv, StreamsOK
<1>2. Brings(toServer, w, TRUE)
  <2>1. Brings(toServer \o sending, w, closed)
      BY DEF Flow
  <2>2. /\ Len(toServer \o sending) <= Len(w)
        /\ \A k \in 1 .. Len(toServer \o sending) : (toServer \o sending)[k] = w[k]
      BY <2>1 DEF Brings
  <2>3. Brings(toServer \o sending, w, TRUE)
      BY <2>2 DEF Brings
  <2> QED
      BY <1>1, <2>3, BringsPart
<1>3. toServer' \o sending' = toServer
    BY <1>1, ConcatEmptySeq
<1> QED
    BY <1>2, <1>3

(* Wherever the client stands in its call, the handler has the rest of     *)
(* what was sent before it, and then the end of the stream.                *)
LEMMA CloseStep ==
    ASSUME Inv, Close, EndsOK'
    PROVE  Inv'
<1>0. /\ ~closed /\ closed' = TRUE /\ toClient' = <<>> /\ sending' = <<>> /\ expects' = <<>>
      /\ cl' = "closed" /\ toServer' = toServer /\ arg' = arg /\ acked' = acked
      /\ at' = at /\ reading' = reading /\ got' = got /\ present' = present /\ opens' = opens
      /\ spoiled' = spoiled /\ status' = status /\ UNCHANGED layoutVars
    BY DEF Close, Ask, serverVars
<1>1. Phase /\ arg \in Nat /\ HandlerOK /\ <<>> \in Seq(Msgs)
    BY <1>0, EmptySeq DEF Inv, StreamsOK
<1>2. Gone'
  <2>1. CASE Quiet
      BY <1>0, <2>1 DEF Gone, Quiet
  <2>2. CASE AtIdle
    <3>1. CASE at = "func" /\ got = <<>> /\ Flow(<<>>)
      <4>1. toServer = <<>>
          BY <3>1, FlowNone DEF Inv
      <4> QED
          BY <1>0, <4>1 DEF Gone
    <3>2. CASE at \in Opening \cup {"deleting"} /\ Flow(Fields(reading, arg) \o <<>>)
      <4> DEFINE f == "fileNRead"
                 u == Fields(reading, arg)
                 r == Request(f, arg)
      <4>1. u \in Seq(Msgs) /\ r \in Seq(Msgs) /\ f \in Functions \ Puts
        <5>1. f \in Functions \ Puts
            BY DEF Functions, Puts
        <5> QED
            BY <1>1, <5>1, ReadingType, RequestType
      <4>2. Flow(u)
        <5> HIDE DEF u
        <5>1. u \o <<>> = u
            BY <4>1, ConcatEmptySeq
        <5> QED
            BY <3>2, <5>1 DEF u
      <4>3. Brings(toServer' \o sending', u \o r, closed')
        <5> HIDE DEF u, r
        <5>1. Brings(toServer' \o sending', u, closed')
            BY <1>0, <4>1, <4>2, CutShort
        <5>2. toServer' \o sending' \in Seq(Msgs)
            BY <1>0, ConcatEmptySeq DEF Inv, StreamsOK
        <5> QED
            BY <1>0, <4>1, <5>1, <5>2, BringsMore
      <4>4. Behind(Request("fileNRead", arg))'
          BY <1>0, <3>2, <4>3 DEF Behind, Flow
      <4>5. \E g \in Functions : (g \in Puts => arg' \in Sizes) /\ Behind(Request(g, arg))'
          BY <4>1, <4>4
      <4> QED
          BY <1>0, <4>5 DEF Gone
    <3> QED
        BY <2>2, <3>1, <3>2 DEF AtIdle, Behind
  <2>3. CASE AtAsked
    <3>1. PICK f \in Functions : (f \in Puts => arg \in Sizes) /\ (Behind(Request(f, arg)) \/ Reads(f))
        BY <2>3 DEF AtAsked
    <3>2. /\ Request(f, arg) \in Seq(Msgs) /\ Fields(reading, arg) \in Seq(Msgs)
          /\ Fields(Asked(f), arg) \in Seq(Msgs)
          /\ Fields(reading, arg) \o Request(f, arg) \in Seq(Msgs)
      <4>1. Request(f, arg) \in Seq(Msgs) /\ Fields(Asked(f), arg) \in Seq(Msgs)
          BY <1>1, RequestType, AskedType, FieldsType
      <4>2. Fields(reading, arg) \in Seq(Msgs)
          BY <1>1, ReadingType
      <4> QED
          BY <4>1, <4>2, ConcatProperties
    <3>3. Behind(Request(f, arg)) => Behind(Request(f, arg))'
        BY <1>0, <3>2, CutShort DEF Behind, Flow
    <3>4. Reads(f) => Reads(f)'
        BY <1>0, <3>2, CutShort DEF Reads, Flow
    <3> QED
        BY <1>0, <3>1, <3>3, <3>4 DEF Gone
  <2>4. CASE AtStored /\ ~Quiet
    <3>1. at \in Storing /\ Flow(Fields(reading, arg))
        BY <2>4 DEF AtStored
    <3>2. Fields(reading, arg) \in Seq(Msgs)
        BY <1>1, ReadingType
    <3>3. Flow(Fields(reading, arg))'
        BY <1>0, <3>1, <3>2, CutShort DEF Flow
    <3> QED
        BY <1>0, <3>1, <3>3 DEF Gone
  <2> QED
      BY <1>1, <2>1, <2>2, <2>3, <2>4, PhasePlaces DEF Phase
<1>3. LayoutOK'
    BY <1>0, SameLayout DEF Inv
<1>4. StreamsOK'
    BY <1>0, <1>1 DEF Inv, StreamsOK
<1>5. HandlerOK'
    BY <1>0 DEF Inv, HandlerOK
<1>6. Acked'
    BY <1>0 DEF Acked
<1> QED
    BY <1>0, <1>2, <1>3, <1>4, <1>5, <1>6 DEF Inv

(* Only a client that dies in a call leaves an answer unread.              *)
LEMMA EndsStep == ASSUME Inv, Ends PROVE Inv'
<1>1. Close /\ status = "running" /\ ~closed /\ reset' = (toClient # <<>>) /\ status' = status
    BY DEF Ends, closeConnection, Die, Close, Running
<1>2. Phase
    BY <1>1 DEF Inv
<1>3. cl = "idle" => toClient = <<>>
  <2> SUFFICES ASSUME cl = "idle" PROVE toClient = <<>>
      OBVIOUS
  <2>1. AtIdle
    <3>1. ~AtAsked
        BY PhasePlaces, PlacesOf
    <3> QED
        BY <1>2, <3>1, PhasePlaces DEF Phase
  <2> QED
      BY <2>1 DEF AtIdle
<1>4. reset' => cut'
  <2>1. CASE closeConnection
      BY <1>1, <1>3, <2>1 DEF closeConnection, Ready
  <2>2. CASE Die
      BY <1>1, <1>3, <2>2 DEF Die
  <2> QED
      BY <2>1, <2>2 DEF Ends
<1>5. EndsOK'
    BY <1>1, <1>4 DEF EndsOK
<1> QED
    BY <1>1, <1>5, CloseStep

-----------------------------------------------------------------------------
(* The invariant.                                                          *)

(* A field, or the end of the stream.                                      *)
LEMMA ReadRequestStep == ASSUME Inv, readRequest PROVE Inv'
    BY FieldReadStep, EndReadStep

(* Everything starts between two calls.                                    *)
LEMMA InitSync == Init => Inv
<1> SUFFICES ASSUME Init PROVE Inv
    OBVIOUS
<1>1. StreamsOK
  <2>1. <<>> \in Seq(Msgs) /\ 0 \in Nat /\ 0 \in Int
      BY EmptySeq
  <2>2. /\ toServer = <<>> /\ sending = <<>> /\ arg = 0 /\ acked = 0 /\ opens = 0
        /\ present = FALSE /\ closed = FALSE /\ spoiled = FALSE
      BY DEF Init
  <2>3. present \in BOOLEAN /\ closed \in BOOLEAN /\ spoiled \in BOOLEAN
      BY <2>2
  <2> QED
      BY <2>1, <2>2, <2>3 DEF StreamsOK
<1>2. HandlerOK
  <2>1. <<"func">> \in Seq(Kinds) /\ Len(<<"func">>) = 1 /\ <<"func">>[1] = "func"
      BY Tuples DEF Kinds
  <2>2. got \in Seq(Values) /\ Len(got) = 0 /\ at = "func" /\ reading = <<"func">> /\ got = <<>>
      BY EmptySeq DEF Init
  <2>3. Wants(at) = <<"func">>
      BY <2>2, WantsIs
  <2>4. \A k \in 1 .. Len(reading) : reading[k] = Wants(at)[Len(got) + k]
    <3>1. \A k \in 1 .. 1 : k = 1
        OBVIOUS
    <3> QED
        BY <2>1, <2>2, <2>3, <3>1
  <2>5. at \in Places /\ at \notin Opening /\ at \notin Storing /\ at \notin Puts
      BY <2>2 DEF Places, Opening, Storing, Puts
  <2> QED
      BY <2>1, <2>2, <2>3, <2>4, <2>5 DEF HandlerOK
<1>3. ~closed /\ Phase
  <2>1. toServer \o sending = <<>>
      BY ConcatEmptySeq, EmptySeq DEF Init
  <2>2. Flow(<<>>)
      BY <1>1, <2>1, FlowIs, EmptySeq DEF Init
  <2>3. AtIdle
      BY <2>2 DEF Init, AtIdle, Behind
  <2> QED
      BY <2>3 DEF Init, Phase
<1>4. Acked /\ EndsOK
    BY DEF Init, Acked, EndsOK
<1>5. LayoutOK
  <2>1. size = 0 /\ pages_n = 0 /\ edge = FALSE
      BY DEF Init, LayoutInit
  <2>2. pagesFor(0) = 0
      BY PageLayoutAssumption, PagesFor
  <2>3. \A k \in 0 .. pages_n - 1 : Holds(k)
      BY <2>1
  <2> QED
      BY <2>1, <2>2, <2>3 DEF LayoutOK
<1> QED
    BY <1>1, <1>2, <1>3, <1>4, <1>5 DEF Inv

(* Every step keeps it, until one spoils an answer.                        *)
LEMMA SyncStep == SyncInv /\ [Next]_vars => SyncInv'
<1> SUFFICES ASSUME SyncInv, [Next]_vars, ~spoiled' PROVE Inv'
    BY DEF SyncInv
<1>1. ~spoiled
  <2>1. CASE UNCHANGED vars
      BY <2>1 DEF vars, endVars
  <2>2. CASE Next
      BY <2>2 DEF Next, Client, Ends, Handlers, Calls, OutOfStep, otherClient,
                  sendToSocket, readAnswer, openFile, closeFile, sendPid, writeFile, appendToFile,
                  Put, PutAnswered, putDone, removeFile, readFile, readNFiles, readNFilesFails,
                  Announced, closeConnection, Die, Close, ClientOnly, ServerOnly, Sends, Refuses,
                  readRequest, clientReadReq, connectionClosed, fileSearch, fileInit, fileOpen,
                  fileClose, AnswerFirst, Opens, fileRead, fileNRead, fileDelete, fileWrite,
                  fileAppend, Stores, Respond, endVars
  <2> QED
      BY <2>1, <2>2
<1>2. Inv
    BY <1>1 DEF SyncInv
<1>3. CASE UNCHANGED vars
  <2>1. UNCHANGED <<layoutVars, streams, clientVars, serverVars, endVars>> /\ status' = status
      BY <1>3 DEF vars
  <2>2. EndsOK'
      BY <1>2, <2>1 DEF Inv, EndsOK, endVars
  <2> QED
      BY <1>2, <2>1, <2>2, StatusStep
<1>4. CASE sendToSocket
    BY <1>2, <1>4, SendStep
<1>5. CASE readAnswer
    BY <1>2, <1>5, ReadAnswerStep
<1>6. CASE Calls
  <2>1. ~readNFilesFails
      BY DEF readNFilesFails
  <2> QED
      BY <1>2, <1>6, <2>1, OpenFileStep, CloseFileStep, SendPidStep, WriteFileStep, PutDoneStep,
         RemoveFileStep, ReadFileStep, ReadNFilesStep DEF Calls
<1>7. CASE Ends
    BY <1>2, <1>7, EndsStep
<1>8. CASE Handlers
  <2>1. fileOpen \/ fileClose => Inv'
    <3>1. opens \in Int
        BY <1>2 DEF Inv, StreamsOK
    <3>2. (IF opens = 0 THEN 0 ELSE opens - 1) \in Int /\ opens + 1 \in Int
        BY <3>1
    <3>3. fileOpen => Inv'
        BY <1>2, <3>2, AnswerFirstStep, OpensStep DEF fileOpen, Opening
    <3>4. fileClose => Inv'
        BY <1>2, <3>2, AnswerFirstStep, OpensStep DEF fileClose, Opening
    <3> QED
        BY <3>3, <3>4
  <2> QED
      BY <1>2, <1>8, <2>1, ReadRequestStep, RequestStep, ConnectionClosedStep, SearchStep, InitStep,
         ReadStep, NReadStep, DeleteStep, WriteStep, AppendStep DEF Handlers
<1>9. CASE otherClient
    BY <1>2, <1>9, OtherStep
<1>10. CASE OutOfStep
    BY <1>2, <1>10, ServerInStep, ClientInStep DEF OutOfStep
<1> QED
    BY <1>3, <1>4, <1>5, <1>6, <1>7, <1>8, <1>9, <1>10 DEF Next, Client

(* Until an answer is spoiled, the two sides are where Phase says.         *)
THEOREM SyncTheorem == Spec => []SyncInv
<1>1. Init => SyncInv
    BY InitSync DEF SyncInv
<1> QED
    BY <1>1, SyncStep, PTL DEF Spec

-----------------------------------------------------------------------------
(* The properties.                                                         *)

(* Between two calls nothing is left in the socket, and no side ever reads *)
(* a field for another one, while every answer has the bytes it announced: *)
(* calls and handlers agree on what follows every answer, refusals and the *)
(* pid after fileOpen and fileClose included.                              *)
THEOREM StaysInStep == Spec => []InStep
<1>1. SyncInv => InStep
  <2> SUFFICES ASSUME Inv PROVE status # "outOfStep" /\ (Ready("idle") => toClient = <<>>)
      BY DEF SyncInv, InStep
  <2>1. Ready("idle") => toClient = <<>>
    <3> SUFFICES ASSUME Ready("idle") PROVE toClient = <<>>
        OBVIOUS
    <3>1. Phase /\ cl = "idle" /\ expects = <<>>
        BY PieceAt
    <3> QED
        BY <3>1, PhaseAt DEF AtIdle
  <2> QED
      BY <2>1 DEF Inv, EndsOK
<1> QED
    BY <1>1, SyncTheorem, PTL

(* What writeFile and appendToFile have reported as stored is the size the *)
(* file has between two calls.                                             *)
THEOREM StoresWhatItSaid == Spec => []AckedStored
<1>1. SyncInv => AckedStored
  <2> SUFFICES ASSUME Inv, Ready("idle"), present PROVE size = acked
      BY DEF SyncInv, AckedStored
  <2>1. cl = "idle" /\ acked \in Nat
      BY DEF Ready, Inv, StreamsOK
  <2>2. size = acked + 0
      BY <2>1 DEF Inv, Acked
  <2> QED
      BY <2>1, <2>2
<1> QED
    BY <1>1, SyncTheorem, PTL

(* readFile and readNFiles return the bytes that were written and appended *)
(* in order and all of them, for every size of a page and of an append, as *)
(* long as no append met the edge of a page.                               *)
THEOREM ReadsWhatWasWritten == Spec => []ReadBack
<1>1. SyncInv => ReadBack
  <2> SUFFICES ASSUME Inv, NEW l \in {"readBytes", "nextBytes"}, Ready(l), ~edge
               PROVE  (IF arg = 0 THEN <<>> ELSE answers[1]) = [k \in 1 .. acked |-> k]
      BY DEF SyncInv, ReadBack
  <2>1. Phase /\ cl = l /\ expects = <<>>
      BY PieceAt
  <2>2. Sent /\ (Took(<<>>) \/ Took(End))
      BY <2>1, PhaseAt DEF AtReadBytes, AtNextBytes
  <2>3. arg = size /\ (size # 0 => answers = <<sent>>)
      BY <2>1, <2>2 DEF Took, Tells, Field
  <2>4. size = acked /\ size \in Nat
    <3>1. size = acked + 0 /\ acked \in Nat /\ size \in Nat
        BY <2>1, <2>2 DEF Sent, Inv, Acked, StreamsOK, LayoutOK
    <3> QED
        BY <3>1
  <2>5. CASE size = 0
    <3>1. [k \in 1 .. 0 |-> k] = <<>>
        OBVIOUS
    <3> QED
        BY <2>3, <2>4, <2>5, <3>1
  <2>6. CASE size # 0
    <3>1. sent = [k \in 1 .. size |-> k]
        BY SentIs DEF Inv
    <3>2. answers[1] = sent
        BY <2>3, <2>6
    <3> QED
        BY <2>3, <2>4, <2>6, <3>1, <3>2
  <2> QED
      BY <2>5, <2>6
<1> QED
    BY <1>1, SyncTheorem, PTL

(* Only a client that dies in the middle of a call can leave the server a  *)
(* reset to take for a request.                                            *)
THEOREM EndsAsAnEnd == Spec => []ClosesCleanly
<1>1. SyncInv => ClosesCleanly
    BY DEF SyncInv, ClosesCleanly, Inv, EndsOK
<1> QED
    BY <1>1, SyncTheorem, PTL

=============================================================================
