----------------------------- MODULE PageLayout -----------------------------
(***************************************************************************)
(* The bytes of one file in the pages of the memory: where fileWrite and   *)
(* fileAppend (workerFunctions.c) put them through addPageToMem, and which *)
(* bytes sendFile reads back.  A byte is the position at which it belongs  *)
(* in the file; pages are not cleared when they are given to a file, so a  *)
(* byte nobody wrote is Stale.  Requests run with the record locked, one   *)
(* after the other.                                                        *)
(***************************************************************************)
EXTENDS Integers, Sequences

CONSTANTS
    page_size,      \* c_page_size
    memory_size     \* c_server_memory_size

ASSUME PageLayoutAssumption ==
    /\ page_size \in Nat \ {0}
    /\ memory_size \in Nat \ {0}

VARIABLES
    size, pages_n,  \* the fields of MemFile
    page,           \* page[i]: the contents of the page with index pages[i]
    edge            \* an append has met the end of a page (see MeetsEdge)

layoutVars == <<size, pages_n, page, edge>>

Stale == 0
Offsets == 0 .. page_size - 1

LayoutInit ==
    /\ size = 0
    /\ pages_n = 0
    /\ page = <<>>
    /\ edge = FALSE

(* addPageToMem: n bytes, those of the file from first on, at offset at;   *)
(* refused when they do not fit in the page.                               *)
addPageToMem(contents, first, n, at) ==
    IF n > page_size - at THEN contents ELSE
    [j \in Offsets |-> IF at <= j /\ j < at + n THEN first + j - at ELSE contents[j]]

Blank == [j \in Offsets |-> Stale]

(* filePagesInitialize: full pages, and a partial one if need be.          *)
pagesFor(n) == (n \div page_size) + (IF n % page_size > 0 THEN 1 ELSE 0)

(* pageListCreate: the pages of the whole memory.  A file that needs more  *)
(* waits in pageGet for ever.                                              *)
page_num == memory_size \div page_size

(* How much of the last page fileWrite writes and sendFile sends.          *)
lastPage(n) == IF n % page_size = 0 THEN page_size ELSE n % page_size

(* fileWrite of a file that has no pages.                                  *)
writeBytes(n) ==
    /\ pages_n = 0
    /\ n <= memory_size
    /\ pagesFor(n) <= page_num
    /\ size' = n
    /\ pages_n' = pagesFor(n)
    /\ page' = [i \in 0 .. pages_n' - 1 |->
                   addPageToMem(Blank, i * page_size + 1,
                                IF i < pages_n' - 1 THEN page_size ELSE lastPage(n), 0)]
    /\ UNCHANGED edge

(* bytes_available and bytes_overflow of fileAppend.                       *)
bytes_available == page_size - (size % page_size)
overflow(n) == n - bytes_available

(* new_page_n                                                              *)
pagesAfter(n) ==
    IF overflow(n) > 0 THEN pages_n + (overflow(n) \div page_size) + 1 ELSE pages_n

(* The first bytes go to the last page, at the offset of the file's end.   *)
firstAddAll(n) == n                                   \* mutant: the last page takes all
firstAdd(n) == IF n > bytes_available THEN bytes_available ELSE n

(* The append starts at the end of a page, or fills the page it adds last. *)
MeetsEdge(n) ==
    \/ size % page_size = 0
    \/ overflow(n) > 0 /\ overflow(n) % page_size = 0

(* fileAppend to a file that has pages.                                    *)
appendBytes(n) ==
    /\ pages_n > 0
    /\ size + n <= memory_size
    /\ pagesAfter(n) <= page_num
    /\ page' = [i \in 0 .. pagesAfter(n) - 1 |->
                   IF i < pages_n - 1 THEN page[i]
                   ELSE IF i = pages_n - 1
                   THEN addPageToMem(page[i], size + 1, firstAdd(n), size % page_size)
                   ELSE addPageToMem(Blank, size + firstAdd(n) + (i - pages_n) * page_size + 1,
                            IF i < pagesAfter(n) - 1 THEN page_size
                            ELSE overflow(n) % page_size, 0)]
    /\ pages_n' = pagesAfter(n)
    /\ size' = size + n
    /\ edge' = (edge \/ MeetsEdge(n))

(* The record is freed and, if need be, another one made.                  *)
freeBytesKeepSize ==                                  \* mutant: size not reset
    /\ size' = size
    /\ pages_n' = 0
    /\ page' = <<>>
    /\ edge' = FALSE
freeBytes ==
    /\ size' = 0
    /\ pages_n' = 0
    /\ page' = <<>>
    /\ edge' = FALSE

(* What sendFile writes to the socket.                                     *)
sent ==
    IF size = 0 THEN <<>>
    ELSE [k \in 1 .. (pages_n - 1) * page_size + lastPage(size) |->
             page[(k - 1) \div page_size][(k - 1) % page_size]]

=============================================================================
