------------------------------ MODULE BStream ------------------------------
(***************************************************************************)
(* The byte stream of src/bstream/bstream.c: a list of buffers, borrowed   *)
(* (a pointer into the caller's memory) or copied (a block of BufferSize   *)
(* bytes), and a separately kept total_len.  The list is that of list.h    *)
(* (module List); buf[a] is the struct bstream_buffer at address a.        *)
(*                                                                         *)
(* Bytes are numbered in the order in which they are written.  Of a copied *)
(* buffer the model keeps the bytes not yet read and free_space; offset is *)
(* what remains of BufferSize.  A reader or a writer callback may transfer *)
(* less than it is asked for (fread, read, fwrite, write).                 *)
(***************************************************************************)
EXTENDS List, SequencesExt

CONSTANTS
    MaxAddress,  \* buffers may be allocated at 1 .. MaxAddress
    Nowhere,     \* where a pointer leads to freed memory
    BufferSize,  \* BSTREAM_BUFFER_COPIED_SIZE
    WordSize,    \* size_t holds 0 .. WordSize - 1
    MaxBytes,    \* bound: bytes written in all
    MaxLen,      \* bound: length given to one operation
    MaxBuffers,  \* bound: no write begins with more buffers than this
    MayFail      \* whether malloc may fail

Addresses == 1 .. MaxAddress

ASSUME BoundsOK ==
    /\ {BufferSize, WordSize, MaxBytes, MaxLen, MaxBuffers} \subseteq Nat \ {0}
    /\ MaxBytes + MaxLen < WordSize
    /\ MaxAddress \in Nat /\ MaxAddress > MaxBuffers + MaxLen \div BufferSize
    /\ {Null, Nowhere} \cap Addresses = {} /\ Null # Nowhere
    /\ MayFail \in BOOLEAN

VARIABLES
    list,       \* bstream.head, bstream.tail and the buffers' chain members
    buf,        \* the buffer at each address, or NoBuffer
    total_len,  \* bstream.total_len
    written,    \* history: number of bytes written so far
    consumed,   \* history: number of bytes read or flushed so far
    asked,      \* history: the length given to the last operation
    result,     \* history: what it returned
    server_use  \* this stream is used as server_worker.c:209-223, 276 does

vars == <<list, buf, total_len, written, consumed, asked, result, server_use>>

Lesser(a, b) == IF a < b THEN a ELSE b

Buffer(type, data, space) == [type |-> type, data |-> data, free_space |-> space]

NoBuffer == Buffer("none", <<>>, 0)

(* The buffers from head to tail, and all bytes that they hold.            *)
buffers == LET V == Visited(list) IN [i \in DOMAIN V |-> buf[V[i]]]
Bytes(bs) == FlattenSeq([i \in DOMAIN bs |-> bs[i].data])
Contents == Bytes(buffers)

Fresh(n) == [i \in 1 .. n |-> written + i]

Done(len, n) == asked' = len /\ result' = n

(* ckd_add of the length and total_len.                                    *)
Overflows(len) == total_len + len >= WordSize

Init ==
    /\ list = list_init_head_tail(Addresses)
    /\ buf = [a \in Addresses |-> NoBuffer]
    /\ total_len = 0
    /\ written = 0
    /\ consumed = 0
    /\ asked = 0
    /\ result = 0
    /\ server_use \in BOOLEAN

(* The next write would not exceed the bounds of the model.                *)
MayWrite(len) ==
    /\ len <= MaxLen /\ written + len <= MaxBytes
    /\ Cardinality({a \in Addresses : buf[a] # NoBuffer}) <= MaxBuffers

-----------------------------------------------------------------------------
(* Buffers made and appended, removed and freed; <<list, buf>> before and  *)
(* after.  It is all the same which free address malloc gives.             *)

NewAddress(s) == CHOOSE a \in Addresses : s[2][a] = NoBuffer

Appended(s, b) ==
    LET a == NewAddress(s)
    IN  <<list_add_item_back(list_init(s[1], a), a), [s[2] EXCEPT ![a] = b]>>

AllAppended(s, bs) ==
    LET after[i \in 0 .. Len(bs)] == IF i = 0 THEN s ELSE Appended(after[i - 1], bs[i])
    IN  after[Len(bs)]

(* A pointer to freed memory has no value any more.                        *)
Dangling(l, a) ==
    LET gone(p) == IF p = a THEN Nowhere ELSE p
    IN  [head |-> gone(l.head), tail |-> gone(l.tail),
         next |-> [x \in Addresses |-> gone(l.next[x])],
         prev |-> [x \in Addresses |-> gone(l.prev[x])]]

(* bstream_buffer_destroy of the head.                                     *)
FirstFreed(s) ==
    LET a == s[1].head
    IN  <<Dangling(list_init(list_remove_item(s[1], a), a), a),
          [s[2] EXCEPT ![a] = NoBuffer]>>

Freed(s, j) ==
    LET freed[i \in 0 .. j] == IF i = 0 THEN s ELSE FirstFreed(freed[i - 1])
    IN  freed[j]

Store(s) == \E r \in {s} : list' = r[1] /\ buf' = r[2]

-----------------------------------------------------------------------------
(* bstream_write_borrow *)

WriteBorrow(len) ==
    /\ MayWrite(len)
    /\ ~Overflows(len)
    /\ Store(Appended(<<list, buf>>, Buffer("borrowed", Fresh(len), 0)))
    /\ total_len' = total_len + len
    /\ written' = written + len
    /\ Done(len, len)
    /\ UNCHANGED consumed

WriteBorrowFails(len) ==
    /\ MayWrite(len)
    /\ MayFail \/ Overflows(len)
    /\ Done(len, 0)
    /\ UNCHANGED <<list, buf, total_len, written, consumed>>

-----------------------------------------------------------------------------
(* bstream_write, with a reader that delivers got of the len bytes *)

HasTail == list.tail # Null
TailSpace == IF HasTail THEN buf[list.tail].free_space ELSE 0

(* What of the bytes goes to the last buffer, and the buffers after that.  *)
ToTail(got) == Lesser(TailSpace, got)

TailFilled(got) ==
    IF ToTail(got) = 0 THEN <<list, buf>>
    ELSE <<list, [buf EXCEPT ![list.tail].data = @ \o Fresh(ToTail(got)),
                             ![list.tail].free_space = @ - ToTail(got)]>>

(* The last buffer took all, or the reader stopped short of filling it.    *)
TailSuffices(len, got) ==
    HasTail /\ (ToTail(got) = len \/ TailSpace > ToTail(got))

(* It returns from here without touching total_len.                        *)
WriteToTail(len, got) ==
    /\ MayWrite(len)
    /\ ~Overflows(len)
    /\ TailSuffices(len, got)
    /\ Store(TailFilled(got))
    /\ written' = written + ToTail(got)
    /\ Done(len, ToTail(got))
    /\ UNCHANGED <<total_len, consumed>>

(* New buffers for the rest, each filled before the next is made; a last   *)
(* one, perhaps empty, in which the reader stops.                          *)
Chunk(bytes, i) ==
    LET part == SubSeq(bytes, (i - 1) * BufferSize + 1, Lesser(i * BufferSize, Len(bytes)))
    IN  Buffer("copied", part, BufferSize - Len(part))

ChunkCount(remain, n) ==
    IF n = remain /\ n > 0 THEN (n + BufferSize - 1) \div BufferSize
    ELSE n \div BufferSize + 1

Chunks(bytes, k) == [i \in 1 .. k |-> Chunk(bytes, i)]

WriteNewBuffers(len, got) ==
    LET rest == SubSeq(Fresh(got), ToTail(got) + 1, got) IN
    /\ MayWrite(len)
    /\ ~Overflows(len)
    /\ ~TailSuffices(len, got)
    /\ Store(AllAppended(TailFilled(got),
                         Chunks(rest, ChunkCount(len - ToTail(got), Len(rest)))))
    /\ total_len' = total_len + got
    /\ written' = written + got
    /\ Done(len, got)
    /\ UNCHANGED consumed

(* malloc fails after the tail and j full buffers.                         *)
WriteNewBuffersFails(len, got) ==
    LET rest == SubSeq(Fresh(got), ToTail(got) + 1, got) IN
    /\ MayFail
    /\ MayWrite(len)
    /\ ~Overflows(len)
    /\ ~TailSuffices(len, got)
    /\ \E j \in 0 .. ChunkCount(len - ToTail(got), Len(rest)) - 1 :
         LET n == ToTail(got) + j * BufferSize IN
         /\ Store(AllAppended(TailFilled(got), Chunks(rest, j)))
         /\ total_len' = total_len + n
         /\ written' = written + n
         /\ Done(len, n)
    /\ UNCHANGED consumed

WriteOverflows(len) ==
    /\ MayWrite(len)
    /\ Overflows(len)
    /\ Done(len, 0)
    /\ UNCHANGED <<list, buf, total_len, written, consumed>>

-----------------------------------------------------------------------------
(* bstream_read.  Every buffer is asked for the full len, because remain   *)
(* is never reduced.  j buffers are read whole and removed, then t bytes   *)
(* of the next.                                                            *)

ReadOutcomes(bs, len) ==
    LET size(i) == Len(bs[i].data)
        short(k) == \A i \in 1 .. k : size(i) < len
        outcome(j, t) ==
            \/ /\ j < Len(bs) /\ short(j)
               /\ t <= Lesser(len, size(j + 1)) /\ t < size(j + 1)
            \/ /\ j > 0 /\ t = 0
               /\ short(j - 1) /\ size(j) = len
            \/ /\ j = Len(bs) /\ t = 0 /\ short(j)
    IN  {o \in (0 .. Len(bs)) \X (0 .. MaxBytes) : outcome(o[1], o[2])}

(* Mutant: the offset advances by one byte too few.                        *)
AfterReadShort(j, t) ==
    LET s == Freed(<<list, buf>>, j) IN
    IF t = 0 THEN s
    ELSE <<s[1], [s[2] EXCEPT ![s[1].head].data = SubSeq(@, t, Len(@))]>>

AfterRead(j, t) ==
    LET s == Freed(<<list, buf>>, j) IN
    IF t = 0 THEN s
    ELSE <<s[1], [s[2] EXCEPT ![s[1].head].data = SubSeq(@, t + 1, Len(@))]>>

(* Mutant: only the bytes of the last buffer visited are counted.          *)
TakenLast(bs, j, t) == IF t = 0 /\ j > 0 THEN Len(bs[j].data) ELSE t

Taken(bs, j, t) == Len(Bytes(SubSeq(bs, 1, j))) + t

Read(len) ==
    /\ len <= MaxLen \/ len = total_len
    /\ \E bs \in {buffers} : \E o \in ReadOutcomes(bs, len) :
         /\ Store(AfterRead(o[1], o[2]))
         /\ total_len' = (total_len - Taken(bs, o[1], o[2])) % WordSize
         /\ Done(len, Taken(bs, o[1], o[2]))
         /\ consumed' = consumed + result'
    /\ UNCHANGED written

-----------------------------------------------------------------------------
(* bstream_flush, or bstream_destroy followed by bstream_create *)

Flush ==
    /\ buf' = [a \in Addresses |-> IF a \in ToSet(Visited(list)) THEN NoBuffer ELSE buf[a]]
    /\ list' = list_init_head_tail(Addresses)
    /\ total_len' = 0
    /\ consumed' = written
    /\ Done(0, 0)
    /\ UNCHANGED written

-----------------------------------------------------------------------------
(* The worker copies, from memory, behind a borrowed text only, or into    *)
(* the stream that it has just flushed, when no text could be borrowed; it *)
(* reads bstream_len bytes.                                                *)
AllowedWrite(len, got) ==
    server_use =>
        got = len /\ len > 0 /\ (HasTail => buf[list.tail].type = "borrowed")
AllowedRead(len) == server_use => len = total_len

Step ==
    \/ \E len \in 0 .. MaxLen : WriteBorrow(len) \/ WriteBorrowFails(len)
    \/ \E len \in 0 .. MaxLen : \E got \in 0 .. len :
          /\ AllowedWrite(len, got)
          /\ \/ WriteToTail(len, got)
             \/ WriteNewBuffers(len, got)
             \/ WriteNewBuffersFails(len, got)
    \/ \E len \in 0 .. MaxLen : AllowedWrite(len, len) /\ WriteOverflows(len)
    \/ \E len \in 0 .. MaxLen \cup {total_len} : AllowedRead(len) /\ Read(len)
    \/ Flush

Next == Step /\ UNCHANGED server_use

Spec == Init /\ [][Next]_vars

-----------------------------------------------------------------------------
(* Properties *)

(* The buffers that are allocated, no more and none of them twice, are     *)
(* those that list_foreach visits, the last of them the tail; none holds   *)
(* more than it has room for (the assertion at bstream.c:153).  A pointer  *)
(* to a freed buffer remains in prev of the head only (list.h:128).        *)
BuffersListed ==
    LET V == Visited(list) IN
    /\ ToSet(V) = {a \in Addresses : buf[a] # NoBuffer}
    /\ \A i, j \in DOMAIN V : V[i] = V[j] => i = j
    /\ list.tail = (IF V = <<>> THEN Null ELSE Last(V))
    /\ \A i \in 2 .. Len(V) : list.prev[V[i]] = V[i - 1]
    /\ \A a \in Addresses : list.prev[a] = Nowhere => list.head = a
    /\ \A i \in DOMAIN V :
          buf[V[i]].free_space + Len(buf[V[i]].data)
              <= IF buf[V[i]].type = "copied" THEN BufferSize ELSE MaxLen

(* Bytes come out in the order they went in, none lost, none twice, across *)
(* buffers of both kinds, short transfers and failures: what is held is    *)
(* what was written and not yet read (bstream.c:141-210, 269-399).         *)
OrderKept == Contents = [i \in 1 .. written - consumed |-> consumed + i]

(* For calls such as the worker makes, the stream implements a byte queue  *)
(* whose length is known, whatever transfer stops short and whatever malloc*)
(* fails; used otherwise it stands for a queue that stays empty.           *)
Queue == INSTANCE ByteQueue
    WITH queue <- IF server_use THEN Contents ELSE <<>>,
         len <- IF server_use THEN total_len ELSE 0
ImplementsByteQueue == Queue!Spec

(* "if ( written != part ) FAIL();" (test/bstream_only_borrow.c:30): a     *)
(* read never delivers more than it was asked for.                         *)
ReadWithinLenAction == buf' # buf => result' <= asked'
ReadWithinLen == [][ReadWithinLenAction]_vars
=============================================================================
