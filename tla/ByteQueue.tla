----------------------------- MODULE ByteQueue -----------------------------
(***************************************************************************)
(* What a byte stream promises (bstream.h): a first-in first-out queue.    *)
(* A write takes at most the bytes it was given, appends them and reports  *)
(* how many; a read takes at most the bytes it asked for, from the front,  *)
(* and reports how many; the length is always known.                       *)
(***************************************************************************)
EXTENDS Naturals, Sequences

VARIABLES
    queue,    \* bytes written and not read, oldest first
    len,      \* what bstream_len would return
    asked,    \* the length given to the last operation
    result    \* what it returned

Init == queue = <<>> /\ len = 0 /\ asked = 0 /\ result = 0

Write ==
    /\ Len(queue') = Len(queue) + result'
    /\ SubSeq(queue', 1, Len(queue)) = queue
    /\ result' <= asked'

Read ==
    /\ result' <= asked'
    /\ result' <= Len(queue)
    /\ queue' = SubSeq(queue, result' + 1, Len(queue))

Flush == queue' = <<>>

Next == (Write \/ Read \/ Flush) /\ len' = Len(queue')

Spec == Init /\ [][Next]_<<queue, len, asked, result>>
=============================================================================
