-------------------------------- MODULE List --------------------------------
(***************************************************************************)
(* The doubly linked intrusive list of src/list/list.h, pointer by pointer:*)
(* a record of head, tail and the two pointers of every item's member.     *)
(***************************************************************************)
EXTENDS Integers, Sequences, FiniteSets

CONSTANT Null   \* the null pointer

list_init_head_tail(Items) ==
    [head |-> Null, tail |-> Null,
     next |-> [x \in Items |-> Null], prev |-> [x \in Items |-> Null]]

list_init(l, x) == [l EXCEPT !.next[x] = Null, !.prev[x] = Null]

(* Mutant: the tail is not moved to the new item.                          *)
AddedBehindFirst(l, x) ==
    IF l.head = Null THEN [l EXCEPT !.head = x, !.tail = x]
    ELSE [l EXCEPT !.prev[x] = l.tail, !.next[l.tail] = x]

list_add_item_back(l, x) ==
    IF l.head = Null THEN [l EXCEPT !.head = x, !.tail = x]
    ELSE [l EXCEPT !.prev[x] = l.tail, !.next[l.tail] = x, !.tail = x]

list_unlink(l, x) ==
    [l EXCEPT
        !.next = [y \in DOMAIN @ |->
                    IF y = x THEN Null ELSE IF y = l.prev[x] THEN l.next[x] ELSE @[y]],
        !.prev = [y \in DOMAIN @ |->
                    IF y = x THEN Null ELSE IF y = l.next[x] THEN l.prev[x] ELSE @[y]]]

(* The first and the last item are not unlinked: the pointer of their      *)
(* neighbour still leads to them.                                          *)
list_remove_item(l, x) ==
    IF l.head = l.tail /\ l.head = x THEN [l EXCEPT !.head = Null, !.tail = Null]
    ELSE IF l.head = x THEN [l EXCEPT !.head = l.next[x]]
    ELSE IF l.tail = x THEN [l EXCEPT !.tail = l.prev[x]]
    ELSE list_unlink(l, x)

(* What list_foreach visits, in order; of a list that does not end: more   *)
(* items than there are.                                                   *)
Visited(l) ==
    LET most == Cardinality(DOMAIN l.next) + 1
        next == [x \in DOMAIN l.next \cup {Null} |-> IF x = Null THEN Null ELSE l.next[x]]
        item[i \in 1 .. most] == IF i = 1 THEN l.head ELSE next[item[i - 1]]
    IN  [i \in {i \in 1 .. most : item[i] # Null} |-> item[i]]
=============================================================================
