-------------------------------- MODULE ListC --------------------------------
(***************************************************************************)
(* The circular intrusive list of src/listc/listc.h, pointer by pointer.   *)
(*                                                                         *)
(* links is the memory of one struct listc member: links.next[x] and       *)
(* links.prev[x] for every address x of an item that has the member.  The  *)
(* owner of a list keeps the address of its first item, or Null.           *)
(***************************************************************************)
EXTENDS Naturals, Sequences, FiniteSets

CONSTANT Null   \* the null pointer

listc_init(links, x) ==
    [next |-> [links.next EXCEPT ![x] = x],
     prev |-> [links.prev EXCEPT ![x] = x]]

listc_add_before(links, l, x) ==
    [next |-> [links.next EXCEPT ![x] = l, ![links.prev[l]] = x],
     prev |-> [links.prev EXCEPT ![x] = links.prev[l], ![l] = x]]

listc_unlink(links, x) ==
    [next |-> [links.next EXCEPT ![links.prev[x]] = links.next[x], ![x] = x],
     prev |-> [links.prev EXCEPT ![links.next[x]] = links.prev[x], ![x] = x]]

listc_is_empty(links, x) == links.prev[x] = x

(* listc_add_item_back: the first item and the memory afterwards.          *)
BackHead(head, x) == IF head = Null THEN x ELSE head
BackLinks(links, head, x) ==
    IF head = Null THEN links ELSE listc_add_before(links, head, x)

(* listc_remove_item: the first item and the memory afterwards.            *)
RemoveHead(links, head, x) ==
    IF head # x THEN head
    ELSE IF listc_is_empty(links, x) THEN Null ELSE links.next[x]
RemoveLinks(links, head, x) ==
    IF head = Null THEN links ELSE listc_unlink(links, x)

(* The items that LISTC_FOREACH visits.                                    *)
Visited(links, head) ==
    LET item[n \in Nat] == IF n = 0 THEN head ELSE links.next[item[n - 1]]
    IN  IF head = Null THEN {}
        ELSE {item[n] : n \in 0 .. Cardinality(DOMAIN links.next) - 1}

-----------------------------------------------------------------------------
(* What a list is                                                          *)

(* The pointers form one ring of the items of s, in their order, whose     *)
(* first item is head.                                                     *)
NextPlace(s, i) == IF i = Len(s) THEN 1 ELSE i + 1
Distinct(s) == \A i, j \in 1 .. Len(s) : s[i] = s[j] => i = j
IsRing(links, head, s) ==
    /\ Distinct(s)
    /\ s = <<>> => head = Null
    /\ s # <<>> => head = s[1]
    /\ \A i \in 1 .. Len(s) :
          /\ links.next[s[i]] = s[NextPlace(s, i)]
          /\ links.prev[s[NextPlace(s, i)]] = s[i]

(* The same without naming the order: what can be reached from head going  *)
(* forward is reached going backward, and every step can be undone.        *)
Closed(links, head) ==
    \A x \in Visited(links, head) :
        /\ links.prev[links.next[x]] = x
        /\ links.next[links.prev[x]] = x
=============================================================================
