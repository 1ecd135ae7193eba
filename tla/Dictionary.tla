----------------------------- MODULE Dictionary -----------------------------
(***************************************************************************)
(* What a hash table promises (cli_hash.h): a finite map.  A key that is   *)
(* present keeps its value until it is removed; insertion of it is refused.*)
(***************************************************************************)
EXTENDS FiniteSets

CONSTANTS Keys, Values

VARIABLE dict   \* a function from the keys that are present

Init == dict = <<>>

Kept(old, new, K) == \A k \in K : new[k] = old[k]

Insert(old, new) ==
    \E k \in Keys \ DOMAIN old :
        /\ DOMAIN new = DOMAIN old \cup {k}
        /\ new[k] \in Values
        /\ Kept(old, new, DOMAIN old)

Remove(old, new) ==
    \E k \in DOMAIN old :
        /\ DOMAIN new = DOMAIN old \ {k}
        /\ Kept(old, new, DOMAIN new)

Destroy(new) == new = <<>>

Next == LET old == dict  new == dict'
        IN  Insert(old, new) \/ Remove(old, new) \/ Destroy(new)

Spec == Init /\ [][Next]_dict
=============================================================================
