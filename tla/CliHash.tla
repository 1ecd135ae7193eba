------------------------------- MODULE CliHash -------------------------------
(***************************************************************************)
(* The hash table of src/cli/cli_hash.c.  A table is a record              *)
(*                                                                         *)
(*     heads   cht->opts: the first node of each bucket's ring             *)
(*     links   the ring member of the nodes                                *)
(*     key, data   of each node                                            *)
(*     used    the nodes that are allocated                                *)
(*                                                                         *)
(* Results of an operation that may fail are a set of pairs <<table, ok>>. *)
(***************************************************************************)
EXTENDS ListC

CONSTANTS
    Nodes,       \* addresses of table nodes: numbers; none free: malloc fails
    Buckets,     \* indices of cht->opts
    Hash,        \* the bucket of each key (hash % space_size)
    MayFail      \* whether malloc may fail

ASSUME HashOK ==
    /\ Nodes \subseteq Nat /\ IsFiniteSet(Nodes)
    /\ Null \notin Nodes
    /\ \A k \in DOMAIN Hash : Hash[k] \in Buckets
    /\ MayFail \in BOOLEAN

cli_hash_table_create ==
    [heads |-> [b \in Buckets |-> Null],
     links |-> [next |-> [n \in Nodes |-> n], prev |-> [n \in Nodes |-> n]],
     key |-> [n \in Nodes |-> Null],
     data |-> [n \in Nodes |-> Null],
     used |-> {}]

(* The node of a key, as the loops over the ring of its bucket find it.    *)
Matching(t, k) ==
    {n \in Visited(t.links, t.heads[Hash[k]]) : t.key[n] = k}

(* cli_hash_table_get: the data, or Null where it returns -1.              *)
cli_hash_table_get(t, k) ==
    LET M == Matching(t, k) IN
    IF M = {} THEN Null ELSE t.data[CHOOSE n \in M : TRUE]

(* A new node is filled before the bucket is searched for the key...       *)
FreeNodes(t) == Nodes \ t.used
NewNode(t) == CHOOSE n \in FreeNodes(t) : \A m \in FreeNodes(t) : n <= m

Filled(t, n, k, d) ==
    [t EXCEPT !.used = @ \cup {n}, !.key[n] = k, !.data[n] = d,
              !.links = listc_init(@, n)]

(* Mutant: the key is not looked for.                                      *)
InsertedAnyway(t, n, k) ==
    {<<[t EXCEPT !.heads[Hash[k]] = BackHead(@, n),
                 !.links = BackLinks(@, t.heads[Hash[k]], n)], TRUE>>}

(* ... and stays allocated, in no bucket, when the key is found.           *)
Inserted(t, n, k) ==
    IF Matching(t, k) # {} THEN {<<t, FALSE>>}
    ELSE {<<[t EXCEPT !.heads[Hash[k]] = BackHead(@, n),
                      !.links = BackLinks(@, t.heads[Hash[k]], n)], TRUE>>}

cli_hash_table_insert(t, d, k) ==
    (IF MayFail \/ FreeNodes(t) = {} THEN {<<t, FALSE>>} ELSE {})
        \cup (IF FreeNodes(t) = {} THEN {}
              ELSE Inserted(Filled(t, NewNode(t), k, d), NewNode(t), k))

cli_hash_table_remove(t, k) ==
    IF Matching(t, k) = {} THEN t
    ELSE LET n == CHOOSE n \in Matching(t, k) : TRUE
             b == Hash[k]
         IN  [t EXCEPT !.heads[b] = RemoveHead(t.links, @, n),
                       !.links = RemoveLinks(@, t.heads[b], n),
                       !.used = @ \ {n}]

-----------------------------------------------------------------------------
(* The map that a table stands for, and what is right about its memory.    *)

Linked(t) == UNION {Visited(t.links, t.heads[b]) : b \in Buckets}

AsMap(t) ==
    LET L == Linked(t)
    IN  [k \in {t.key[n] : n \in L} |-> t.data[CHOOSE n \in L : t.key[n] = k]]

(* Rings are closed, hold allocated nodes of their own bucket and no key   *)
(* twice.                                                                  *)
TableSound(t) ==
    /\ \A b \in Buckets : Closed(t.links, t.heads[b])
    /\ \A b \in Buckets : \A n \in Visited(t.links, t.heads[b]) :
          n \in t.used /\ Hash[t.key[n]] = b
    /\ \A m, n \in Linked(t) : t.key[m] = t.key[n] => m = n
=============================================================================
