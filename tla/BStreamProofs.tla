---------------------------- MODULE BStreamProofs ----------------------------
(***************************************************************************)
(* Machine-checked proofs about BStream, for any number and capacity of    *)
(* buffers: the list of a stream holds its buffers and no other, the bytes *)
(* in them are those written and not yet read, in order, and used as the   *)
(* server worker does the stream implements ByteQueue.                     *)
(*                                                                         *)
(* The bytes are numbered as they are written.  The invariant, BStreamInv: *)
(* the list links the items of a sequence, and its i-th buffer holds the   *)
(* bytes after e[i-1] up to e[i], where e begins with what was read and    *)
(* ends with what was written.                                             *)
(***************************************************************************)
EXTENDS BStream, FiniteSetTheorems, SequenceTheorems, WellFoundedInduction,
        NaturalsInduction, TLAPS

LEMMA Bounds ==
    /\ MaxAddress \in Nat \ {0} /\ MaxLen \in Nat /\ BufferSize \in Nat \ {0}
    /\ Null \notin Addresses /\ Nowhere \notin Addresses /\ Null # Nowhere
<1>1. /\ BufferSize \in Nat \ {0} /\ MaxLen \in Nat \ {0} /\ MaxBuffers \in Nat \ {0}
      /\ MaxAddress \in Nat /\ MaxAddress > MaxBuffers + MaxLen \div BufferSize
  BY BoundsOK
<1>2. MaxLen \div BufferSize \in Nat
  BY <1>1
<1>3. QED
  BY <1>1, <1>2, BoundsOK

-----------------------------------------------------------------------------
(* Induction over numbers, by the least number for which a property fails. *)

LEMMA LeastNumber ==
    ASSUME NEW T \in SUBSET Nat, T # {}
    PROVE  \E n \in T : \A m \in T : n <= m
<1>1. \E n \in T : \A m \in T : <<m, n>> \notin OpToRel(<, Nat)
  BY NatLessThanWellFounded, WFMin, Zenon
<1>2. \A m, n \in Nat : m < n => <<m, n>> \in OpToRel(<, Nat)
  BY DEF OpToRel
<1>3. PICK n \in T : \A m \in T : ~(m < n)
  BY <1>1, <1>2
<1>4. QED
  BY <1>3

(* A set holds 0 .. n when it holds 0 and with every number below n the    *)
(* next.                                                                   *)
LEMMA UpTo ==
    ASSUME NEW n \in Nat, NEW T, 0 \in T, \A m \in 0 .. n - 1 : m \in T => m + 1 \in T
    PROVE  0 .. n \subseteq T
<1>. SUFFICES ASSUME (0 .. n) \ T # {} PROVE FALSE
  OBVIOUS
<1>1. PICK m \in (0 .. n) \ T : \A k \in (0 .. n) \ T : m <= k
  <2>1. (0 .. n) \ T \in SUBSET Nat
    OBVIOUS
  <2>2. QED
    BY <2>1, LeastNumber
<1>2. m - 1 \in 0 .. n - 1 /\ m - 1 \notin (0 .. n) \ T
  BY <1>1
<1>3. QED
  BY <1>1, <1>2

-----------------------------------------------------------------------------
(* The list *)

Pointers == Addresses \cup {Null, Nowhere}
ListType == [head : Pointers, tail : Pointers,
             next : [Addresses -> Pointers], prev : [Addresses -> Pointers]]

(* l links the items of s in their order, and no other; what prev of the   *)
(* first one holds is of no use.                                           *)
Chain(l, s) ==
    /\ l \in ListType
    /\ s \in Seq(Addresses) /\ Len(s) <= MaxAddress
    /\ \A i, j \in 1 .. Len(s) : s[i] = s[j] => i = j
    /\ l.head = IF Len(s) = 0 THEN Null ELSE s[1]
    /\ l.tail = IF Len(s) = 0 THEN Null ELSE s[Len(s)]
    /\ \A i \in 1 .. Len(s) : l.next[s[i]] = IF i = Len(s) THEN Null ELSE s[i + 1]
    /\ \A i \in 2 .. Len(s) : l.prev[s[i]] = s[i - 1]
    /\ Len(s) # 0 => l.prev[s[1]] \notin Addresses
    /\ \A a \in Addresses : (\A i \in 1 .. Len(s) : s[i] # a) =>
          l.next[a] = Null /\ l.prev[a] = Null

(* list_foreach visits the items of the chain.                             *)
LEMMA VisitsChain == ASSUME NEW l, NEW s, Chain(l, s) PROVE Visited(l) = s
<1>. DEFINE most == Cardinality(DOMAIN l.next) + 1
            next == [x \in DOMAIN l.next \cup {Null} |-> IF x = Null THEN Null ELSE l.next[x]]
            item == CHOOSE f : f = [i \in 1 .. most |->
                                      IF i = 1 THEN l.head ELSE next[f[i - 1]]]
            n == Len(s)
            g == [i \in 1 .. most |-> IF i <= n THEN s[i] ELSE Null]
<1>1. Visited(l) = [i \in {i \in 1 .. most : item[i] # Null} |-> item[i]]
  BY Zenon DEF Visited
<1>2. DOMAIN l.next = Addresses /\ most = MaxAddress + 1 /\ most \in Nat
  <2>1. DOMAIN l.next = Addresses
    BY DEF Chain, ListType
  <2>2. Cardinality(Addresses) = MaxAddress
    BY FS_Interval, Bounds DEF Addresses
  <2>3. QED
    BY <2>1, <2>2, Bounds
<1>3. /\ n \in Nat /\ n < most /\ \A i \in 1 .. n : s[i] \in Addresses /\ s[i] # Null
      /\ next[Null] = Null /\ \A a \in Addresses : next[a] = l.next[a]
  BY <1>2, Bounds DEF Chain
<1>4. g = [i \in 1 .. most |-> IF i = 1 THEN l.head ELSE next[g[i - 1]]]
  <2>. HIDE DEF next, most
  <2>. SUFFICES ASSUME NEW i \in 1 .. most
                PROVE  g[i] = IF i = 1 THEN l.head ELSE next[g[i - 1]]
    OBVIOUS
  <2>1. CASE i = 1
    BY <1>2, <1>3, <2>1 DEF Chain
  <2>2. CASE i # 1 /\ i - 1 <= n
    BY <1>2, <1>3, <2>2 DEF Chain
  <2>3. CASE i # 1 /\ i - 1 > n
    BY <1>2, <1>3, <2>3
  <2>4. QED
    BY <1>2, <1>3, <2>1, <2>2, <2>3
<1>5. item = [i \in 1 .. most |-> IF i = 1 THEN l.head ELSE next[item[i - 1]]]
  BY <1>4, Zenon
<1>. HIDE DEF item, next, most, g
<1>4a. \A i \in 1 .. most : g[i] = IF i = 1 THEN l.head ELSE next[g[i - 1]]
  BY <1>4, Zenon
<1>5a. \A i \in 1 .. most : item[i] = IF i = 1 THEN l.head ELSE next[item[i - 1]]
  BY <1>5, Zenon
<1>6. \A i \in 1 .. most : item[i] = g[i]
  <2>. SUFFICES ASSUME {i \in 1 .. most : item[i] # g[i]} # {} PROVE FALSE
    OBVIOUS
  <2>1. PICK i \in 1 .. most : item[i] # g[i] /\ \A k \in 1 .. most : item[k] # g[k] => i <= k
    <3>1. {i \in 1 .. most : item[i] # g[i]} \in SUBSET Nat
      BY <1>2
    <3>2. QED
      BY <3>1, LeastNumber
  <2>2. i # 1
    BY <1>4a, <1>5a, <2>1
  <2>3. i - 1 \in 1 .. most
    BY <1>2, <2>1, <2>2
  <2>4. item[i - 1] = g[i - 1]
    BY <1>2, <2>1, <2>3
  <2>5. QED
    BY <1>4a, <1>5a, <2>1, <2>2, <2>4
<1>7. {i \in 1 .. most : item[i] # Null} = 1 .. n
  BY <1>2, <1>3, <1>6 DEF g
<1>8. \A i \in 1 .. n : item[i] = s[i]
  BY <1>2, <1>3, <1>6 DEF g
<1>9. Visited(l) = [i \in 1 .. n |-> s[i]]
  BY <1>1, <1>7, <1>8
<1>10. QED
  BY <1>9 DEF Chain

-----------------------------------------------------------------------------
(* Bytes by their numbers *)

Buffers == [type : {"borrowed", "copied"}, data : Seq(Nat), free_space : Nat]

(* The bytes after number f, up to number t.                               *)
Run(f, t) == [k \in 1 .. t - f |-> f + k]

LEMMA RunIsSeq ==
    ASSUME NEW f \in Nat, NEW t \in Nat, f <= t
    PROVE  Run(f, t) \in Seq(Nat) /\ Len(Run(f, t)) = t - f
BY DEF Run

LEMMA RunsJoin ==
    ASSUME NEW f \in Nat, NEW m \in Nat, NEW t \in Nat, f <= m, m <= t
    PROVE  Run(f, m) \o Run(m, t) = Run(f, t)
<1>1. /\ Run(f, m) \in Seq(Nat) /\ Len(Run(f, m)) = m - f
      /\ Run(m, t) \in Seq(Nat) /\ Len(Run(m, t)) = t - m
      /\ Run(f, t) \in Seq(Nat) /\ Len(Run(f, t)) = t - f
  <2>1. f <= t
    OBVIOUS
  <2>2. QED
    BY <2>1, RunIsSeq, Zenon
<1>2. Run(f, m) \o Run(m, t) \in Seq(Nat) /\ Len(Run(f, m) \o Run(m, t)) = t - f
  <2>1. /\ Run(f, m) \o Run(m, t) \in Seq(Nat)
        /\ Len(Run(f, m) \o Run(m, t)) = Len(Run(f, m)) + Len(Run(m, t))
    BY <1>1, ConcatProperties, Zenon
  <2>2. QED
    BY <1>1, <2>1
<1>3. ASSUME NEW k \in 1 .. t - f PROVE (Run(f, m) \o Run(m, t))[k] = Run(f, t)[k]
  BY <1>1 DEF Run
<1>4. QED
  BY <1>1, <1>2, <1>3, SeqEqual

LEMMA RunCut ==
    ASSUME NEW f \in Nat, NEW t \in Nat, f <= t,
           NEW i \in 1 .. t - f + 1, NEW k \in 0 .. t - f, i <= k + 1
    PROVE  SubSeq(Run(f, t), i, k) = Run(f + i - 1, f + k)
BY RunIsSeq DEF Run

(* e grows from 0 to n.                                                    *)
Grows(e, n) == e \in [0 .. n -> Nat] /\ \A i \in 1 .. n : e[i - 1] <= e[i]

LEMMA GrowsFar ==
    ASSUME NEW n \in Nat, NEW e, Grows(e, n), NEW i \in 0 .. n, NEW k \in 0 .. n, i <= k
    PROVE  e[i] <= e[k]
<1>. DEFINE T == {m \in 0 .. n - i : e[i] <= e[i + m]}
<1>1. 0 \in T
  BY DEF Grows
<1>2. ASSUME NEW m \in 0 .. n - i - 1, m \in T PROVE m + 1 \in T
  <2>1. e[i + m] <= e[i + m + 1]
    BY DEF Grows
  <2>2. e[i] \in Nat /\ e[i + m] \in Nat /\ e[i + m + 1] \in Nat
    BY DEF Grows
  <2>3. QED
    BY <1>2, <2>1, <2>2
<1>3. 0 .. n - i \subseteq T
  <2>. HIDE DEF T
  <2>1. n - i \in Nat
    OBVIOUS
  <2>2. QED
    BY <1>1, <1>2, <2>1, UpTo
<1>4. k - i \in 0 .. n - i /\ i + (k - i) = k
  OBVIOUS
<1>5. k - i \in T
  BY <1>3, <1>4, Zenon
<1>6. QED
  BY <1>4, <1>5

(* The bytes of buffers that hold runs, each beginning where the last ends.*)
LEMMA BytesJoin ==
    ASSUME NEW n \in Nat, NEW bs, bs \in Seq(Buffers), Len(bs) = n, NEW e, Grows(e, n),
           \A i \in 1 .. n : bs[i].data = Run(e[i - 1], e[i])
    PROVE  Bytes(bs) = Run(e[0], e[n])
<1>. DEFINE ds == [i \in DOMAIN bs |-> bs[i].data]
            flat == CHOOSE f : f = [i \in 1 .. Len(ds) |->
                                      IF i = 1 THEN ds[i] ELSE f[i - 1] \o ds[i]]
            g == [i \in 1 .. n |-> Run(e[0], e[i])]
<1>1. DOMAIN bs = 1 .. n /\ Len(ds) = n
  OBVIOUS
<1>2. CASE n = 0
  <2>1. Bytes(bs) = ds
    BY <1>1, <1>2 DEF Bytes, FlattenSeq
  <2>2. QED
    BY <1>1, <1>2, <2>1 DEF Run, Grows
<1>3. CASE n # 0
  <2>1. Bytes(bs) = flat[Len(ds)]
    BY <1>1, <1>3, Zenon DEF Bytes, FlattenSeq
  <2>2. \A i \in 1 .. n : ds[i] = Run(e[i - 1], e[i])
    BY <1>1
  <2>3. g = [i \in 1 .. n |-> IF i = 1 THEN ds[i] ELSE g[i - 1] \o ds[i]]
    <3>. SUFFICES ASSUME NEW i \in 1 .. n
                  PROVE  g[i] = IF i = 1 THEN ds[i] ELSE g[i - 1] \o ds[i]
      OBVIOUS
    <3>1. CASE i = 1
      BY <2>2, <3>1
    <3>2. CASE i # 1
      <4>1. e[0] \in Nat /\ e[i - 1] \in Nat /\ e[i] \in Nat /\ e[i - 1] <= e[i]
        BY DEF Grows
      <4>2. e[0] <= e[i - 1]
        <5>1. 0 \in 0 .. n /\ i - 1 \in 0 .. n /\ 0 <= i - 1
          OBVIOUS
        <5>2. QED
          BY <5>1, GrowsFar, Zenon
      <4>3. Run(e[0], e[i]) = Run(e[0], e[i - 1]) \o Run(e[i - 1], e[i])
        BY <4>1, <4>2, RunsJoin
      <4>4. g[i] = Run(e[0], e[i]) /\ g[i - 1] = Run(e[0], e[i - 1])
        BY <3>2
      <4>5. QED
        BY <2>2, <3>2, <4>3, <4>4, Zenon
    <3>3. QED
      BY <3>1, <3>2
  <2>4. flat = [i \in 1 .. n |-> IF i = 1 THEN ds[i] ELSE flat[i - 1] \o ds[i]]
    BY <1>1, <2>3, Zenon
  <2>. HIDE DEF flat, g, ds
  <2>5. \A i \in 1 .. n : flat[i] = IF i = 1 THEN ds[i] ELSE flat[i - 1] \o ds[i]
    BY <2>4, Zenon
  <2>6. \A i \in 1 .. n : g[i] = IF i = 1 THEN ds[i] ELSE g[i - 1] \o ds[i]
    BY <2>3, Zenon
  <2>7. \A i \in 1 .. n : flat[i] = g[i]
    <3>. SUFFICES ASSUME {i \in 1 .. n : flat[i] # g[i]} # {} PROVE FALSE
      OBVIOUS
    <3>1. PICK i \in 1 .. n : flat[i] # g[i] /\ \A k \in 1 .. n : flat[k] # g[k] => i <= k
      <4>1. {i \in 1 .. n : flat[i] # g[i]} \in SUBSET Nat
        OBVIOUS
      <4>2. QED
        BY <4>1, LeastNumber
    <3>2. i # 1
      BY <2>5, <2>6, <3>1
    <3>3. i - 1 \in 1 .. n /\ ~ (i <= i - 1)
      BY <3>2
    <3>4. flat[i - 1] = g[i - 1]
      BY <3>1, <3>3
    <3>5. QED
      BY <2>5, <2>6, <3>1, <3>2, <3>4
  <2>8. QED
    BY <1>1, <1>3, <2>1, <2>7 DEF g
<1>4. QED
  BY <1>2, <1>3

-----------------------------------------------------------------------------
(* The stored bytes *)

Room(b) ==
    /\ b \in Buffers
    /\ b.free_space + Len(b.data) <= IF b.type = "copied" THEN BufferSize ELSE MaxLen
    /\ b.type = "borrowed" => b.free_space = 0

(* The list l links the items of s, which are the buffers in use, and the  *)
(* i-th of them holds the bytes after number e[i - 1] up to e[i].          *)
Stored(l, b, s, e) ==
    /\ Chain(l, s)
    /\ b \in [Addresses -> Buffers \cup {NoBuffer}]
    /\ \A a \in Addresses : b[a] # NoBuffer <=> \E i \in 1 .. Len(s) : s[i] = a
    /\ \A i \in 1 .. Len(s) : Room(b[s[i]])
    /\ Grows(e, Len(s))
    /\ \A i \in 1 .. Len(s) : b[s[i]].data = Run(e[i - 1], e[i])

LEMMA NoBufferIsNone == NoBuffer \notin Buffers
BY DEF NoBuffer, Buffer, Buffers

(* There is a free address unless the list is as long as can be.           *)
LEMMA FreeAddress ==
    ASSUME NEW l, NEW b, NEW s, NEW e, Stored(l, b, s, e)
    PROVE  /\ Len(s) <= Cardinality({a \in Addresses : b[a] # NoBuffer})
           /\ Len(s) < MaxAddress => \E a \in Addresses : b[a] = NoBuffer
<1>. DEFINE used == {a \in Addresses : b[a] # NoBuffer}
<1>1. /\ s \in Seq(Addresses) /\ Len(s) \in Nat
      /\ \A i, j \in 1 .. Len(s) : s[i] = s[j] => i = j
      /\ \A i \in 1 .. Len(s) : s[i] \in used
  BY DEF Stored, Chain
<1>2. s \in [1 .. Len(s) -> used]
  BY <1>1
<1>3. s \in Surjection(1 .. Len(s), used)
  BY <1>1, <1>2 DEF Stored, Surjection
<1>4. s \in Injection(1 .. Len(s), used)
  BY <1>1, <1>2 DEF Injection, IsInjective
<1>5. IsFiniteSet(Addresses) /\ Cardinality(Addresses) = MaxAddress
  BY FS_Interval, Bounds DEF Addresses
<1>6. IsFiniteSet(used)
  BY <1>5, FS_Subset
<1>7. IsFiniteSet(1 .. Len(s)) /\ Cardinality(1 .. Len(s)) = Len(s)
  <2>1. 1 \in Int /\ Len(s) \in Int /\ (IF 1 > Len(s) THEN 0 ELSE Len(s) - 1 + 1) = Len(s)
    BY <1>1
  <2>2. QED
    BY <2>1, FS_Interval
<1>. HIDE DEF used
<1>8. Len(s) <= Cardinality(used)
  <2>1. Cardinality(1 .. Len(s)) <= Cardinality(used)
    BY <1>4, <1>6, FS_Injection
  <2>2. QED
    BY <1>7, <2>1
<1>9. Cardinality(used) <= Len(s)
  <2>1. Cardinality(used) <= Cardinality(1 .. Len(s))
    BY <1>3, <1>7, FS_Surjection
  <2>2. QED
    BY <1>7, <2>1
<1>10. ASSUME Len(s) < MaxAddress PROVE \E a \in Addresses : b[a] = NoBuffer
  <2>. SUFFICES ASSUME ~ \E a \in Addresses : b[a] = NoBuffer PROVE FALSE
    OBVIOUS
  <2>1. used = Addresses
    BY DEF used
  <2>2. QED
    BY <1>1, <1>5, <1>9, <1>10, <2>1, Bounds
<1>11. QED
  BY <1>8, <1>10 DEF used

(* A buffer is appended whose bytes follow those stored.                   *)
LEMMA AppendedStored ==
    ASSUME NEW l, NEW b, NEW s, NEW e, Stored(l, b, s, e), Len(s) < MaxAddress,
           NEW x, Room(x), NEW t \in Nat, e[Len(s)] <= t, x.data = Run(e[Len(s)], t)
    PROVE  LET r == Appended(<<l, b>>, x)
           IN  \E s2, e2 : /\ Stored(r[1], r[2], s2, e2)
                           /\ Len(s2) = Len(s) + 1 /\ e2[0] = e[0] /\ e2[Len(s2)] = t
<1>. DEFINE n == Len(s)
            r == Appended(<<l, b>>, x)
            a == NewAddress(<<l, b>>)
            s2 == Append(s, a)
            e2 == [i \in 0 .. n + 1 |-> IF i <= n THEN e[i] ELSE t]
            l1 == list_init(l, a)
            l2 == list_add_item_back(l1, a)
<1>1. a \in Addresses /\ b[a] = NoBuffer
  BY FreeAddress DEF NewAddress
<1>2. r[1] = l2 /\ r[2] = [b EXCEPT ![a] = x]
  BY DEF Appended
<1>. HIDE DEF a, r
<1>3. /\ l \in ListType /\ s \in Seq(Addresses) /\ n \in Nat
      /\ \A i \in 1 .. n : s[i] # a /\ s[i] \in Addresses
  BY <1>1 DEF Stored, Chain
<1>4. /\ s2 \in Seq(Addresses) /\ Len(s2) = n + 1 /\ s2[n + 1] = a
      /\ \A i \in 1 .. n : s2[i] = s[i]
  BY <1>1, <1>3
<1>. HIDE DEF s2
<1>5. a # Null /\ a # Nowhere /\ a \in Pointers
  BY <1>1, Bounds DEF Pointers
<1>6. Chain(l2, s2)
  <2>1. l1 = l
    <3>1. l.next[a] = Null /\ l.prev[a] = Null
      BY <1>1, <1>3 DEF Stored, Chain
    <3>2. QED
      BY <1>1, <1>3, <3>1 DEF list_init, ListType
  <2>2. CASE n = 0
    <3>1. l.head = Null
      BY <2>2 DEF Stored, Chain
    <3>2. l2 = [l EXCEPT !.head = a, !.tail = a]
      BY <2>1, <3>1 DEF list_add_item_back
    <3>3. /\ l2 \in ListType /\ l2.head = a /\ l2.tail = a
          /\ l2.next = l.next /\ l2.prev = l.prev
      BY <1>3, <1>5, <3>2 DEF ListType
    <3>4. \A c \in Addresses : l.next[c] = Null /\ l.prev[c] = Null
      BY <2>2 DEF Stored, Chain
    <3>5. s2 \in Seq(Addresses) /\ Len(s2) = 1 /\ s2[1] = a
      BY <1>4, <2>2
    <3>6. Null \notin Addresses /\ MaxAddress \in Nat \ {0}
      BY Bounds
    <3>7. QED
      BY <1>1, <3>3, <3>4, <3>5, <3>6 DEF Chain
  <2>3. CASE n # 0
    <3>1. l.head = s[1] /\ l.tail = s[n] /\ l.head # Null /\ l.tail \in Addresses
      BY <1>3, <2>3, Bounds DEF Stored, Chain
    <3>2. l2 = [l EXCEPT !.prev[a] = l.tail, !.next[l.tail] = a, !.tail = a]
      BY <2>1, <3>1 DEF list_add_item_back
    <3>3. /\ l2 \in ListType /\ l2.head = s[1] /\ l2.tail = a
          /\ l2.prev = [l.prev EXCEPT ![a] = s[n]]
          /\ l2.next = [l.next EXCEPT ![s[n]] = a]
      <4>1. l2 = [head |-> l.head, tail |-> a, next |-> [l.next EXCEPT ![l.tail] = a],
                  prev |-> [l.prev EXCEPT ![a] = l.tail]]
        BY <1>3, <3>2 DEF ListType
      <4>2. /\ l.head \in Pointers /\ l.tail \in Pointers
            /\ l.next \in [Addresses -> Pointers] /\ l.prev \in [Addresses -> Pointers]
        BY <1>3 DEF ListType
      <4>. HIDE DEF l2
      <4>3. l2 \in ListType
        BY <1>5, <4>1, <4>2 DEF ListType
      <4>4. QED
        BY <3>1, <4>1, <4>3
    <3>4. n + 1 <= MaxAddress
      BY <1>3, Bounds
    <3>5. \A i, j \in 1 .. n + 1 : s2[i] = s2[j] => i = j
      <4>1. \A i, j \in 1 .. n : s[i] = s[j] => i = j
        BY DEF Stored, Chain
      <4>2. ASSUME NEW i \in 1 .. n + 1, NEW j \in 1 .. n + 1, s2[i] = s2[j], i # j
            PROVE  FALSE
        <5>1. CASE i <= n /\ j <= n
          BY <1>3, <1>4, <4>1, <4>2, <5>1
        <5>2. CASE i = n + 1 \/ j = n + 1
          BY <1>3, <1>4, <4>2, <5>2
        <5>3. QED
          BY <1>3, <5>1, <5>2
      <4>3. QED
        BY <4>2
    <3>6. \A i \in 1 .. n + 1 : l2.next[s2[i]] = IF i = n + 1 THEN Null ELSE s2[i + 1]
      <4>1. ASSUME NEW i \in 1 .. n + 1
            PROVE l2.next[s2[i]] = IF i = n + 1 THEN Null ELSE s2[i + 1]
        <5>1. CASE i < n
          <6>1. s2[i] = s[i] /\ s2[i + 1] = s[i + 1] /\ s[i] # s[n] /\ s[i] \in Addresses
            BY <1>3, <1>4, <5>1 DEF Stored, Chain
          <6>2. l.next[s[i]] = s[i + 1]
            BY <1>3, <5>1 DEF Stored, Chain
          <6>3. QED
            BY <1>3, <3>3, <5>1, <6>1, <6>2 DEF ListType
        <5>2. CASE i = n
          BY <1>3, <1>4, <2>3, <3>3, <5>2 DEF ListType
        <5>3. CASE i = n + 1
          <6>1. l.next[a] = Null /\ a # s[n]
            BY <1>1, <1>3, <2>3 DEF Stored, Chain
          <6>2. QED
            BY <1>1, <1>3, <1>4, <3>3, <5>3, <6>1 DEF ListType
        <5>4. QED
          BY <1>3, <5>1, <5>2, <5>3
      <4>2. QED
        BY <4>1
    <3>7. \A i \in 2 .. n + 1 : l2.prev[s2[i]] = s2[i - 1]
      <4>1. ASSUME NEW i \in 2 .. n + 1 PROVE l2.prev[s2[i]] = s2[i - 1]
        <5>1. CASE i <= n
          <6>1. s2[i] = s[i] /\ s2[i - 1] = s[i - 1] /\ s[i] # a /\ s[i] \in Addresses
            BY <1>3, <1>4, <5>1
          <6>2. l.prev[s[i]] = s[i - 1]
            BY <1>3, <5>1 DEF Stored, Chain
          <6>3. QED
            BY <1>3, <3>3, <6>1, <6>2 DEF ListType
        <5>2. CASE i = n + 1
          BY <1>1, <1>3, <1>4, <2>3, <3>3, <5>2 DEF ListType
        <5>3. QED
          BY <1>3, <5>1, <5>2
      <4>2. QED
        BY <4>1
    <3>8. l2.prev[s2[1]] \notin Addresses
      <4>1. s2[1] = s[1] /\ s[1] # a /\ l.prev[s[1]] \notin Addresses /\ s[1] \in Addresses
        BY <1>3, <1>4, <2>3 DEF Stored, Chain
      <4>2. QED
        BY <1>3, <3>3, <4>1 DEF ListType
    <3>9. ASSUME NEW c \in Addresses, \A i \in 1 .. n + 1 : s2[i] # c
          PROVE  l2.next[c] = Null /\ l2.prev[c] = Null
      <4>1. c # a /\ \A i \in 1 .. n : s[i] # c
        BY <1>3, <1>4, <3>9
      <4>2. l.next[c] = Null /\ l.prev[c] = Null
        BY <4>1 DEF Stored, Chain
      <4>3. c # s[n]
        BY <1>3, <2>3, <4>1
      <4>4. QED
        BY <1>3, <3>3, <4>1, <4>2, <4>3 DEF ListType
    <3>10. l2.head = s2[1] /\ l2.tail = s2[n + 1] /\ n + 1 # 0
      BY <1>3, <1>4, <2>3, <3>3
    <3>11. QED
      BY <1>4, <3>3, <3>4, <3>5, <3>6, <3>7, <3>8, <3>9, <3>10 DEF Chain
  <2>4. QED
    BY <2>2, <2>3
<1>. HIDE DEF l2, l1
<1>7. /\ b \in [Addresses -> Buffers \cup {NoBuffer}] /\ x \in Buffers /\ x # NoBuffer
      /\ \A c \in Addresses : b[c] # NoBuffer <=> \E i \in 1 .. n : s[i] = c
  BY NoBufferIsNone DEF Stored, Room
<1>8. /\ r[2] \in [Addresses -> Buffers \cup {NoBuffer}] /\ r[2][a] = x
      /\ \A c \in Addresses : c # a => r[2][c] = b[c]
  BY <1>1, <1>2, <1>7
<1>9. ASSUME NEW c \in Addresses
      PROVE  r[2][c] # NoBuffer <=> \E i \in 1 .. n + 1 : s2[i] = c
  <2>1. CASE c = a
    BY <1>3, <1>4, <1>7, <1>8, <2>1
  <2>2. CASE c # a
    BY <1>3, <1>4, <1>7, <1>8, <2>2
  <2>3. QED
    BY <2>1, <2>2
<1>10. Grows(e, n) /\ e2 \in [0 .. n + 1 -> Nat] /\ Grows(e2, n + 1)
  BY <1>3 DEF Stored, Grows
<1>11. ASSUME NEW i \in 1 .. n + 1
       PROVE  Room(r[2][s2[i]]) /\ r[2][s2[i]].data = Run(e2[i - 1], e2[i])
  <2>1. CASE i <= n
    <3>1. s2[i] = s[i] /\ r[2][s2[i]] = b[s[i]]
      BY <1>3, <1>4, <1>8, <2>1
    <3>2. e2[i - 1] = e[i - 1] /\ e2[i] = e[i]
      BY <1>3, <2>1
    <3>3. QED
      BY <2>1, <3>1, <3>2 DEF Stored
  <2>2. CASE i = n + 1
    <3>1. e2[i - 1] = e[n] /\ e2[i] = t
      BY <1>3, <2>2
    <3>2. QED
      BY <1>4, <1>8, <2>2, <3>1
  <2>3. QED
    BY <1>3, <2>1, <2>2
<1>12. Stored(r[1], r[2], s2, e2)
  BY <1>2, <1>4, <1>6, <1>8, <1>9, <1>10, <1>11, Zenon DEF Stored
<1>13. Len(s2) = n + 1 /\ e2[0] = e[0] /\ e2[Len(s2)] = t
  BY <1>3, <1>4
<1>14. QED
  BY <1>12, <1>13 DEF r

LEMMA ListInit ==
    ASSUME NEW l \in ListType, NEW a \in Addresses
    PROVE  list_init(l, a) = [head |-> l.head, tail |-> l.tail,
                              next |-> [l.next EXCEPT ![a] = Null],
                              prev |-> [l.prev EXCEPT ![a] = Null]]
<1>. DEFINE r == list_init(l, a)
<1>1. r \in ListType
  BY DEF list_init, ListType, Pointers
<1>2. /\ r.head = l.head /\ r.tail = l.tail
      /\ r.next = [l.next EXCEPT ![a] = Null] /\ r.prev = [l.prev EXCEPT ![a] = Null]
  BY DEF list_init, ListType
<1>. HIDE DEF r
<1>3. r = [head |-> r.head, tail |-> r.tail, next |-> r.next, prev |-> r.prev]
  BY <1>1 DEF ListType
<1>4. QED
  BY <1>2, <1>3 DEF r

(* The first buffer is freed; the others stay as they are.                 *)
LEMMA FirstFreedStored ==
    ASSUME NEW l, NEW b, NEW s, NEW e, Stored(l, b, s, e), Len(s) # 0
    PROVE  LET r == FirstFreed(<<l, b>>)
           IN  Stored(r[1], r[2], [i \in 1 .. Len(s) - 1 |-> s[i + 1]],
                      [i \in 0 .. Len(s) - 1 |-> e[i + 1]])
<1>. DEFINE n == Len(s)
            a == l.head
            r == FirstFreed(<<l, b>>)
            l1 == list_remove_item(l, a)
            l2 == list_init(l1, a)
            l3 == Dangling(l2, a)
            s2 == [i \in 1 .. n - 1 |-> s[i + 1]]
            e2 == [i \in 0 .. n - 1 |-> e[i + 1]]
<1>1. r[1] = l3 /\ r[2] = [b EXCEPT ![a] = NoBuffer]
  BY DEF FirstFreed
<1>. HIDE DEF r
<1>2. /\ l \in ListType /\ s \in Seq(Addresses) /\ n \in Nat \ {0}
      /\ \A i \in 1 .. n : s[i] \in Addresses
      /\ a = s[1] /\ a \in Addresses /\ l.tail = s[n] /\ l.tail \in Addresses
  BY DEF Stored, Chain
<1>2a. n \in Nat \ {0}
  BY <1>2
<1>3. \A i, j \in 1 .. n : s[i] = s[j] => i = j
  BY DEF Stored, Chain
<1>. HIDE DEF a
<1>4. /\ s2 \in Seq(Addresses) /\ Len(s2) = n - 1
      /\ \A i \in 1 .. n - 1 : s2[i] = s[i + 1] /\ s2[i] # a /\ i + 1 \in 2 .. n
  BY <1>2, <1>3
<1>. HIDE DEF s2
<1>5. /\ l.next \in [Addresses -> Pointers] /\ l.prev \in [Addresses -> Pointers]
      /\ l.head \in Pointers /\ l.tail \in Pointers
  BY <1>2 DEF ListType
<1>6. /\ l3 = [head |-> l3.head, tail |-> l3.tail, next |-> l3.next, prev |-> l3.prev]
      /\ l3.head = IF n = 1 THEN Null ELSE s[2]
      /\ l3.tail = IF n = 1 THEN Null ELSE s[n]
      /\ l3.next = [c \in Addresses |->
                      IF c = a THEN Null ELSE IF l.next[c] = a THEN Nowhere ELSE l.next[c]]
      /\ l3.prev = [c \in Addresses |->
                      IF c = a THEN Null ELSE IF l.prev[c] = a THEN Nowhere ELSE l.prev[c]]
  <2>1. CASE n = 1
    <3>1. l1 = [l EXCEPT !.head = Null, !.tail = Null]
      BY <1>2, <2>1 DEF list_remove_item, a
    <3>2. l2 = [head |-> Null, tail |-> Null, next |-> [l.next EXCEPT ![a] = Null],
                prev |-> [l.prev EXCEPT ![a] = Null]]
      <4>1. l1 = [head |-> Null, tail |-> Null, next |-> l.next, prev |-> l.prev]
        BY <1>2, <3>1 DEF ListType
      <4>. HIDE DEF l1
      <4>2. l1 \in ListType
        BY <1>5, <4>1 DEF ListType, Pointers
      <4>3. QED
        BY <1>2, <4>1, <4>2, ListInit
    <3>. HIDE DEF l2
    <3>3. a # Null
      BY <1>2, Bounds
    <3>4. QED
      BY <1>2, <1>5, <2>1, <3>2, <3>3 DEF Dangling
  <2>2. CASE n # 1
    <3>0. s[1] # s[n] /\ s[1] # s[2] /\ 1 \in 1 .. n /\ 2 \in 1 .. n /\ n \in 1 .. n
      <4>1. 1 \in 1 .. n /\ 2 \in 1 .. n /\ n \in 1 .. n
        <5>. HIDE DEF n
        <5>1. QED
          BY <1>2a, <2>2
      <4>2. QED
        BY <1>3, <2>2, <4>1
    <3>1. l.head # l.tail /\ l.next[a] = s[2] /\ l.head = a
      <4>1. l.next[s[1]] = s[1 + 1]
        BY <2>2, <3>0 DEF Stored, Chain
      <4>2. QED
        BY <1>2, <3>0, <4>1 DEF a
    <3>2. l1 = [l EXCEPT !.head = s[2]]
      BY <3>1 DEF list_remove_item
    <3>3. l2 = [head |-> s[2], tail |-> s[n], next |-> [l.next EXCEPT ![a] = Null],
                prev |-> [l.prev EXCEPT ![a] = Null]]
      <4>1. l1 = [head |-> s[2], tail |-> s[n], next |-> l.next, prev |-> l.prev]
        BY <1>2, <3>2 DEF ListType
      <4>. HIDE DEF l1
      <4>2. l1 \in ListType
        BY <1>2, <1>5, <3>0, <4>1 DEF ListType, Pointers
      <4>3. QED
        BY <1>2, <4>1, <4>2, ListInit
    <3>. HIDE DEF l2
    <3>4. a # Null /\ s[2] # a /\ s[n] # a
      BY <1>2, <3>0, Bounds
    <3>5. QED
      BY <1>2, <1>5, <2>2, <3>3, <3>4 DEF Dangling
  <2>3. QED
    BY <2>1, <2>2
<1>. HIDE DEF l3
<1>7. Chain(l3, s2)
  <2>1. l3 \in ListType
    <3>1. /\ Null \in Pointers /\ Nowhere \in Pointers /\ l3.head \in Pointers
          /\ l3.tail \in Pointers
      <4>1. n # 1 => s[2] \in Addresses /\ s[n] \in Addresses
        <5>1. n # 1 => 2 \in 1 .. n /\ n \in 1 .. n
          <6>. HIDE DEF n
          <6>1. QED
            BY <1>2a
        <5>2. QED
          BY <1>2, <5>1
      <4>2. QED
        BY <1>6, <4>1 DEF Pointers
    <3>2. l3.next \in [Addresses -> Pointers] /\ l3.prev \in [Addresses -> Pointers]
      BY <1>5, <1>6, <3>1
    <3>3. QED
      BY <1>6, <3>1, <3>2, Zenon DEF ListType
  <2>2. Len(s2) <= MaxAddress
    BY <1>2, <1>4, Bounds DEF Stored, Chain
  <2>3. \A i, j \in 1 .. Len(s2) : s2[i] = s2[j] => i = j
    BY <1>2, <1>3, <1>4
  <2>4. /\ l3.head = IF Len(s2) = 0 THEN Null ELSE s2[1]
        /\ l3.tail = IF Len(s2) = 0 THEN Null ELSE s2[Len(s2)]
    BY <1>2, <1>4, <1>6
  <2>5. \A i \in 1 .. Len(s2) : l3.next[s2[i]] = IF i = Len(s2) THEN Null ELSE s2[i + 1]
    <3>1. ASSUME NEW i \in 1 .. n - 1
          PROVE  l3.next[s2[i]] = IF i = n - 1 THEN Null ELSE s2[i + 1]
      <4>1. s2[i] = s[i + 1] /\ s2[i] \in Addresses /\ s2[i] # a /\ i + 1 \in 2 .. n
        BY <1>2, <1>4
      <4>2. l.next[s[i + 1]] = IF i + 1 = n THEN Null ELSE s[i + 2]
        BY <1>2, <4>1 DEF Stored, Chain
      <4>3. CASE i = n - 1
        BY <1>2, <1>6, <4>1, <4>2, <4>3, Bounds
      <4>4. CASE i # n - 1
        <5>1. s2[i + 1] = s[i + 2] /\ s[i + 2] # a /\ i + 1 # n
          BY <1>2, <1>4, <4>4
        <5>2. QED
          BY <1>2, <1>6, <4>1, <4>2, <4>4, <5>1
      <4>5. QED
        BY <4>3, <4>4
    <3>2. QED
      BY <1>4, <3>1
  <2>6. \A i \in 2 .. Len(s2) : l3.prev[s2[i]] = s2[i - 1]
    <3>1. ASSUME NEW i \in 2 .. n - 1 PROVE l3.prev[s2[i]] = s2[i - 1]
      <4>1. s2[i] = s[i + 1] /\ s2[i] \in Addresses /\ s2[i] # a /\ i + 1 \in 2 .. n
        BY <1>2, <1>4
      <4>2. s2[i - 1] = s[i] /\ s[i] # a
        BY <1>2, <1>4
      <4>3. l.prev[s[i + 1]] = s[i]
        BY <1>2, <4>1 DEF Stored, Chain
      <4>4. QED
        BY <1>6, <4>1, <4>2, <4>3
    <3>2. QED
      BY <1>4, <3>1
  <2>7. Len(s2) # 0 => l3.prev[s2[1]] \notin Addresses
    <3>1. ASSUME Len(s2) # 0 PROVE l3.prev[s2[1]] = Nowhere
      <4>1. s2[1] = s[2] /\ s[2] \in Addresses /\ s[2] # a /\ 2 \in 2 .. n
        BY <1>2, <1>4, <3>1
      <4>2. l.prev[s[2]] = a
        BY <1>2, <4>1 DEF Stored, Chain
      <4>3. QED
        BY <1>6, <4>1, <4>2
    <3>2. QED
      BY <3>1, Bounds
  <2>8. ASSUME NEW c \in Addresses, \A i \in 1 .. Len(s2) : s2[i] # c
        PROVE  l3.next[c] = Null /\ l3.prev[c] = Null
    <3>1. CASE c = a
      BY <1>6, <3>1
    <3>2. CASE c # a
      <4>1. \A i \in 1 .. n : s[i] # c
        <5>1. ASSUME NEW i \in 1 .. n PROVE s[i] # c
          <6>1. CASE i = 1
            BY <1>2, <3>2, <6>1
          <6>2. CASE i # 1
            <7>1. i - 1 \in 1 .. n - 1 /\ s2[i - 1] = s[i]
              BY <1>2, <1>4, <6>2
            <7>2. QED
              BY <1>4, <2>8, <7>1
          <6>3. QED
            BY <6>1, <6>2
        <5>2. QED
          BY <5>1
      <4>2. l.next[c] = Null /\ l.prev[c] = Null
        BY <4>1 DEF Stored, Chain
      <4>3. QED
        BY <1>2, <1>6, <3>2, <4>2, Bounds
    <3>3. QED
      BY <3>1, <3>2
  <2>9. QED
    BY <1>4, <2>1, <2>2, <2>3, <2>4, <2>5, <2>6, <2>7, <2>8, Zenon DEF Chain
<1>8. /\ b \in [Addresses -> Buffers \cup {NoBuffer}]
      /\ \A c \in Addresses : b[c] # NoBuffer <=> \E i \in 1 .. n : s[i] = c
      /\ \A i \in 1 .. n : Room(b[s[i]]) /\ b[s[i]].data = Run(e[i - 1], e[i])
  BY DEF Stored
<1>9. /\ r[2] \in [Addresses -> Buffers \cup {NoBuffer}] /\ r[2][a] = NoBuffer
      /\ \A c \in Addresses : c # a => r[2][c] = b[c]
  BY <1>1, <1>2, <1>8
<1>10. ASSUME NEW c \in Addresses
       PROVE  r[2][c] # NoBuffer <=> \E i \in 1 .. n - 1 : s2[i] = c
  <2>1. CASE c = a
    BY <1>4, <1>9, <2>1
  <2>2. CASE c # a
    <3>1. (\E i \in 1 .. n : s[i] = c) <=> \E i \in 1 .. n - 1 : s2[i] = c
      <4>1. ASSUME NEW i \in 1 .. n, s[i] = c PROVE \E k \in 1 .. n - 1 : s2[k] = c
        <5>1. i # 1
          BY <1>2, <2>2, <4>1
        <5>2. i - 1 \in 1 .. n - 1 /\ s2[i - 1] = s[i]
          BY <1>2, <1>4, <5>1
        <5>3. QED
          BY <4>1, <5>2
      <4>2. ASSUME NEW i \in 1 .. n - 1, s2[i] = c PROVE \E k \in 1 .. n : s[k] = c
        BY <1>2, <1>4, <4>2
      <4>3. QED
        BY <4>1, <4>2
    <3>2. QED
      BY <1>8, <1>9, <2>2, <3>1
  <2>3. QED
    BY <2>1, <2>2
<1>11. Grows(e2, n - 1)
  <2>1. Grows(e, n)
    BY DEF Stored
  <2>2. QED
    BY <1>2, <2>1 DEF Grows
<1>12. ASSUME NEW i \in 1 .. n - 1
       PROVE  Room(r[2][s2[i]]) /\ r[2][s2[i]].data = Run(e2[i - 1], e2[i])
  <2>1. s2[i] = s[i + 1] /\ r[2][s2[i]] = b[s[i + 1]] /\ i + 1 \in 1 .. n
    BY <1>2, <1>4, <1>9
  <2>2. e2[i - 1] = e[i] /\ e2[i] = e[i + 1] /\ (i + 1) - 1 = i
    BY <1>2
  <2>3. QED
    BY <1>8, <2>1, <2>2
<1>13. Stored(r[1], r[2], s2, e2)
  BY <1>1, <1>4, <1>7, <1>9, <1>10, <1>11, <1>12, Zenon DEF Stored
<1>14. QED
  BY <1>13 DEF s2, r
(* k buffers, of which the i-th holds the bytes after f[i - 1] up to f[i]. *)
Runs(bs, k, f) ==
    /\ Len(bs) = k
    /\ Grows(f, k)
    /\ \A i \in 1 .. k : Room(bs[i]) /\ bs[i].data = Run(f[i - 1], f[i])

(* Several buffers are appended, the bytes of each following those of the  *)
(* one before.                                                             *)
LEMMA AllAppendedStored ==
    ASSUME NEW l, NEW b, NEW s, NEW e, Stored(l, b, s, e),
           NEW k \in Nat, Len(s) + k <= MaxAddress,
           NEW bs, NEW f, Runs(bs, k, f), f[0] = e[Len(s)]
    PROVE  LET r == AllAppended(<<l, b>>, bs)
           IN  \E s2, e2 : Stored(r[1], r[2], s2, e2) /\ e2[0] = e[0] /\ e2[Len(s2)] = f[k]
<1>. DEFINE st == <<l, b>>
            after == CHOOSE g : g = [i \in 0 .. Len(bs) |->
                                       IF i = 0 THEN st ELSE Appended(g[i - 1], bs[i])]
            E(m, g) == g = [i \in 0 .. m |-> IF i = 0 THEN st ELSE Appended(g[i - 1], bs[i])]
            T == {m \in 0 .. k : \E g : E(m, g)}
            U == {m \in 0 .. k :
                    \E s2, e2 : /\ Stored(after[m][1], after[m][2], s2, e2)
                                /\ Len(s2) = Len(s) + m /\ e2[0] = e[0] /\ e2[Len(s2)] = f[m]}
<1>0. /\ Len(bs) = k /\ Grows(f, k)
      /\ \A i \in 1 .. k : Room(bs[i]) /\ bs[i].data = Run(f[i - 1], f[i])
  BY DEF Runs
<1>1. AllAppended(st, bs) = after[k]
  BY <1>0 DEF AllAppended
<1>. HIDE DEF st
<1>2. 0 \in T
  <2>1. E(0, [i \in 0 .. 0 |-> st])
    OBVIOUS
  <2>2. 0 \in 0 .. k
    OBVIOUS
  <2>. HIDE DEF E
  <2>3. QED
    BY <2>1, <2>2
<1>3. ASSUME NEW m \in 0 .. k - 1, m \in T PROVE m + 1 \in T
  <2>1. PICK g : E(m, g)
    BY <1>3
  <2>. DEFINE h == [i \in 0 .. m + 1 |-> IF i = m + 1 THEN Appended(g[m], bs[m + 1]) ELSE g[i]]
  <2>2. \A i \in 0 .. m + 1 : h[i] = IF i = 0 THEN st ELSE Appended(h[i - 1], bs[i])
    <3>1. \A i \in 0 .. m : g[i] = IF i = 0 THEN st ELSE Appended(g[i - 1], bs[i])
      BY <2>1
    <3>2. ASSUME NEW i \in 0 .. m + 1
          PROVE  h[i] = IF i = 0 THEN st ELSE Appended(h[i - 1], bs[i])
      <4>1. CASE i = m + 1
        <5>1. h[i] = Appended(g[m], bs[i]) /\ h[i - 1] = g[m] /\ i # 0 /\ i - 1 = m
          BY <4>1
        <5>2. QED
          BY <5>1, Zenon
      <4>2. CASE i # m + 1 /\ i # 0
        <5>1. h[i] = g[i] /\ h[i - 1] = g[i - 1] /\ i \in 0 .. m
          BY <4>2
        <5>2. QED
          BY <3>1, <4>2, <5>1
      <4>3. CASE i = 0
        BY <3>1, <4>3
      <4>4. QED
        BY <4>1, <4>2, <4>3
    <3>3. QED
      BY <3>2
  <2>3. E(m + 1, h)
    <3>1. h = [i \in 0 .. m + 1 |-> h[i]]
      OBVIOUS
    <3>. HIDE DEF h
    <3>2. QED
      BY <2>2, <3>1
  <2>4. m + 1 \in 0 .. k
    OBVIOUS
  <2>. HIDE DEF h, E
  <2>5. QED
    BY <2>3, <2>4
<1>4. k \in T
  <2>. HIDE DEF T
  <2>1. 0 .. k \subseteq T
    BY <1>2, <1>3, UpTo
  <2>2. QED
    BY <2>1
<1>5. E(k, after)
  <2>1. \E g : E(k, g)
    BY <1>4
  <2>2. QED
    BY <1>0, <2>1, Zenon
<1>6. \A i \in 0 .. k : after[i] = IF i = 0 THEN st ELSE Appended(after[i - 1], bs[i])
  <2>. HIDE DEF after
  <2>1. QED
    BY <1>5
<1>. HIDE DEF after
<1>7. 0 \in U
  <2>1. after[0] = st /\ f[0] = e[Len(s)] /\ 0 \in 0 .. k /\ Len(s) + 0 = Len(s)
    BY <1>6 DEF Stored, Chain
  <2>2. after[0][1] = l /\ after[0][2] = b
    BY <2>1 DEF st
  <2>3. QED
    BY <2>1, <2>2
<1>8. ASSUME NEW m \in 0 .. k - 1, m \in U PROVE m + 1 \in U
  <2>1. PICK s2, e2 : /\ Stored(after[m][1], after[m][2], s2, e2)
                      /\ Len(s2) = Len(s) + m /\ e2[0] = e[0] /\ e2[Len(s2)] = f[m]
    BY <1>8
  <2>2. PICK l3, b3, x, t : l3 = after[m][1] /\ b3 = after[m][2] /\ x = bs[m + 1] /\ t = f[m + 1]
    OBVIOUS
  <2>3. after[m + 1] = Appended(after[m], x) /\ m + 1 \in 1 .. k /\ m + 1 - 1 = m
    BY <1>6, <2>2
  <2>4. Appended(after[m], x) = Appended(<<l3, b3>>, x)
    BY <2>2 DEF Appended, NewAddress
  <2>5. Room(x) /\ t \in Nat /\ f[m] <= t /\ x.data = Run(f[m], t)
    BY <1>0, <2>2, <2>3 DEF Grows
  <2>6. /\ Stored(l3, b3, s2, e2) /\ Len(s2) < MaxAddress /\ Len(s2) + 1 = Len(s) + (m + 1)
        /\ e2[Len(s2)] <= t /\ x.data = Run(e2[Len(s2)], t)
    <3>1. Len(s) \in Nat
      BY DEF Stored, Chain
    <3>2. QED
      BY <2>1, <2>2, <2>5, <3>1, Bounds
  <2>7. PICK s3, e3 : /\ Stored(after[m + 1][1], after[m + 1][2], s3, e3)
                      /\ Len(s3) = Len(s2) + 1 /\ e3[0] = e2[0] /\ e3[Len(s3)] = t
    BY <2>3, <2>4, <2>5, <2>6, AppendedStored
  <2>8. Len(s3) = Len(s) + (m + 1) /\ e3[0] = e[0] /\ e3[Len(s3)] = f[m + 1]
    BY <2>1, <2>2, <2>6, <2>7
  <2>9. m + 1 \in 0 .. k
    OBVIOUS
  <2>10. QED
    BY <2>7, <2>8, <2>9
<1>9. k \in U
  <2>. HIDE DEF U
  <2>1. 0 .. k \subseteq U
    BY <1>7, <1>8, UpTo
  <2>2. QED
    BY <2>1
<1>10. QED
  BY <1>1, <1>9 DEF st

(* j buffers, of those there are, are freed.                               *)
LEMMA FreedStored ==
    ASSUME NEW l, NEW b, NEW s, NEW e, Stored(l, b, s, e), NEW j \in 0 .. Len(s)
    PROVE  LET r == Freed(<<l, b>>, j)
           IN  Stored(r[1], r[2], [i \in 1 .. Len(s) - j |-> s[i + j]],
                      [i \in 0 .. Len(s) - j |-> e[i + j]])
<1>. DEFINE st == <<l, b>>
            n == Len(s)
            freed == CHOOSE g : g = [i \in 0 .. j |->
                                       IF i = 0 THEN st ELSE FirstFreed(g[i - 1])]
            E(m, g) == g = [i \in 0 .. m |-> IF i = 0 THEN st ELSE FirstFreed(g[i - 1])]
            T == {m \in 0 .. j : \E g : E(m, g)}
            S2(m) == [i \in 1 .. n - m |-> s[i + m]]
            E2(m) == [i \in 0 .. n - m |-> e[i + m]]
            U == {m \in 0 .. j : Stored(freed[m][1], freed[m][2], S2(m), E2(m))}
<1>0. n \in Nat /\ j \in Nat /\ s \in [1 .. n -> Addresses] /\ e \in [0 .. n -> Nat]
  BY DEF Stored, Chain, Grows
<1>1. Freed(st, j) = freed[j]
  BY DEF Freed
<1>. HIDE DEF st
<1>2. 0 \in T
  <2>1. E(0, [i \in 0 .. 0 |-> st])
    OBVIOUS
  <2>2. 0 \in 0 .. j
    BY <1>0
  <2>. HIDE DEF E
  <2>3. QED
    BY <2>1, <2>2
<1>3. ASSUME NEW m \in 0 .. j - 1, m \in T PROVE m + 1 \in T
  <2>1. PICK g : E(m, g)
    BY <1>3
  <2>. DEFINE h == [i \in 0 .. m + 1 |-> IF i = m + 1 THEN FirstFreed(g[m]) ELSE g[i]]
  <2>2. \A i \in 0 .. m + 1 : h[i] = IF i = 0 THEN st ELSE FirstFreed(h[i - 1])
    <3>1. \A i \in 0 .. m : g[i] = IF i = 0 THEN st ELSE FirstFreed(g[i - 1])
      BY <2>1
    <3>2. ASSUME NEW i \in 0 .. m + 1
          PROVE  h[i] = IF i = 0 THEN st ELSE FirstFreed(h[i - 1])
      <4>1. CASE i = m + 1
        <5>1. h[i] = FirstFreed(g[m]) /\ h[i - 1] = g[m] /\ i # 0
          BY <1>0, <4>1
        <5>2. QED
          BY <5>1, Zenon
      <4>2. CASE i # m + 1 /\ i # 0
        <5>1. h[i] = g[i] /\ h[i - 1] = g[i - 1] /\ i \in 0 .. m
          BY <1>0, <4>2
        <5>2. QED
          BY <3>1, <4>2, <5>1
      <4>3. CASE i = 0
        BY <1>0, <3>1, <4>3
      <4>4. QED
        BY <4>1, <4>2, <4>3
    <3>3. QED
      BY <3>2
  <2>3. E(m + 1, h)
    <3>1. h = [i \in 0 .. m + 1 |-> h[i]]
      OBVIOUS
    <3>. HIDE DEF h
    <3>2. QED
      BY <2>2, <3>1
  <2>4. m + 1 \in 0 .. j
    BY <1>0
  <2>. HIDE DEF h, E
  <2>5. QED
    BY <2>3, <2>4
<1>4. j \in T
  <2>. HIDE DEF T
  <2>1. 0 .. j \subseteq T
    BY <1>0, <1>2, <1>3, UpTo
  <2>2. QED
    BY <1>0, <2>1
<1>5. E(j, freed)
  <2>1. \E g : E(j, g)
    BY <1>4
  <2>2. QED
    BY <2>1, Zenon
<1>6. \A i \in 0 .. j : freed[i] = IF i = 0 THEN st ELSE FirstFreed(freed[i - 1])
  <2>. HIDE DEF freed
  <2>1. QED
    BY <1>5
<1>. HIDE DEF freed
<1>7. 0 \in U
  <2>1. freed[0] = st /\ 0 \in 0 .. j
    BY <1>0, <1>6
  <2>2. freed[0][1] = l /\ freed[0][2] = b
    BY <2>1 DEF st
  <2>3. S2(0) = s /\ E2(0) = e
    BY <1>0
  <2>. HIDE DEF S2, E2
  <2>4. QED
    BY <2>1, <2>2, <2>3
<1>8. ASSUME NEW m \in 0 .. j - 1, m \in U PROVE m + 1 \in U
  <2>. DEFINE p == <<freed[m][1], freed[m][2]>>
              r == FirstFreed(p)
  <2>1. freed[m + 1] = FirstFreed(freed[m]) /\ m + 1 \in 0 .. j /\ m \in 0 .. n - 1
    <3>1. m + 1 \in 0 .. j /\ m + 1 # 0 /\ m + 1 - 1 = m /\ m \in 0 .. n - 1
      BY <1>0
    <3>2. QED
      BY <1>6, <3>1
  <2>2. r = FirstFreed(freed[m])
    BY DEF FirstFreed
  <2>3. Len(S2(m)) = n - m /\ Len(S2(m)) # 0
    <3>. HIDE DEF n
    <3>1. n - m \in Nat \ {0}
      BY <1>0, <2>1
    <3>2. QED
      BY <3>1
  <2>4. S2(m + 1) = [i \in 1 .. Len(S2(m)) - 1 |-> S2(m)[i + 1]]
    <3>1. \A i \in 1 .. n - m - 1 : S2(m)[i + 1] = s[i + (m + 1)]
      BY <1>0, <2>1
    <3>2. n - (m + 1) = n - m - 1
      BY <1>0
    <3>3. QED
      BY <2>3, <3>1, <3>2
  <2>5. E2(m + 1) = [i \in 0 .. Len(S2(m)) - 1 |-> E2(m)[i + 1]]
    <3>1. \A i \in 0 .. n - m - 1 : E2(m)[i + 1] = e[i + (m + 1)]
      BY <1>0, <2>1
    <3>2. n - (m + 1) = n - m - 1
      BY <1>0
    <3>3. QED
      BY <2>3, <3>1, <3>2
  <2>6. Stored(freed[m][1], freed[m][2], S2(m), E2(m))
    BY <1>8
  <2>. HIDE DEF S2, E2
  <2>7. Stored(r[1], r[2], S2(m + 1), E2(m + 1))
    <3>1. \A l3, b3, s3, e3 : Stored(l3, b3, s3, e3) /\ Len(s3) # 0 =>
             Stored(FirstFreed(<<l3, b3>>)[1], FirstFreed(<<l3, b3>>)[2],
                    [i \in 1 .. Len(s3) - 1 |-> s3[i + 1]],
                    [i \in 0 .. Len(s3) - 1 |-> e3[i + 1]])
      BY FirstFreedStored
    <3>2. Stored(r[1], r[2], [i \in 1 .. Len(S2(m)) - 1 |-> S2(m)[i + 1]],
                 [i \in 0 .. Len(S2(m)) - 1 |-> E2(m)[i + 1]])
      BY <2>3, <2>6, <3>1, Zenon
    <3>3. QED
      BY <2>4, <2>5, <3>2, Zenon
  <2>. HIDE DEF r
  <2>8. QED
    BY <2>1, <2>2, <2>7
<1>9. j \in U
  <2>. HIDE DEF U
  <2>1. 0 .. j \subseteq U
    BY <1>0, <1>7, <1>8, UpTo
  <2>2. QED
    BY <1>0, <2>1
<1>10. QED
  BY <1>1, <1>9 DEF st
-----------------------------------------------------------------------------
(* The buffers that bstream_write makes *)

LEMMA Quotient ==
    ASSUME NEW n \in Nat, NEW b \in Nat \ {0}
    PROVE  n \div b \in Nat /\ (n \div b) * b <= n /\ n < (n \div b) * b + b
OBVIOUS

LEMMA TimesGrows ==
    ASSUME NEW n \in Nat, NEW m \in Nat, NEW b \in Nat \ {0}
    PROVE  /\ n * b \in Nat /\ (n + 1) * b = n * b + b
           /\ n <= m => n * b <= m * b
           /\ n * b < m * b => n < m
OBVIOUS

(* As many buffers as n bytes need, of up to remain, and not more than     *)
(* there are addresses for.                                                *)
LEMMA ChunksNeeded ==
    ASSUME NEW remain \in 0 .. MaxLen, NEW n \in 0 .. remain
    PROVE  LET k == ChunkCount(remain, n)
           IN  /\ k \in Nat \ {0} /\ k <= MaxLen \div BufferSize + 1
               /\ \A i \in 0 .. k - 1 : i * BufferSize <= n
               /\ n <= k * BufferSize
<1>. DEFINE k == ChunkCount(remain, n)
            q == MaxLen \div BufferSize
            b == BufferSize
<1>1. b \in Nat \ {0} /\ MaxLen \in Nat /\ n \in Nat /\ remain \in Nat /\ n <= MaxLen
  BY Bounds
<1>. HIDE DEF b
<1>2. k \in Nat \ {0} /\ (k - 1) * b <= n /\ n <= k * b
  <2>1. CASE n = remain /\ n > 0
    <3>. DEFINE d == n + b - 1
    <3>1. d \in Nat /\ k = d \div b
      BY <1>1, <2>1 DEF ChunkCount, b
    <3>2. k \in Nat /\ k * b <= d /\ d < k * b + b /\ k * b \in Nat
      <4>. HIDE DEF d, k
      <4>1. QED
        BY <1>1, <3>1, Quotient, TimesGrows
    <3>3. k # 0
      <4>. HIDE DEF k
      <4>1. ASSUME k = 0 PROVE FALSE
        <5>1. k * b = 0
          BY <1>1, <4>1
        <5>2. QED
          BY <1>1, <2>1, <3>2, <5>1
      <4>2. QED
        BY <4>1
    <3>. HIDE DEF k
    <3>4. (k - 1) * b + b = k * b /\ (k - 1) * b \in Nat
      <4>1. k - 1 \in Nat /\ (k - 1) + 1 = k
        BY <3>2, <3>3
      <4>2. QED
        BY <1>1, <4>1, TimesGrows
    <3>5. QED
      BY <1>1, <3>2, <3>3, <3>4
  <2>2. CASE ~(n = remain /\ n > 0)
    <3>. DEFINE d == n \div b
    <3>1. k = d + 1
      BY <1>1, <2>2 DEF ChunkCount, b
    <3>2. d \in Nat /\ d * b <= n /\ n < d * b + b
      BY <1>1, Quotient
    <3>. HIDE DEF d, k
    <3>3. (d + 1) * b = d * b + b
      BY <1>1, <3>2, TimesGrows
    <3>4. QED
      BY <1>1, <3>1, <3>2, <3>3
  <2>3. QED
    BY <2>1, <2>2
<1>. HIDE DEF k
<1>3. k <= q + 1
  <2>1. q \in Nat /\ MaxLen < q * b + b
    BY <1>1, Quotient DEF b
  <2>. HIDE DEF q
  <2>2. (q + 1) * b = q * b + b /\ q + 1 \in Nat /\ k - 1 \in Nat
    BY <1>1, <1>2, <2>1, TimesGrows
  <2>3. (k - 1) * b \in Nat /\ (q + 1) * b \in Nat /\ q * b \in Nat
    BY <1>1, <2>1, <2>2, TimesGrows
  <2>4. (k - 1) * b < (q + 1) * b
    BY <1>1, <1>2, <2>1, <2>2, <2>3
  <2>5. k - 1 < q + 1
    BY <1>1, <2>2, <2>4, TimesGrows
  <2>6. QED
    BY <1>2, <2>1, <2>5
<1>4. \A i \in 0 .. k - 1 : i * b <= n
  <2>1. ASSUME NEW i \in 0 .. k - 1 PROVE i * b <= n
    <3>1. i \in Nat /\ k - 1 \in Nat /\ i <= k - 1
      BY <1>2
    <3>2. i * b <= (k - 1) * b /\ i * b \in Nat /\ (k - 1) * b \in Nat
      BY <1>1, <3>1, TimesGrows
    <3>3. QED
      BY <1>1, <1>2, <3>2
  <2>2. QED
    BY <2>1
<1>5. QED
  BY <1>2, <1>3, <1>4 DEF k, q, b

(* The first k buffers for the bytes after number w hold them in order.    *)
LEMMA ChunksHold ==
    ASSUME NEW w \in Nat, NEW n \in Nat, NEW k \in Nat,
           \A i \in 0 .. k - 1 : i * BufferSize <= n
    PROVE  LET bs == Chunks(Run(w, w + n), k)
               f == [i \in 0 .. k |-> w + Lesser(i * BufferSize, n)]
           IN  Runs(bs, k, f)
<1>. DEFINE b == BufferSize
            rest == Run(w, w + n)
            bs == Chunks(rest, k)
            f == [i \in 0 .. k |-> w + Lesser(i * b, n)]
<1>1. b \in Nat \ {0}
  BY Bounds
<1>. HIDE DEF b
<1>2. \A i \in 0 .. k : i * b \in Nat /\ f[i] = w + Lesser(i * b, n)
  BY <1>1, TimesGrows
<1>3. rest \in Seq(Nat) /\ Len(rest) = n
  <2>1. w + n \in Nat /\ w <= w + n /\ w + n - w = n
    OBVIOUS
  <2>2. QED
    BY <2>1, RunIsSeq
<1>4. Len(bs) = k /\ \A i \in 1 .. k : bs[i] = Chunk(rest, i)
  BY DEF Chunks
<1>5. \A i \in 0 .. k - 1 : i * b <= n
  BY DEF b
<1>. HIDE DEF f, bs
<1>6. ASSUME NEW i \in 1 .. k
      PROVE  /\ f[i - 1] \in Nat /\ f[i] \in Nat /\ f[i - 1] <= f[i]
             /\ Room(bs[i]) /\ bs[i].data = Run(f[i - 1], f[i])
  <2>. DEFINE p == (i - 1) * b
              t == Lesser(i * b, n)
              part == SubSeq(rest, p + 1, Lesser(i * b, Len(rest)))
  <2>1. i - 1 \in 0 .. k - 1 /\ i - 1 \in Nat /\ (i - 1) + 1 = i /\ i \in 0 .. k /\ i - 1 \in 0 .. k
    OBVIOUS
  <2>2. p \in Nat /\ p <= n /\ i * b = p + b
    BY <1>1, <1>5, <2>1, TimesGrows
  <2>. HIDE DEF p
  <2>3. t \in Nat /\ p <= t /\ t <= n /\ t - p <= b
    BY <1>1, <2>2 DEF Lesser
  <2>4. f[i] = w + t /\ f[i - 1] = w + p
    <3>1. Lesser(p, n) = p
      BY <2>2 DEF Lesser
    <3>2. QED
      BY <1>2, <2>1, <3>1 DEF p
  <2>5. bs[i] = Buffer("copied", part, b - Len(part))
    <3>1. bs[i] = Chunk(rest, i)
      BY <1>4
    <3>2. QED
      BY <3>1 DEF Chunk, b, p
  <2>6. part = SubSeq(rest, p + 1, t)
    BY <1>3
  <2>. HIDE DEF t
  <2>7. SubSeq(rest, p + 1, t) = Run(w + p, w + t)
    <3>1. /\ w + n \in Nat /\ w <= w + n /\ p + 1 \in 1 .. (w + n) - w + 1
          /\ t \in 0 .. (w + n) - w /\ p + 1 <= t + 1 /\ w + (p + 1) - 1 = w + p
      BY <2>2, <2>3
    <3>2. SubSeq(rest, p + 1, t) = Run(w + (p + 1) - 1, w + t)
      BY <3>1, RunCut, Zenon
    <3>3. QED
      BY <3>1, <3>2
  <2>. HIDE DEF part
  <2>8. part \in Seq(Nat) /\ Len(part) = t - p
    <3>1. w + p \in Nat /\ w + t \in Nat /\ w + p <= w + t /\ (w + t) - (w + p) = t - p
      BY <2>2, <2>3
    <3>2. QED
      BY <2>6, <2>7, <3>1, RunIsSeq
  <2>9. Room(bs[i]) /\ bs[i].data = part
    BY <1>1, <2>2, <2>3, <2>5, <2>8 DEF Room, Buffer, Buffers, b
  <2>10. QED
    BY <2>2, <2>3, <2>4, <2>6, <2>7, <2>9
<1>7. Grows(f, k)
  <2>1. \A i \in 0 .. k : f[i] \in Nat
    BY <1>2 DEF Lesser
  <2>2. f \in [0 .. k -> Nat]
    BY <2>1 DEF f
  <2>3. QED
    BY <1>6, <2>2 DEF Grows
<1>8. QED
  BY <1>4, <1>6, <1>7 DEF bs, f, b, Runs
-----------------------------------------------------------------------------
(* One buffer changes *)

(* x, in place of the i-th buffer, makes e into f.                         *)
Replaces(x, s, i, e, f) ==
    /\ Room(x)
    /\ Grows(f, Len(s))
    /\ x.data = Run(f[i - 1], f[i])
    /\ \A k \in 1 .. Len(s) : k # i => f[k - 1] = e[k - 1] /\ f[k] = e[k]

(* Bytes added at the end of the buffer at a, t bytes of it taken.         *)
Added(b, a, bytes, t) == [b EXCEPT ![a].data = @ \o bytes, ![a].free_space = @ - t]
Cut(b, a, t) == [b EXCEPT ![a].data = SubSeq(@, t + 1, Len(@))]

LEMMA ReplacedStored ==
    ASSUME NEW l, NEW b, NEW s, NEW e, Stored(l, b, s, e), NEW i \in 1 .. Len(s),
           NEW x, NEW f, Replaces(x, s, i, e, f)
    PROVE  Stored(l, [b EXCEPT ![s[i]] = x], s, f)
<1>. DEFINE c == [b EXCEPT ![s[i]] = x]
<1>1. /\ b \in [Addresses -> Buffers \cup {NoBuffer}] /\ x \in Buffers /\ x # NoBuffer
      /\ Len(s) \in Nat /\ \A k \in 1 .. Len(s) : s[k] \in Addresses
      /\ \A k \in 1 .. Len(s) : s[k] = s[i] => k = i
  BY NoBufferIsNone DEF Stored, Chain, Room, Replaces
<1>2. c \in [Addresses -> Buffers \cup {NoBuffer}]
  BY <1>1
<1>3. c[s[i]] = x /\ \A a \in Addresses : a # s[i] => c[a] = b[a]
  BY <1>1
<1>. HIDE DEF c
<1>4. \A a \in Addresses : c[a] # NoBuffer <=> \E k \in 1 .. Len(s) : s[k] = a
  <2>1. \A a \in Addresses : b[a] # NoBuffer <=> \E k \in 1 .. Len(s) : s[k] = a
    BY DEF Stored
  <2>2. QED
    BY <1>1, <1>3, <2>1
<1>5. ASSUME NEW k \in 1 .. Len(s) PROVE Room(c[s[k]]) /\ c[s[k]].data = Run(f[k - 1], f[k])
  <2>1. CASE k = i
    BY <1>3, <2>1 DEF Replaces
  <2>2. CASE k # i
    <3>1. c[s[k]] = b[s[k]]
      BY <1>1, <1>3, <2>2
    <3>2. QED
      BY <2>2, <3>1 DEF Stored, Replaces
  <2>3. QED
    BY <2>1, <2>2
<1>6. Stored(l, c, s, f)
  <2>1. Chain(l, s) /\ Grows(f, Len(s))
    BY DEF Stored, Replaces
  <2>2. QED
    BY <1>2, <1>4, <1>5, <2>1, Zenon DEF Stored
<1>7. QED
  BY <1>6 DEF c

(* The last buffer takes t more bytes.                                     *)
LEMMA TailStored ==
    ASSUME NEW l, NEW b, NEW s, NEW e, Stored(l, b, s, e), Len(s) # 0,
           NEW t \in Nat, t <= b[l.tail].free_space
    PROVE  \E f : /\ Stored(l, Added(b, l.tail, Run(e[Len(s)], e[Len(s)] + t), t), s, f)
                  /\ f[0] = e[0] /\ f[Len(s)] = e[Len(s)] + t
<1>. DEFINE n == Len(s)
            y == b[s[n]]
            x == [y EXCEPT !.data = @ \o Run(e[n], e[n] + t), !.free_space = @ - t]
            f == [i \in 0 .. n |-> IF i = n THEN e[n] + t ELSE e[i]]
<1>1. n \in Nat \ {0} /\ l.tail = s[n] /\ n \in 1 .. n /\ s[n] \in Addresses
  BY DEF Stored, Chain
<1>2. Room(y) /\ y.data = Run(e[n - 1], e[n]) /\ b \in [Addresses -> Buffers \cup {NoBuffer}]
  BY <1>1 DEF Stored
<1>. HIDE DEF n
<1>3. /\ e \in [0 .. n -> Nat] /\ \A i \in 1 .. n : e[i - 1] <= e[i]
      /\ e[n - 1] \in Nat /\ e[n] \in Nat /\ e[n - 1] <= e[n] /\ 0 \in 0 .. n
  BY <1>1 DEF Stored, Grows, n
<1>4. Added(b, l.tail, Run(e[n], e[n] + t), t) = [b EXCEPT ![s[n]] = x]
  BY <1>1, <1>2 DEF Room, Buffers, Added
<1>5. y.data \o Run(e[n], e[n] + t) = Run(e[n - 1], e[n] + t)
  <2>1. PICK u \in Nat, v \in Nat, w \in Nat : u = e[n - 1] /\ v = e[n] /\ w = e[n] + t
    BY <1>3
  <2>2. u <= v /\ v <= w
    BY <1>3, <2>1
  <2>3. Run(u, v) \o Run(v, w) = Run(u, w)
    BY <2>2, RunsJoin
  <2>4. QED
    BY <1>2, <2>1, <2>3
<1>6. /\ Run(e[n - 1], e[n] + t) \in Seq(Nat)
      /\ Len(Run(e[n - 1], e[n] + t)) = Len(y.data) + t
  <2>1. \A u, w \in Nat : u <= w => Run(u, w) \in Seq(Nat) /\ Len(Run(u, w)) = w - u
    BY RunIsSeq
  <2>2. /\ Run(e[n - 1], e[n] + t) \in Seq(Nat)
        /\ Len(Run(e[n - 1], e[n] + t)) = (e[n] + t) - e[n - 1]
    <3>1. e[n - 1] \in Nat /\ e[n] + t \in Nat /\ e[n - 1] <= e[n] + t
      BY <1>3
    <3>2. QED
      BY <2>1, <3>1, Zenon
  <2>3. Len(y.data) = e[n] - e[n - 1]
    BY <1>2, <1>3, RunIsSeq
  <2>4. QED
    BY <1>3, <2>2, <2>3
<1>7. /\ x.data = Run(e[n - 1], e[n] + t) /\ x.free_space = y.free_space - t
      /\ x.type = y.type /\ x = [type |-> x.type, data |-> x.data, free_space |-> x.free_space]
  <2>1. y \in Buffers /\ y.free_space - t \in Int
    BY <1>2 DEF Room, Buffers
  <2>2. /\ x.data = y.data \o Run(e[n], e[n] + t) /\ x.free_space = y.free_space - t
        /\ x.type = y.type
    BY <2>1 DEF Buffers
  <2>3. x \in [type : {"borrowed", "copied"}, data : Seq(Nat), free_space : Int]
    BY <1>5, <1>6, <2>1 DEF Buffers
  <2>. HIDE DEF x
  <2>4. QED
    BY <1>5, <2>2, <2>3
<1>. HIDE DEF x, y
<1>8. Room(x)
  <2>1. y \in Buffers /\ t <= y.free_space
    BY <1>1, <1>2 DEF Room, y
  <2>2. /\ y.free_space \in Nat /\ y.type \in {"borrowed", "copied"} /\ Len(y.data) \in Nat
    BY <2>1 DEF Buffers
  <2>3. x \in Buffers /\ Len(x.data) = Len(y.data) + t
    BY <1>6, <1>7, <2>1, <2>2 DEF Buffers
  <2>4. QED
    BY <1>2, <1>7, <2>1, <2>2, <2>3, Bounds DEF Room
<1>9. f \in [0 .. n -> Nat] /\ f[n] = e[n] + t /\ \A i \in 0 .. n - 1 : f[i] = e[i]
  BY <1>1, <1>3
<1>. HIDE DEF f
<1>10. Grows(f, n)
  <2>1. ASSUME NEW i \in 1 .. n PROVE f[i - 1] <= f[i]
    <3>1. i - 1 \in 0 .. n - 1 /\ f[i - 1] = e[i - 1] /\ e[i - 1] <= e[i] /\ e[i - 1] \in Nat
      BY <1>1, <1>3, <1>9
    <3>2. CASE i = n
      BY <1>3, <1>9, <3>1, <3>2
    <3>3. CASE i # n
      BY <1>1, <1>9, <3>1, <3>3
    <3>4. QED
      BY <3>2, <3>3
  <2>2. QED
    BY <1>9, <2>1 DEF Grows
<1>11. \A k \in 1 .. n : k # n => f[k - 1] = e[k - 1] /\ f[k] = e[k]
  BY <1>1, <1>9
<1>12. f[n - 1] = e[n - 1] /\ f[0] = e[0]
  BY <1>1, <1>9
<1>13. Stored(l, [b EXCEPT ![s[n]] = x], s, f)
  <2>1. x.data = Run(f[n - 1], f[n])
    BY <1>7, <1>9, <1>12
  <2>2. Replaces(x, s, n, e, f) /\ n \in 1 .. Len(s)
    BY <1>1, <1>8, <1>10, <1>11, <2>1 DEF Replaces, n
  <2>3. QED
    BY <2>2, ReplacedStored
<1>14. QED
  BY <1>4, <1>9, <1>12, <1>13 DEF n

(* t bytes of the first buffer are taken.                                  *)
LEMMA HeadStored ==
    ASSUME NEW l, NEW b, NEW s, NEW e, Stored(l, b, s, e), Len(s) # 0,
           NEW t \in Nat, e[0] + t <= e[1]
    PROVE  \E f : Stored(l, Cut(b, l.head, t), s, f) /\ f[0] = e[0] + t /\ f[Len(s)] = e[Len(s)]
<1>. DEFINE n == Len(s)
            y == b[s[1]]
            x == [y EXCEPT !.data = SubSeq(@, t + 1, Len(@))]
            f == [i \in 0 .. n |-> IF i = 0 THEN e[0] + t ELSE e[i]]
<1>1. n \in Nat \ {0} /\ l.head = s[1] /\ 1 \in 1 .. n /\ s[1] \in Addresses
  BY DEF Stored, Chain
<1>2. Room(y) /\ y.data = Run(e[0], e[1]) /\ b \in [Addresses -> Buffers \cup {NoBuffer}]
  BY <1>1 DEF Stored
<1>. HIDE DEF n
<1>3. /\ e \in [0 .. n -> Nat] /\ \A i \in 1 .. n : e[i - 1] <= e[i]
      /\ e[0] \in Nat /\ e[1] \in Nat /\ 0 \in 0 .. n /\ 1 \in 0 .. n
  BY <1>1 DEF Stored, Grows, n
<1>4. Cut(b, l.head, t) = [b EXCEPT ![s[1]] = x]
  BY <1>1, <1>2 DEF Room, Buffers, Cut
<1>5. Len(y.data) = e[1] - e[0]
  <2>1. e[0] <= e[1]
    BY <1>3
  <2>2. QED
    BY <1>2, <1>3, <2>1, RunIsSeq, Zenon
<1>6. SubSeq(y.data, t + 1, Len(y.data)) = Run(e[0] + t, e[1])
  <2>1. /\ e[0] <= e[1] /\ t + 1 \in 1 .. e[1] - e[0] + 1 /\ e[1] - e[0] \in 0 .. e[1] - e[0]
        /\ t + 1 <= (e[1] - e[0]) + 1
        /\ e[0] + (t + 1) - 1 = e[0] + t /\ e[0] + (e[1] - e[0]) = e[1]
    BY <1>3
  <2>2. SubSeq(Run(e[0], e[1]), t + 1, e[1] - e[0])
           = Run(e[0] + (t + 1) - 1, e[0] + (e[1] - e[0]))
    BY <1>3, <2>1, RunCut, Zenon
  <2>3. QED
    BY <1>2, <1>5, <2>1, <2>2
<1>7. Run(e[0] + t, e[1]) \in Seq(Nat) /\ Len(Run(e[0] + t, e[1])) = e[1] - (e[0] + t)
  <2>1. e[0] + t \in Nat
    BY <1>3
  <2>2. QED
    BY <1>3, <2>1, RunIsSeq
<1>8. /\ x.data = Run(e[0] + t, e[1]) /\ x.free_space = y.free_space
      /\ x.type = y.type /\ x = [type |-> x.type, data |-> x.data, free_space |-> x.free_space]
  <2>1. y \in Buffers
    BY <1>2 DEF Room
  <2>2. /\ x.data = SubSeq(y.data, t + 1, Len(y.data)) /\ x.free_space = y.free_space
        /\ x.type = y.type
    BY <2>1 DEF Buffers
  <2>3. x \in Buffers
    BY <1>6, <1>7, <2>1 DEF Buffers
  <2>. HIDE DEF x
  <2>4. QED
    BY <1>6, <2>2, <2>3 DEF Buffers
<1>. HIDE DEF x, y
<1>9. Room(x)
  <2>1. y \in Buffers
    BY <1>2 DEF Room
  <2>2. y.free_space \in Nat /\ y.type \in {"borrowed", "copied"}
    BY <2>1 DEF Buffers
  <2>3. x \in Buffers /\ Len(x.data) <= Len(y.data) /\ Len(x.data) \in Nat /\ Len(y.data) \in Nat
    BY <1>3, <1>5, <1>7, <1>8, <2>2 DEF Buffers
  <2>4. QED
    BY <1>2, <1>8, <2>2, <2>3, Bounds DEF Room
<1>10. f \in [0 .. n -> Nat] /\ f[0] = e[0] + t /\ \A i \in 1 .. n : f[i] = e[i]
  BY <1>1, <1>3
<1>. HIDE DEF f
<1>11. Grows(f, n)
  <2>1. ASSUME NEW i \in 1 .. n PROVE f[i - 1] <= f[i]
    <3>1. CASE i = 1
      BY <1>1, <1>10, <3>1
    <3>2. CASE i # 1
      <4>1. i - 1 \in 1 .. n
        BY <1>1, <3>2
      <4>2. QED
        BY <1>3, <1>10, <4>1
    <3>3. QED
      BY <3>1, <3>2
  <2>2. QED
    BY <1>10, <2>1 DEF Grows
<1>12. \A k \in 1 .. n : k # 1 => f[k - 1] = e[k - 1] /\ f[k] = e[k]
  BY <1>1, <1>10
<1>13. f[1] = e[1] /\ f[n] = e[n]
  BY <1>1, <1>10
<1>14. Stored(l, [b EXCEPT ![s[1]] = x], s, f)
  <2>1. x.data = Run(f[1 - 1], f[1])
    BY <1>8, <1>10, <1>13
  <2>2. Replaces(x, s, 1, e, f) /\ 1 \in 1 .. Len(s)
    BY <1>1, <1>9, <1>11, <1>12, <2>1 DEF Replaces, n
  <2>3. QED
    BY <2>2, ReplacedStored
<1>15. QED
  BY <1>4, <1>10, <1>13, <1>14 DEF n
-----------------------------------------------------------------------------
(* The inductive invariant *)

(* The buffers hold the bytes after number consumed up to number written;  *)
(* total_len counts them if the stream is used as the server does.         *)
Holds(s, e) ==
    /\ Stored(list, buf, s, e)
    /\ e[0] = consumed
    /\ e[Len(s)] = written

BStreamInv ==
    /\ \E s, e : Holds(s, e)
    /\ total_len \in 0 .. WordSize - 1
    /\ server_use => total_len = written - consumed

(* What a write, a read and a flush do to the numbers.                     *)
Wrote == result' \in Nat /\ result' <= asked' /\ written' = written + result' /\ consumed' = consumed

Took ==
    /\ result' \in Nat /\ result' <= written - consumed
    /\ server_use => result' <= asked'
    /\ consumed' = consumed + result' /\ written' = written

Flushed == consumed' = written /\ written' = written

(* Only what WriteToTail does to a stream not used as the server's escapes *)
(* this: total_len is not touched.                                         *)
Kept == BStreamInv' /\ (server_use => Wrote \/ Took \/ Flushed)

LEMMA HoldsNumbers ==
    ASSUME NEW s, NEW e, Holds(s, e)
    PROVE  /\ consumed \in Nat /\ written \in Nat /\ consumed <= written
           /\ Len(s) \in Nat /\ Grows(e, Len(s))
<1>1. Len(s) \in Nat /\ Grows(e, Len(s))
  BY DEF Holds, Stored, Chain
<1>2. e[0] \in Nat /\ e[Len(s)] \in Nat
  BY <1>1 DEF Grows
<1>3. 0 \in 0 .. Len(s) /\ Len(s) \in 0 .. Len(s) /\ 0 <= Len(s)
  BY <1>1
<1>4. e[0] <= e[Len(s)]
  BY <1>1, <1>3, GrowsFar, Zenon
<1>5. QED
  BY <1>1, <1>2, <1>4 DEF Holds

LEMMA FreshIsRun ==
    ASSUME NEW n \in Nat, written \in Nat PROVE Fresh(n) = Run(written, written + n)
BY DEF Fresh, Run

LEMMA RoomForWrite ==
    ASSUME NEW s, NEW e, Holds(s, e), NEW len, MayWrite(len)
    PROVE  Len(s) + (MaxLen \div BufferSize + 1) <= MaxAddress
<1>1. Len(s) <= Cardinality({a \in Addresses : buf[a] # NoBuffer})
  BY FreeAddress DEF Holds
<1>2. Cardinality({a \in Addresses : buf[a] # NoBuffer}) <= MaxBuffers
  BY DEF MayWrite
<1>3. Cardinality({a \in Addresses : buf[a] # NoBuffer}) \in Nat
  <2>1. IsFiniteSet(Addresses)
    BY FS_Interval, Bounds DEF Addresses
  <2>2. IsFiniteSet({a \in Addresses : buf[a] # NoBuffer})
    BY <2>1, FS_Subset
  <2>3. QED
    BY <2>2, FS_CardinalityType
<1>4. MaxBuffers \in Nat /\ MaxAddress \in Nat /\ MaxLen \in Nat /\ BufferSize \in Nat \ {0}
  BY BoundsOK
<1>5. MaxLen \div BufferSize \in Nat /\ MaxAddress > MaxBuffers + MaxLen \div BufferSize
  BY <1>4, Quotient, BoundsOK
<1>6. Len(s) \in Nat
  BY HoldsNumbers
<1>. DEFINE q == MaxLen \div BufferSize
            c == Cardinality({a \in Addresses : buf[a] # NoBuffer})
<1>. HIDE DEF q, c
<1>7. QED
  BY <1>1, <1>2, <1>3, <1>4, <1>5, <1>6 DEF q, c

(* What the last buffer takes.                                             *)
LEMMA TailTakes ==
    ASSUME NEW s, NEW e, Holds(s, e), NEW got \in Nat
    PROVE  /\ TailSpace \in Nat /\ ToTail(got) \in 0 .. got
           /\ \E l, b, f : /\ TailFilled(got) = <<l, b>> /\ Stored(l, b, s, f)
                           /\ f[0] = consumed /\ f[Len(s)] = written + ToTail(got)
<1>1. /\ Len(s) \in Nat /\ Stored(list, buf, s, e) /\ written \in Nat
      /\ e[0] = consumed /\ e[Len(s)] = written
  BY HoldsNumbers DEF Holds
<1>2. HasTail => Len(s) # 0 /\ Room(buf[list.tail])
  BY <1>1 DEF Stored, Chain, HasTail
<1>3. TailSpace \in Nat
  BY <1>2 DEF TailSpace, Room, Buffers
<1>4. ToTail(got) \in 0 .. got /\ ToTail(got) <= TailSpace
  BY <1>3 DEF ToTail, Lesser
<1>5. CASE ToTail(got) = 0
  <2>1. TailFilled(got) = <<list, buf>> /\ written + ToTail(got) = written
    BY <1>1, <1>5 DEF TailFilled
  <2>2. QED
    BY <1>1, <1>3, <1>4, <2>1
<1>6. CASE ToTail(got) # 0
  <2>. DEFINE t == ToTail(got)
              b == Added(buf, list.tail, Run(e[Len(s)], e[Len(s)] + t), t)
  <2>1. HasTail /\ TailSpace = buf[list.tail].free_space
    BY <1>3, <1>4, <1>6 DEF TailSpace
  <2>2. t \in Nat /\ t <= buf[list.tail].free_space /\ Len(s) # 0
    BY <1>2, <1>4, <2>1
  <2>3. Fresh(t) = Run(e[Len(s)], e[Len(s)] + t)
    BY <1>1, <2>2, FreshIsRun
  <2>4. TailFilled(got) = <<list, b>>
    BY <1>6, <2>3 DEF TailFilled, Added
  <2>. HIDE DEF t
  <2>5. \E f : Stored(list, b, s, f) /\ f[0] = e[0] /\ f[Len(s)] = e[Len(s)] + t
    BY <1>1, <2>2, TailStored
  <2>. HIDE DEF b
  <2>6. QED
    BY <1>1, <1>3, <1>4, <2>4, <2>5 DEF t
<1>7. QED
  BY <1>5, <1>6

(* Used as the server does, no write goes to the last buffer.              *)
LEMMA ServerTail ==
    ASSUME NEW s, NEW e, Holds(s, e), NEW got \in Nat, NEW len,
           AllowedWrite(len, got), server_use
    PROVE  ToTail(got) = 0 /\ ~ TailSuffices(len, got) /\ got = len /\ len > 0
<1>1. got = len /\ len > 0 /\ (HasTail => buf[list.tail].type = "borrowed")
  BY DEF AllowedWrite
<1>2. HasTail => Room(buf[list.tail])
  BY <1>1 DEF Holds, Stored, Chain, HasTail
<1>3. TailSpace = 0
  BY <1>1, <1>2 DEF Room, TailSpace
<1>4. ToTail(got) = 0
  BY <1>3 DEF ToTail, Lesser
<1>5. QED
  BY <1>1, <1>3, <1>4 DEF TailSuffices

(* The first k of the buffers that a write makes are filled and appended.  *)
LEMMA WrittenTo ==
    ASSUME NEW s, NEW e, Holds(s, e), NEW len \in 0 .. MaxLen, NEW got \in 0 .. len,
           MayWrite(len),
           NEW k \in 0 .. ChunkCount(len - ToTail(got), got - ToTail(got))
    PROVE  LET rest == SubSeq(Fresh(got), ToTail(got) + 1, got)
               r == AllAppended(TailFilled(got), Chunks(rest, k))
           IN  /\ Len(rest) = got - ToTail(got)
               /\ \E s2, e2 : /\ Stored(r[1], r[2], s2, e2) /\ e2[0] = consumed
                              /\ e2[Len(s2)] = written + ToTail(got)
                                    + Lesser(k * BufferSize, got - ToTail(got))
<1>. DEFINE tt == ToTail(got)
            w == written + tt
            n == got - tt
            remain == len - tt
            rest == SubSeq(Fresh(got), tt + 1, got)
            bs == Chunks(rest, k)
            f == [i \in 0 .. k |-> w + Lesser(i * BufferSize, n)]
<1>1. written \in Nat /\ Len(s) \in Nat /\ got \in Nat /\ len \in Nat /\ len <= MaxLen
  BY HoldsNumbers, Bounds
<1>2. tt \in 0 .. got
  BY <1>1, TailTakes
<1>3. PICK l, b, e1 : /\ TailFilled(got) = <<l, b>> /\ Stored(l, b, s, e1)
                      /\ e1[0] = consumed /\ e1[Len(s)] = w
  BY <1>1, TailTakes
<1>. HIDE DEF tt
<1>4. w \in Nat /\ n \in Nat /\ remain \in 0 .. MaxLen /\ n \in 0 .. remain /\ w + n = written + got
  <2>1. MaxLen \in Nat
    BY Bounds
  <2>2. w \in Nat /\ n \in Nat /\ w + n = written + got
    BY <1>1, <1>2
  <2>3. remain \in 0 .. MaxLen
    BY <1>1, <1>2, <2>1
  <2>4. n <= remain
    BY <1>1, <1>2
  <2>5. QED
    BY <2>2, <2>3, <2>4
<1>5. rest = Run(w, w + n)
  <2>1. Fresh(got) = Run(written, written + got)
    BY <1>1, FreshIsRun
  <2>2. /\ written + got \in Nat /\ written <= written + got
        /\ tt + 1 \in 1 .. (written + got) - written + 1
        /\ got \in 0 .. (written + got) - written /\ tt + 1 <= got + 1
        /\ written + (tt + 1) - 1 = w
    BY <1>1, <1>2
  <2>3. SubSeq(Run(written, written + got), tt + 1, got) = Run(written + (tt + 1) - 1, written + got)
    BY <1>1, <2>2, RunCut, Zenon
  <2>4. QED
    BY <1>4, <2>1, <2>2, <2>3
<1>6. Len(rest) = n
  <2>1. w + n \in Nat /\ w <= w + n /\ (w + n) - w = n
    BY <1>4
  <2>2. QED
    BY <1>4, <1>5, <2>1, RunIsSeq
<1>7. /\ ChunkCount(remain, n) \in Nat \ {0}
      /\ ChunkCount(remain, n) <= MaxLen \div BufferSize + 1
      /\ \A i \in 0 .. ChunkCount(remain, n) - 1 : i * BufferSize <= n
  BY <1>4, ChunksNeeded
<1>8. k \in 0 .. ChunkCount(remain, n)
  BY DEF tt
<1>. HIDE DEF w, n, remain, rest
<1>9. k \in Nat /\ \A i \in 0 .. k - 1 : i * BufferSize <= n
  BY <1>7, <1>8
<1>10. Runs(bs, k, f)
  <2>1. Runs(Chunks(Run(w, w + n), k), k, f)
    BY <1>4, <1>9, ChunksHold
  <2>2. QED
    BY <1>5, <2>1
<1>11. f[0] = w /\ f[k] = w + Lesser(k * BufferSize, n)
  <2>1. 0 * BufferSize = 0 /\ 0 \in 0 .. k /\ k \in 0 .. k
    BY <1>9, Bounds
  <2>2. f[0] = w + Lesser(0, n)
    BY <2>1
  <2>3. QED
    BY <1>4, <2>1, <2>2 DEF Lesser
<1>12. Len(s) + k <= MaxAddress
  <2>1. Len(s) + (MaxLen \div BufferSize + 1) <= MaxAddress
    BY RoomForWrite
  <2>2. MaxLen \div BufferSize \in Nat /\ MaxAddress \in Nat
    BY Quotient, Bounds
  <2>. DEFINE q == MaxLen \div BufferSize
  <2>. HIDE DEF q
  <2>3. QED
    BY <1>1, <1>7, <1>8, <1>9, <2>1, <2>2 DEF q
<1>. HIDE DEF f, bs
<1>13. \E s2, e2 : /\ Stored(AllAppended(<<l, b>>, bs)[1], AllAppended(<<l, b>>, bs)[2], s2, e2)
                   /\ e2[0] = e1[0] /\ e2[Len(s2)] = f[k]
  <2>1. f[0] = e1[Len(s)] /\ Stored(l, b, s, e1)
    BY <1>3, <1>11
  <2>2. QED
    BY <1>9, <1>10, <1>12, <2>1, AllAppendedStored
<1>14. QED
  BY <1>3, <1>6, <1>11, <1>13 DEF bs, rest, n, w, tt
-----------------------------------------------------------------------------
(* What is held, and what is read of it *)

LEMMA BuffersHeld ==
    ASSUME NEW s, NEW e, Holds(s, e)
    PROVE  /\ Visited(list) = s
           /\ buffers \in Seq(Buffers) /\ Len(buffers) = Len(s)
           /\ \A i \in 1 .. Len(s) : buffers[i].data = Run(e[i - 1], e[i])
           /\ \A i \in 1 .. Len(s) : Len(buffers[i].data) = e[i] - e[i - 1]
<1>1. /\ Visited(list) = s /\ Len(s) \in Nat /\ DOMAIN s = 1 .. Len(s) /\ Grows(e, Len(s))
  BY VisitsChain DEF Holds, Stored, Chain
<1>2. buffers = [i \in 1 .. Len(s) |-> buf[s[i]]]
  BY <1>1 DEF buffers
<1>3. \A i \in 1 .. Len(s) : buf[s[i]] \in Buffers /\ buf[s[i]].data = Run(e[i - 1], e[i])
  BY DEF Holds, Stored, Room
<1>4. \A i \in 1 .. Len(s) : Len(buf[s[i]].data) = e[i] - e[i - 1]
  <2>1. ASSUME NEW i \in 1 .. Len(s) PROVE Len(Run(e[i - 1], e[i])) = e[i] - e[i - 1]
    <3>1. e[i - 1] \in Nat /\ e[i] \in Nat /\ e[i - 1] <= e[i]
      BY <1>1 DEF Grows
    <3>2. QED
      BY <3>1, RunIsSeq
  <2>2. QED
    BY <1>3, <2>1
<1>5. QED
  BY <1>1, <1>2, <1>3, <1>4

(* The first j buffers hold the bytes after number consumed up to e[j].    *)
LEMMA FirstBytes ==
    ASSUME NEW s, NEW e, Holds(s, e), NEW j \in 0 .. Len(s)
    PROVE  /\ Bytes(SubSeq(buffers, 1, j)) = Run(consumed, e[j])
           /\ e[j] \in Nat /\ consumed \in Nat /\ consumed <= e[j] /\ e[j] <= written
           /\ Len(Run(consumed, e[j])) = e[j] - consumed
<1>. DEFINE bs == SubSeq(buffers, 1, j)
            f == [i \in 0 .. j |-> e[i]]
<1>1. /\ Len(s) \in Nat /\ Grows(e, Len(s)) /\ j \in Nat /\ e[0] = consumed
      /\ e[Len(s)] = written /\ buffers \in Seq(Buffers) /\ Len(buffers) = Len(s)
      /\ \A i \in 1 .. Len(s) : buffers[i].data = Run(e[i - 1], e[i])
  BY HoldsNumbers, BuffersHeld DEF Holds
<1>2. bs \in Seq(Buffers) /\ Len(bs) = j /\ \A i \in 1 .. j : bs[i] = buffers[i]
  BY <1>1
<1>3. f[0] = e[0] /\ f[j] = e[j] /\ \A i \in 1 .. j : f[i] = e[i] /\ f[i - 1] = e[i - 1]
  BY <1>1
<1>4. Grows(f, j)
  <2>1. \A i \in 0 .. j : e[i] \in Nat
    BY <1>1 DEF Grows
  <2>2. \A i \in 1 .. j : e[i - 1] <= e[i]
    BY <1>1 DEF Grows
  <2>3. f \in [0 .. j -> Nat]
    BY <2>1
  <2>. HIDE DEF f
  <2>4. QED
    BY <1>3, <2>2, <2>3 DEF Grows
<1>. HIDE DEF bs, f
<1>5. \A i \in 1 .. j : bs[i].data = Run(f[i - 1], f[i])
  BY <1>1, <1>2, <1>3
<1>6. Bytes(bs) = Run(f[0], f[j])
  BY <1>1, <1>2, <1>4, <1>5, BytesJoin
<1>7. e[j] \in Nat /\ consumed \in Nat
  BY <1>1 DEF Grows
<1>8. consumed <= e[j] /\ e[j] <= written
  <2>1. 0 \in 0 .. Len(s) /\ Len(s) \in 0 .. Len(s) /\ 0 <= j /\ j <= Len(s)
    BY <1>1
  <2>2. e[0] <= e[j] /\ e[j] <= e[Len(s)]
    BY <1>1, <2>1, GrowsFar
  <2>3. QED
    BY <1>1, <2>2
<1>9. QED
  BY <1>1, <1>3, <1>6, <1>7, <1>8, RunIsSeq DEF bs

LEMMA ContentsHeld ==
    ASSUME NEW s, NEW e, Holds(s, e) PROVE Contents = Run(consumed, written)
<1>1. buffers \in Seq(Buffers) /\ Len(buffers) = Len(s) /\ Len(s) \in Nat
  BY BuffersHeld, HoldsNumbers
<1>2. SubSeq(buffers, 1, Len(s)) = buffers /\ Len(s) \in 0 .. Len(s)
  BY <1>1
<1>3. Bytes(SubSeq(buffers, 1, Len(s))) = Run(consumed, e[Len(s)])
  BY <1>2, FirstBytes
<1>4. e[Len(s)] = written
  BY DEF Holds
<1>5. QED
  BY <1>2, <1>3, <1>4 DEF Contents

(* What is read: the first j buffers whole, and t bytes of the next.       *)
LEMMA OutcomeRead ==
    ASSUME NEW s, NEW e, Holds(s, e), NEW len, NEW o \in ReadOutcomes(buffers, len)
    PROVE  /\ o[1] \in 0 .. Len(s) /\ o[2] \in Nat
           /\ o[2] # 0 => o[1] < Len(s) /\ e[o[1]] + o[2] <= e[o[1] + 1]
           /\ e[o[1]] + o[2] <= written
           /\ Taken(buffers, o[1], o[2]) = e[o[1]] + o[2] - consumed
           /\ Taken(buffers, o[1], o[2]) \in Nat
<1>. DEFINE j == o[1]
            t == o[2]
<1>1. /\ Len(buffers) = Len(s) /\ Len(s) \in Nat
      /\ \A i \in 1 .. Len(s) : Len(buffers[i].data) = e[i] - e[i - 1]
      /\ Grows(e, Len(s)) /\ consumed \in Nat /\ written \in Nat
  BY BuffersHeld, HoldsNumbers
<1>2. j \in 0 .. Len(s) /\ t \in Nat
  BY <1>1, BoundsOK DEF ReadOutcomes
<1>3. t # 0 => j < Len(s) /\ t < Len(buffers[j + 1].data)
  BY <1>1, <1>2 DEF ReadOutcomes
<1>. HIDE DEF j, t
<1>4. e[j] \in Nat /\ consumed <= e[j] /\ e[j] <= written
  BY <1>2, FirstBytes
<1>5. t # 0 => e[j] + t <= e[j + 1]
  <2>1. ASSUME t # 0 PROVE e[j] + t <= e[j + 1]
    <3>1. j + 1 \in 1 .. Len(s) /\ (j + 1) - 1 = j
      BY <1>1, <1>2, <1>3, <2>1
    <3>2. Len(buffers[j + 1].data) = e[j + 1] - e[j] /\ e[j + 1] \in Nat
      BY <1>1, <3>1 DEF Grows
    <3>3. QED
      BY <1>2, <1>3, <1>4, <2>1, <3>2
  <2>2. QED
    BY <2>1
<1>6. e[j] + t <= written
  <2>1. CASE t = 0
    BY <1>4, <2>1
  <2>2. CASE t # 0
    <3>1. j + 1 \in 0 .. Len(s)
      BY <1>1, <1>2, <1>3, <2>2
    <3>2. e[j + 1] <= written /\ e[j + 1] \in Nat
      BY <3>1, FirstBytes
    <3>3. QED
      BY <1>1, <1>2, <1>4, <1>5, <2>2, <3>2
  <2>3. QED
    BY <2>1, <2>2
<1>7. Taken(buffers, j, t) = e[j] + t - consumed
  <2>1. Len(Bytes(SubSeq(buffers, 1, j))) = e[j] - consumed
    BY <1>2, FirstBytes
  <2>2. Taken(buffers, j, t) = Len(Bytes(SubSeq(buffers, 1, j))) + t
    BY DEF Taken
  <2>3. Taken(buffers, j, t) = (e[j] - consumed) + t
    BY <2>1, <2>2
  <2>4. QED
    BY <1>1, <1>2, <1>4, <2>3
<1>8. Taken(buffers, j, t) \in Nat
  BY <1>1, <1>2, <1>4, <1>7
<1>9. QED
  BY <1>2, <1>3, <1>5, <1>6, <1>7, <1>8 DEF j, t

LEMMA AfterReadStored ==
    ASSUME NEW s, NEW e, Holds(s, e), NEW j \in 0 .. Len(s), NEW t \in Nat,
           t # 0 => j < Len(s) /\ e[j] + t <= e[j + 1]
    PROVE  \E s2, e2 : /\ Stored(AfterRead(j, t)[1], AfterRead(j, t)[2], s2, e2)
                       /\ e2[0] = e[j] + t /\ e2[Len(s2)] = written
<1>. DEFINE r == Freed(<<list, buf>>, j)
            s2 == [i \in 1 .. Len(s) - j |-> s[i + j]]
            e2 == [i \in 0 .. Len(s) - j |-> e[i + j]]
<1>1. Stored(list, buf, s, e) /\ Len(s) \in Nat /\ Grows(e, Len(s)) /\ e[Len(s)] = written
  BY HoldsNumbers DEF Holds
<1>2. Stored(r[1], r[2], s2, e2)
  BY <1>1, FreedStored
<1>. DEFINE n == Len(s)
<1>. HIDE DEF r, n
<1>3. n \in Nat /\ n - j \in Nat /\ j \in Nat
  BY <1>1 DEF n
<1>4. Len(s2) = n - j
  BY <1>3 DEF n
<1>5. e2[0] = e[j] /\ e2[n - j] = e[n] /\ (n - j # 0 => e2[1] = e[j + 1]) /\ e[j] \in Nat
  BY <1>1, <1>3 DEF n, Grows
<1>. HIDE DEF s2, e2
<1>6. CASE t = 0
  <2>1. AfterRead(j, t)[1] = r[1] /\ AfterRead(j, t)[2] = r[2]
    BY <1>6 DEF AfterRead, r
  <2>2. e[j] + t = e[j]
    BY <1>5, <1>6
  <2>3. QED
    BY <1>1, <1>2, <1>4, <1>5, <2>1, <2>2 DEF n
<1>7. CASE t # 0
  <2>1. /\ AfterRead(j, t)[1] = r[1]
        /\ AfterRead(j, t)[2] = Cut(r[2], r[1].head, t)
    BY <1>7 DEF AfterRead, r, Cut
  <2>2. Len(s2) # 0 /\ e2[0] + t <= e2[1]
    BY <1>3, <1>4, <1>5, <1>7 DEF n
  <2>3. \E f : /\ Stored(r[1], Cut(r[2], r[1].head, t), s2, f)
               /\ f[0] = e2[0] + t /\ f[Len(s2)] = e2[Len(s2)]
    BY <1>2, <2>2, HeadStored
  <2>4. QED
    BY <1>1, <1>4, <1>5, <2>1, <2>3 DEF n
<1>8. QED
  BY <1>6, <1>7
-----------------------------------------------------------------------------
(* Every step keeps the invariant *)

LEMMA InvNumbers ==
    ASSUME BStreamInv
    PROVE  /\ consumed \in Nat /\ written \in Nat /\ consumed <= written
           /\ total_len \in Nat /\ WordSize \in Nat \ {0} /\ MaxLen \in Nat
BY HoldsNumbers, BoundsOK DEF BStreamInv

LEMMA BorrowKeeps ==
    ASSUME BStreamInv, NEW len \in 0 .. MaxLen, WriteBorrow(len), UNCHANGED server_use
    PROVE  Kept
<1>1. PICK s, e : Holds(s, e)
  BY DEF BStreamInv
<1>2. /\ consumed \in Nat /\ written \in Nat /\ total_len \in Nat /\ WordSize \in Nat
      /\ len \in Nat /\ len <= MaxLen /\ MaxLen \in Nat
  BY InvNumbers
<1>. DEFINE x == Buffer("borrowed", Fresh(len), 0)
            r == Appended(<<list, buf>>, x)
<1>3. Fresh(len) = Run(written, written + len)
  BY <1>2, FreshIsRun
<1>4. Run(written, written + len) \in Seq(Nat) /\ Len(Run(written, written + len)) = len
  <2>1. written + len \in Nat /\ written <= written + len /\ (written + len) - written = len
    BY <1>2
  <2>2. QED
    BY <1>2, <2>1, RunIsSeq
<1>5. Room(x) /\ x.data = Run(written, written + len)
  BY <1>2, <1>3, <1>4 DEF Room, Buffer, Buffers
<1>6. Len(s) < MaxAddress
  <2>1. Len(s) + (MaxLen \div BufferSize + 1) <= MaxAddress
    BY <1>1, RoomForWrite DEF WriteBorrow
  <2>2. MaxLen \div BufferSize \in Nat /\ MaxAddress \in Nat
    BY Quotient, Bounds
  <2>3. Len(s) \in Nat
    BY <1>1, HoldsNumbers
  <2>. DEFINE q == MaxLen \div BufferSize
  <2>. HIDE DEF q
  <2>4. QED
    BY <2>1, <2>2, <2>3 DEF q
<1>. HIDE DEF x
<1>7. PICK s2, e2 : Stored(r[1], r[2], s2, e2) /\ e2[0] = e[0] /\ e2[Len(s2)] = written + len
  <2>1. /\ Stored(list, buf, s, e) /\ written + len \in Nat /\ e[Len(s)] <= written + len
        /\ x.data = Run(e[Len(s)], written + len)
    BY <1>1, <1>2, <1>5 DEF Holds
  <2>2. QED
    BY <1>5, <1>6, <2>1, AppendedStored
<1>8. list' = r[1] /\ buf' = r[2]
  BY DEF WriteBorrow, Store, x
<1>. HIDE DEF r
<1>9. /\ written' = written + len /\ consumed' = consumed /\ total_len' = total_len + len
      /\ total_len + len < WordSize /\ asked' = len /\ result' = len /\ server_use' = server_use
  BY <1>2 DEF WriteBorrow, Done, Overflows
<1>10. Holds(s2, e2)'
  BY <1>1, <1>7, <1>8, <1>9 DEF Holds
<1>11. BStreamInv'
  BY <1>2, <1>9, <1>10 DEF BStreamInv
<1>12. QED
  BY <1>2, <1>9, <1>11 DEF Kept, Wrote

(* A write that changes nothing.                                           *)
LEMMA FailKeeps ==
    ASSUME BStreamInv, NEW len \in 0 .. MaxLen, Done(len, 0),
           UNCHANGED <<list, buf, total_len, written, consumed, server_use>>
    PROVE  Kept
<1>1. consumed \in Nat /\ written \in Nat /\ MaxLen \in Nat
  BY InvNumbers
<1>2. BStreamInv'
  BY DEF BStreamInv, Holds
<1>3. QED
  BY <1>1, <1>2 DEF Kept, Wrote, Done

LEMMA TailKeeps ==
    ASSUME BStreamInv, NEW len \in 0 .. MaxLen, NEW got \in 0 .. len,
           AllowedWrite(len, got), WriteToTail(len, got), UNCHANGED server_use
    PROVE  Kept
<1>1. PICK s, e : Holds(s, e)
  BY DEF BStreamInv
<1>2. got \in Nat /\ MaxLen \in Nat
  BY InvNumbers
<1>3. ~ server_use
  BY <1>1, <1>2, ServerTail DEF WriteToTail
<1>4. PICK l, b, f : /\ TailFilled(got) = <<l, b>> /\ Stored(l, b, s, f)
                     /\ f[0] = consumed /\ f[Len(s)] = written + ToTail(got)
  BY <1>1, <1>2, TailTakes
<1>5. list' = l /\ buf' = b
  BY <1>4 DEF WriteToTail, Store
<1>6. Holds(s, f)'
  BY <1>4, <1>5 DEF Holds, WriteToTail
<1>7. QED
  BY <1>3, <1>6 DEF Kept, BStreamInv, WriteToTail

LEMMA NewBuffersKeep ==
    ASSUME BStreamInv, NEW len \in 0 .. MaxLen, NEW got \in 0 .. len,
           AllowedWrite(len, got), WriteNewBuffers(len, got), UNCHANGED server_use
    PROVE  Kept
<1>1. PICK s, e : Holds(s, e)
  BY DEF BStreamInv
<1>2. /\ got \in Nat /\ MaxLen \in Nat /\ len \in Nat /\ written \in Nat /\ consumed \in Nat
      /\ total_len \in Nat /\ WordSize \in Nat /\ got <= len /\ len <= MaxLen
  BY InvNumbers
<1>. DEFINE tt == ToTail(got)
            n == got - tt
            rest == SubSeq(Fresh(got), tt + 1, got)
            k == ChunkCount(len - tt, n)
            r == AllAppended(TailFilled(got), Chunks(rest, k))
<1>3. tt \in 0 .. got /\ MayWrite(len)
  BY <1>1, <1>2, TailTakes DEF WriteNewBuffers
<1>4. n \in Nat /\ len - tt \in 0 .. MaxLen /\ n \in 0 .. len - tt
  BY <1>2, <1>3
<1>5. k \in Nat \ {0} /\ n <= k * BufferSize
  BY <1>4, ChunksNeeded
<1>6. k \in 0 .. k
  BY <1>5
<1>7. /\ Len(rest) = n
      /\ \E s2, e2 : /\ Stored(r[1], r[2], s2, e2) /\ e2[0] = consumed
                     /\ e2[Len(s2)] = written + tt + Lesser(k * BufferSize, n)
  BY <1>1, <1>3, <1>6, WrittenTo
<1>8. /\ list' = r[1] /\ buf' = r[2]
      /\ written' = written + got /\ consumed' = consumed /\ total_len' = total_len + got
      /\ total_len + len < WordSize /\ asked' = len /\ result' = got /\ server_use' = server_use
  <2>1. Store(AllAppended(TailFilled(got), Chunks(rest, ChunkCount(len - tt, Len(rest)))))
    BY DEF WriteNewBuffers
  <2>2. Store(r)
    BY <1>7, <2>1
  <2>3. list' = r[1] /\ buf' = r[2]
    BY <2>2 DEF Store
  <2>4. QED
    BY <1>2, <2>3 DEF WriteNewBuffers, Done, Overflows
<1>9. written + tt + Lesser(k * BufferSize, n) = written + got
  <2>1. k * BufferSize \in Nat
    BY <1>5, Bounds, TimesGrows
  <2>. HIDE DEF k
  <2>2. Lesser(k * BufferSize, n) = n
    BY <1>4, <1>5, <2>1 DEF Lesser
  <2>. HIDE DEF tt
  <2>3. QED
    BY <1>2, <1>3, <2>2
<1>. HIDE DEF r, k, n
<1>10. PICK s2, e2 : Holds(s2, e2)'
  BY <1>7, <1>8, <1>9 DEF Holds
<1>11. BStreamInv'
  BY <1>2, <1>8, <1>10 DEF BStreamInv
<1>12. QED
  BY <1>2, <1>8, <1>11 DEF Kept, Wrote

LEMMA NewBuffersFailKeeps ==
    ASSUME BStreamInv, NEW len \in 0 .. MaxLen, NEW got \in 0 .. len,
           AllowedWrite(len, got), WriteNewBuffersFails(len, got), UNCHANGED server_use
    PROVE  Kept
<1>1. PICK s, e : Holds(s, e)
  BY DEF BStreamInv
<1>2. /\ got \in Nat /\ MaxLen \in Nat /\ len \in Nat /\ written \in Nat /\ consumed \in Nat
      /\ total_len \in Nat /\ WordSize \in Nat /\ got <= len /\ len <= MaxLen
  BY InvNumbers
<1>. DEFINE tt == ToTail(got)
            n == got - tt
            rest == SubSeq(Fresh(got), tt + 1, got)
            k == ChunkCount(len - tt, n)
<1>3. tt \in 0 .. got /\ MayWrite(len)
  BY <1>1, <1>2, TailTakes DEF WriteNewBuffersFails
<1>4. n \in Nat /\ len - tt \in 0 .. MaxLen /\ n \in 0 .. len - tt
  BY <1>2, <1>3
<1>5. k \in Nat \ {0} /\ \A i \in 0 .. k - 1 : i * BufferSize <= n
  BY <1>4, ChunksNeeded
<1>6. 0 \in 0 .. k
  BY <1>5
<1>7. Len(rest) = n
  BY <1>1, <1>3, <1>6, WrittenTo
<1>8. PICK j \in 0 .. k - 1 :
         LET m == tt + j * BufferSize IN
         /\ Store(AllAppended(TailFilled(got), Chunks(rest, j)))
         /\ total_len' = total_len + m /\ written' = written + m /\ Done(len, m)
  BY <1>7 DEF WriteNewBuffersFails
<1>. DEFINE r == AllAppended(TailFilled(got), Chunks(rest, j))
            m == tt + j * BufferSize
<1>9. j \in 0 .. k /\ j * BufferSize \in Nat /\ j * BufferSize <= n
  BY <1>5, Bounds, TimesGrows
<1>10. \E s2, e2 : /\ Stored(r[1], r[2], s2, e2) /\ e2[0] = consumed
                   /\ e2[Len(s2)] = written + tt + Lesser(j * BufferSize, n)
  BY <1>1, <1>3, <1>9, WrittenTo
<1>11. /\ list' = r[1] /\ buf' = r[2]
       /\ written' = written + m /\ consumed' = consumed /\ total_len' = total_len + m
       /\ total_len + len < WordSize /\ asked' = len /\ result' = m /\ server_use' = server_use
  BY <1>2, <1>8 DEF WriteNewBuffersFails, Store, Done, Overflows
<1>12. /\ written + tt + Lesser(j * BufferSize, n) = written + m
       /\ m \in Nat /\ m <= got
  <2>. DEFINE jb == j * BufferSize
  <2>. HIDE DEF tt, jb
  <2>1. jb \in Nat /\ jb <= n
    BY <1>9 DEF jb
  <2>2. Lesser(jb, n) = jb
    <3>. HIDE DEF n
    <3>1. QED
      BY <1>4, <2>1 DEF Lesser
  <2>3. QED
    BY <1>2, <1>3, <2>1, <2>2 DEF jb
<1>. HIDE DEF r, m
<1>13. PICK s2, e2 : Holds(s2, e2)'
  BY <1>10, <1>11, <1>12 DEF Holds
<1>14. BStreamInv'
  BY <1>2, <1>11, <1>12, <1>13 DEF BStreamInv
<1>15. QED
  BY <1>2, <1>11, <1>12, <1>14 DEF Kept, Wrote
LEMMA ReadKeeps ==
    ASSUME BStreamInv, NEW len, AllowedRead(len), Read(len), UNCHANGED server_use
    PROVE  Kept
<1>1. PICK s, e : Holds(s, e)
  BY DEF BStreamInv
<1>2. /\ written \in Nat /\ consumed \in Nat /\ consumed <= written
      /\ total_len \in Nat /\ WordSize \in Nat \ {0} /\ total_len < WordSize
  BY InvNumbers DEF BStreamInv
<1>3. PICK o \in ReadOutcomes(buffers, len) :
         /\ Store(AfterRead(o[1], o[2]))
         /\ total_len' = (total_len - Taken(buffers, o[1], o[2])) % WordSize
         /\ Done(len, Taken(buffers, o[1], o[2]))
         /\ consumed' = consumed + result'
  BY DEF Read
<1>. DEFINE j == o[1]
            t == o[2]
            n == Taken(buffers, j, t)
<1>4. /\ j \in 0 .. Len(s) /\ t \in Nat /\ (t # 0 => j < Len(s) /\ e[j] + t <= e[j + 1])
      /\ e[j] + t <= written /\ n = e[j] + t - consumed /\ n \in Nat
  BY <1>1, OutcomeRead
<1>5. /\ Store(AfterRead(j, t)) /\ total_len' = (total_len - n) % WordSize
      /\ asked' = len /\ result' = n /\ consumed' = consumed + n
      /\ written' = written /\ server_use' = server_use
  BY <1>3 DEF Done, Read
<1>. HIDE DEF j, t, n
<1>6. e[j] \in Nat
  BY <1>1, <1>4, FirstBytes
<1>7. PICK s2, e2 : /\ Stored(AfterRead(j, t)[1], AfterRead(j, t)[2], s2, e2)
                    /\ e2[0] = e[j] + t /\ e2[Len(s2)] = written
  BY <1>1, <1>4, AfterReadStored
<1>8. list' = AfterRead(j, t)[1] /\ buf' = AfterRead(j, t)[2]
  BY <1>5 DEF Store
<1>9. PICK c \in Nat : c = e[j] + t /\ c <= written /\ n = c - consumed
  <2>1. e[j] \in Nat /\ t \in Nat /\ e[j] + t <= written /\ n = e[j] + t - consumed
    BY <1>4, <1>6
  <2>2. QED
    BY <1>2, <2>1
<1>9a. consumed' = c /\ n <= written - consumed /\ n \in Nat
  <2>1. consumed' = consumed + n /\ n \in Nat
    BY <1>4, <1>5
  <2>2. QED
    BY <1>2, <1>9, <2>1
<1>10. Holds(s2, e2)'
  BY <1>5, <1>7, <1>8, <1>9, <1>9a DEF Holds
<1>11. total_len' \in 0 .. WordSize - 1
  <2>1. total_len - n \in Int
    BY <1>2, <1>9a
  <2>2. \A x \in Int : x % WordSize \in 0 .. WordSize - 1
    BY <1>2
  <2>3. QED
    BY <1>5, <2>1, <2>2
<1>12. server_use => total_len' = total_len - n /\ n <= len
  <2>1. ASSUME server_use PROVE total_len' = total_len - n /\ n <= len
    <3>1. total_len = written - consumed /\ len = total_len
      BY <2>1 DEF BStreamInv, AllowedRead
    <3>2. total_len - n \in Nat /\ total_len - n < WordSize /\ n <= len
      BY <1>2, <1>9a, <3>1
    <3>3. \A x \in Nat : x < WordSize => x % WordSize = x
      BY <1>2
    <3>4. QED
      BY <1>5, <3>2, <3>3
  <2>2. QED
    BY <2>1
<1>13. BStreamInv'
  <2>1. server_use' => total_len' = written' - consumed'
    <3>1. ASSUME server_use' PROVE total_len' = written' - consumed'
      <4>1. total_len = written - consumed /\ total_len' = total_len - n
        BY <1>5, <1>12, <3>1 DEF BStreamInv
      <4>2. QED
        BY <1>2, <1>5, <1>9a, <4>1
    <3>2. QED
      BY <3>1
  <2>2. QED
    BY <1>10, <1>11, <2>1 DEF BStreamInv
<1>14. QED
  BY <1>5, <1>9a, <1>12, <1>13 DEF Kept, Took

(* An empty list links nothing.                                            *)
LEMMA EmptyStored ==
    ASSUME NEW t \in Nat
    PROVE  Stored(list_init_head_tail(Addresses), [a \in Addresses |-> NoBuffer],
                  <<>>, [i \in 0 .. 0 |-> t])
BY Bounds DEF Stored, Chain, ListType, Pointers, list_init_head_tail, Grows

LEMMA FlushKeeps ==
    ASSUME BStreamInv, Flush, UNCHANGED server_use
    PROVE  Kept
<1>1. PICK s, e : Holds(s, e)
  BY DEF BStreamInv
<1>2. /\ written \in Nat /\ WordSize \in Nat \ {0}
  BY InvNumbers
<1>3. buf' = [a \in Addresses |-> NoBuffer] /\ list' = list_init_head_tail(Addresses)
  <2>1. Visited(list) = s /\ s \in Seq(Addresses)
    BY <1>1, BuffersHeld DEF Holds, Stored, Chain
  <2>2. \A a \in Addresses : a \notin ToSet(s) => buf[a] = NoBuffer
    BY <1>1, <2>1 DEF Holds, Stored, ToSet
  <2>3. QED
    BY <2>1, <2>2 DEF Flush
<1>4. /\ consumed' = written /\ written' = written /\ total_len' = 0 /\ server_use' = server_use
  BY DEF Flush
<1>. DEFINE e2 == [i \in 0 .. 0 |-> written]
<1>5. Holds(<<>>, e2)'
  <2>1. Stored(list', buf', <<>>, e2)
    BY <1>2, <1>3, EmptyStored
  <2>2. e2[0] = written /\ Len(<<>>) = 0
    OBVIOUS
  <2>3. e2' = e2
    BY <1>4
  <2>. HIDE DEF e2
  <2>4. QED
    BY <1>4, <2>1, <2>2, <2>3 DEF Holds
<1>6. BStreamInv'
  <2>1. \E s2, e3 : Holds(s2, e3)'
    BY <1>5
  <2>2. QED
    BY <1>2, <1>4, <2>1 DEF BStreamInv
<1>7. QED
  BY <1>4, <1>6 DEF Kept, Flushed

LEMMA InvInit == Init => BStreamInv
<1>. SUFFICES ASSUME Init PROVE BStreamInv
  OBVIOUS
<1>. DEFINE e2 == [i \in 0 .. 0 |-> 0]
<1>1. Holds(<<>>, e2)
  <2>1. Stored(list, buf, <<>>, e2)
    BY EmptyStored DEF Init
  <2>2. e2[0] = 0 /\ Len(<<>>) = 0
    OBVIOUS
  <2>. HIDE DEF e2
  <2>3. QED
    BY <2>1, <2>2 DEF Holds, Init
<1>. HIDE DEF e2
<1>2. QED
  BY <1>1, BoundsOK DEF BStreamInv, Init

LEMMA StepKeeps == BStreamInv /\ Next => Kept
<1>. SUFFICES ASSUME BStreamInv, Next PROVE Kept
  OBVIOUS
<1>0. UNCHANGED server_use /\ Step
  BY DEF Next
<1>1. CASE \E len \in 0 .. MaxLen : WriteBorrow(len) \/ WriteBorrowFails(len)
  <2>1. PICK len \in 0 .. MaxLen : WriteBorrow(len) \/ WriteBorrowFails(len)
    BY <1>1
  <2>2. CASE WriteBorrow(len)
    BY <1>0, <2>2, BorrowKeeps
  <2>3. CASE WriteBorrowFails(len)
    BY <1>0, <2>3, FailKeeps DEF WriteBorrowFails
  <2>4. QED
    BY <2>1, <2>2, <2>3
<1>2. CASE \E len \in 0 .. MaxLen : \E got \in 0 .. len :
              /\ AllowedWrite(len, got)
              /\ \/ WriteToTail(len, got)
                 \/ WriteNewBuffers(len, got)
                 \/ WriteNewBuffersFails(len, got)
  <2>0. PICK len \in 0 .. MaxLen : \E got \in 0 .. len :
           /\ AllowedWrite(len, got)
           /\ \/ WriteToTail(len, got)
              \/ WriteNewBuffers(len, got)
              \/ WriteNewBuffersFails(len, got)
    BY <1>2
  <2>1. PICK got \in 0 .. len :
           /\ AllowedWrite(len, got)
           /\ \/ WriteToTail(len, got)
              \/ WriteNewBuffers(len, got)
              \/ WriteNewBuffersFails(len, got)
    BY <2>0
  <2>2. CASE WriteToTail(len, got)
    BY <1>0, <2>1, <2>2, TailKeeps
  <2>3. CASE WriteNewBuffers(len, got)
    BY <1>0, <2>1, <2>3, NewBuffersKeep
  <2>4. CASE WriteNewBuffersFails(len, got)
    BY <1>0, <2>1, <2>4, NewBuffersFailKeeps
  <2>5. QED
    BY <2>1, <2>2, <2>3, <2>4
<1>3. CASE \E len \in 0 .. MaxLen : AllowedWrite(len, len) /\ WriteOverflows(len)
  BY <1>0, <1>3, FailKeeps DEF WriteOverflows
<1>4. CASE \E len \in 0 .. MaxLen \cup {total_len} : AllowedRead(len) /\ Read(len)
  BY <1>0, <1>4, ReadKeeps
<1>5. CASE Flush
  BY <1>0, <1>5, FlushKeeps
<1>6. QED
  BY <1>0, <1>1, <1>2, <1>3, <1>4, <1>5 DEF Step

LEMMA InvAlways == Spec => []BStreamInv
<1>1. BStreamInv /\ [Next]_vars => BStreamInv'
  <2>1. ASSUME BStreamInv, UNCHANGED vars PROVE BStreamInv'
    BY <2>1 DEF BStreamInv, Holds, vars
  <2>2. QED
    BY <2>1, StepKeeps DEF Kept
<1>2. QED
  BY <1>1, InvInit, PTL DEF Spec

-----------------------------------------------------------------------------
(* Theorems *)

(* For every size of the buffers and of the numbers, and however many      *)
(* buffers, bytes and addresses there are: the buffers allocated are those *)
(* listed, each within its room (the assertion at bstream.c:153).          *)
THEOREM BuffersAreListed == Spec => []BuffersListed
<1>1. BStreamInv => BuffersListed
  <2>. SUFFICES ASSUME BStreamInv PROVE BuffersListed
    OBVIOUS
  <2>1. PICK s, e : Holds(s, e)
    BY DEF BStreamInv
  <2>2. Visited(list) = s /\ Chain(list, s) /\ DOMAIN s = 1 .. Len(s) /\ Len(s) \in Nat
    BY <2>1, BuffersHeld DEF Holds, Stored, Chain
  <2>3. ToSet(s) = {a \in Addresses : buf[a] # NoBuffer}
    <3>1. ToSet(s) = {s[i] : i \in 1 .. Len(s)}
      BY <2>2 DEF ToSet
    <3>2. \A i \in 1 .. Len(s) : s[i] \in Addresses
      <4>1. s \in Seq(Addresses)
        BY <2>2 DEF Chain
      <4>2. QED
        BY <4>1
    <3>3. \A a \in Addresses : buf[a] # NoBuffer <=> \E i \in 1 .. Len(s) : s[i] = a
      BY <2>1 DEF Holds, Stored
    <3>4. QED
      BY <3>1, <3>2, <3>3
  <2>4. \A i, j \in DOMAIN s : s[i] = s[j] => i = j
    BY <2>2 DEF Chain
  <2>5. list.tail = (IF s = <<>> THEN Null ELSE Last(s))
    <3>1. s = <<>> <=> Len(s) = 0
      BY <2>2, EmptySeq DEF Chain
    <3>2. Last(s) = s[Len(s)]
      BY DEF Last
    <3>3. QED
      BY <2>2, <3>1, <3>2 DEF Chain
  <2>6. \A i \in 2 .. Len(s) : list.prev[s[i]] = s[i - 1]
    BY <2>2 DEF Chain
  <2>7. ASSUME NEW a \in Addresses, list.prev[a] = Nowhere PROVE list.head = a
    <3>1. PICK i \in 1 .. Len(s) : s[i] = a
      BY <2>2, <2>7, Bounds DEF Chain
    <3>2. i = 1
      <4>1. ASSUME i # 1 PROVE FALSE
        <5>1. i \in 2 .. Len(s) /\ i - 1 \in 1 .. Len(s)
          BY <2>2, <4>1
        <5>2. list.prev[s[i]] = s[i - 1] /\ s[i - 1] \in Addresses
          <6>1. s \in Seq(Addresses) /\ \A k \in 2 .. Len(s) : list.prev[s[k]] = s[k - 1]
            BY <2>2 DEF Chain
          <6>2. QED
            BY <5>1, <6>1
        <5>3. QED
          BY <2>7, <3>1, <5>2, Bounds
      <4>2. QED
        BY <4>1
    <3>3. Len(s) # 0
      BY <2>2
    <3>4. list.head = s[1]
      BY <2>2, <3>3 DEF Chain
    <3>5. QED
      BY <3>1, <3>2, <3>4
  <2>8. \A i \in DOMAIN s :
           buf[s[i]].free_space + Len(buf[s[i]].data)
               <= IF buf[s[i]].type = "copied" THEN BufferSize ELSE MaxLen
    BY <2>1, <2>2 DEF Holds, Stored, Room
  <2>9. QED
    BY <2>2, <2>3, <2>4, <2>5, <2>6, <2>7, <2>8 DEF BuffersListed
<1>2. QED
  BY <1>1, InvAlways, PTL

(* Bytes come out in the order in which they went in.                      *)
THEOREM BytesInOrder == Spec => []OrderKept
<1>1. BStreamInv => OrderKept
  <2>. SUFFICES ASSUME BStreamInv PROVE OrderKept
    OBVIOUS
  <2>1. PICK s, e : Holds(s, e)
    BY DEF BStreamInv
  <2>2. QED
    BY <2>1, ContentsHeld DEF OrderKept, Run
<1>2. QED
  BY <1>1, InvAlways, PTL

LEMMA ContentsRun ==
    BStreamInv => Contents = Run(consumed, written) /\ Len(Contents) = written - consumed
<1>. SUFFICES ASSUME BStreamInv
              PROVE  Contents = Run(consumed, written) /\ Len(Contents) = written - consumed
  OBVIOUS
<1>1. PICK s, e : Holds(s, e)
  BY DEF BStreamInv
<1>2. Contents = Run(consumed, written)
  BY <1>1, ContentsHeld
<1>3. QED
  BY <1>2, InvNumbers, RunIsSeq

(* Used as the worker uses it, the stream is a queue of bytes whose length *)
(* is known (bstream.h).                                                   *)
THEOREM StreamIsByteQueue == Spec => ImplementsByteQueue
<1>1. Init => Queue!Init
  <2>. SUFFICES ASSUME Init PROVE Queue!Init
    OBVIOUS
  <2>1. BStreamInv
    BY InvInit
  <2>2. Contents = Run(0, 0)
    BY <2>1, ContentsRun DEF Init
  <2>3. Run(0, 0) = <<>>
    BY DEF Run
  <2>4. QED
    BY <2>2, <2>3 DEF Queue!Init, Init
<1>2. BStreamInv /\ Kept /\ UNCHANGED server_use
         => [Queue!Next]_<<IF server_use THEN Contents ELSE <<>>,
                           IF server_use THEN total_len ELSE 0, asked, result>>
  <2>. SUFFICES ASSUME BStreamInv, Kept, UNCHANGED server_use PROVE Queue!Next
    OBVIOUS
  <2>1. CASE ~ server_use
    BY <2>1 DEF Queue!Next, Queue!Flush
  <2>2. CASE server_use
    <3>1. /\ Contents = Run(consumed, written) /\ Len(Contents) = written - consumed
          /\ consumed \in Nat /\ written \in Nat /\ consumed <= written
      BY ContentsRun, InvNumbers
    <3>2. /\ Contents' = Run(consumed', written') /\ Len(Contents') = written' - consumed'
          /\ consumed' \in Nat /\ written' \in Nat /\ consumed' <= written'
          /\ total_len' = written' - consumed'
      <4>1. BStreamInv'
        BY DEF Kept
      <4>2. (Contents = Run(consumed, written) /\ Len(Contents) = written - consumed)'
        BY <4>1, ContentsRun, PTL
      <4>3. (consumed \in Nat /\ written \in Nat /\ consumed <= written)'
        BY <4>1, InvNumbers, PTL
      <4>4. total_len' = written' - consumed'
        BY <2>2, <4>1 DEF BStreamInv
      <4>5. QED
        BY <4>2, <4>3, <4>4 DEF Run
    <3>3. CASE Wrote
      <4>1. SubSeq(Contents', 1, Len(Contents)) = Contents
        <5>1. /\ consumed <= written' /\ 1 \in 1 .. written' - consumed + 1
              /\ written - consumed \in 0 .. written' - consumed /\ 1 <= written - consumed + 1
              /\ consumed + 1 - 1 = consumed /\ consumed + (written - consumed) = written
          <6>1. /\ written' \in Nat /\ result' \in Nat /\ written' = written + result'
                /\ consumed <= written'
            BY <3>1, <3>2, <3>3 DEF Wrote
          <6>2. PICK v \in Nat, r \in Nat : v = written' /\ r = result'
            BY <6>1
          <6>3. /\ consumed \in Nat /\ written \in Nat /\ consumed <= written
                /\ v = written + r
            BY <3>1, <6>1, <6>2
          <6>4. /\ consumed <= v /\ 1 \in 1 .. v - consumed + 1
                /\ written - consumed \in 0 .. v - consumed /\ 1 <= written - consumed + 1
                /\ consumed + 1 - 1 = consumed /\ consumed + (written - consumed) = written
            BY <6>3
          <6>5. QED
            BY <6>2, <6>4, Zenon
        <5>2. SubSeq(Run(consumed, written'), 1, written - consumed)
                 = Run(consumed + 1 - 1, consumed + (written - consumed))
          BY <3>1, <3>2, <5>1, RunCut, Zenon
        <5>3. QED
          BY <3>1, <3>2, <3>3, <5>1, <5>2 DEF Wrote
      <4>2. Len(Contents') = Len(Contents) + result' /\ result' <= asked'
        BY <3>1, <3>2, <3>3 DEF Wrote
      <4>3. QED
        BY <2>2, <3>2, <4>1, <4>2 DEF Queue!Next, Queue!Write
    <3>4. CASE Took
      <4>1. Contents' = SubSeq(Contents, result' + 1, Len(Contents))
        <5>1. /\ result' + 1 \in 1 .. written - consumed + 1
              /\ written - consumed \in 0 .. written - consumed
              /\ result' + 1 <= (written - consumed) + 1
              /\ consumed + (result' + 1) - 1 = consumed + result'
              /\ consumed + (written - consumed) = written
          <6>1. result' \in Nat /\ result' <= written - consumed
            BY <3>4 DEF Took
          <6>2. PICK r \in Nat : r = result'
            BY <6>1
          <6>3. /\ consumed \in Nat /\ written \in Nat /\ consumed <= written
                /\ r <= written - consumed
            BY <3>1, <6>1, <6>2
          <6>4. /\ r + 1 \in 1 .. written - consumed + 1
                /\ written - consumed \in 0 .. written - consumed
                /\ r + 1 <= (written - consumed) + 1
                /\ consumed + (r + 1) - 1 = consumed + r
                /\ consumed + (written - consumed) = written
            BY <6>3
          <6>5. QED
            BY <6>2, <6>4, Zenon
        <5>2. SubSeq(Run(consumed, written), result' + 1, written - consumed)
                 = Run(consumed + (result' + 1) - 1, consumed + (written - consumed))
          BY <3>1, <5>1, RunCut, Zenon
        <5>3. QED
          BY <3>1, <3>2, <3>4, <5>1, <5>2 DEF Took
      <4>2. result' <= asked' /\ result' <= Len(Contents)
        BY <2>2, <3>1, <3>4 DEF Took
      <4>3. QED
        BY <2>2, <3>2, <4>1, <4>2 DEF Queue!Next, Queue!Read
    <3>5. CASE Flushed
      <4>1. Contents' = <<>>
        BY <3>1, <3>2, <3>5 DEF Flushed, Run
      <4>2. QED
        BY <2>2, <3>2, <4>1 DEF Queue!Next, Queue!Flush
    <3>6. QED
      BY <2>2, <3>3, <3>4, <3>5 DEF Kept
  <2>3. QED
    BY <2>1, <2>2
<1>3. UNCHANGED vars
         => UNCHANGED <<IF server_use THEN Contents ELSE <<>>,
                        IF server_use THEN total_len ELSE 0, asked, result>>
  BY DEF vars, Contents, buffers
<1>4. BStreamInv /\ [Next]_vars
         => [Queue!Next]_<<IF server_use THEN Contents ELSE <<>>,
                           IF server_use THEN total_len ELSE 0, asked, result>>
  BY <1>2, <1>3, StepKeeps DEF Next
<1>5. QED
  BY <1>1, <1>4, InvAlways, PTL DEF Spec, ImplementsByteQueue, Queue!Spec
=============================================================================
