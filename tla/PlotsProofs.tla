---------------------------- MODULE PlotsProofs ----------------------------
(***************************************************************************)
(* Machine-checked proofs about Gens and Plots, for any number of tasks    *)
(* and questions and any kind of gen.  GensInv is inductive for the gen    *)
(* that anybody destroys: each step makes at most one new holder of a      *)
(* text, or loses one, and the counter follows.  It stays so when a plot   *)
(* of any number of members drives the gen of the first, whose last task   *)
(* takes the gen's place among the holders; PlotInv says how far the plot  *)
(* is, up to the first use of a dead gen.                                  *)
(***************************************************************************)
EXTENDS Plots, FiniteSetTheorems, SequenceTheorems, TLAPS

USE ObjectsDistinct

Counts == TextOutlivesHolders /\ NoTextLeaks /\ CounterCountsHolders
TextTypes == /\ text \in [Texts -> {"none", "allocated", "freed"}]
             /\ counter \in [Texts -> 0 .. WordSize - 1]

-----------------------------------------------------------------------------
(* Holders are finite and fewer than the values of a counter.              *)
LEMMA FewHolders ==
    ASSUME NEW S \in SUBSET Objects
    PROVE  IsFiniteSet(S) /\ Cardinality(S) \in Nat /\ Cardinality(S) < WordSize
<1>1. IsFiniteSet(Objects) /\ Cardinality(Objects) < WordSize
  <2>1. IsFiniteSet(Tasks \cup Questions)
    BY FS_Union
  <2>2. IsFiniteSet(Objects)
    BY <2>1, FS_AddElement DEF Objects
  <2>3. QED
    BY <2>2 DEF Objects
<1>2. IsFiniteSet(S) /\ Cardinality(S) <= Cardinality(Objects)
  BY <1>1, FS_Subset
<1>3. Cardinality(S) \in Nat /\ Cardinality(Objects) \in Nat
  BY <1>1, <1>2, FS_CardinalityType
<1>4. QED
  BY <1>1, <1>2, <1>3

(* The counter of unsigned width does not wrap below its limit.            *)
LEMMA SmallModulo == ASSUME NEW a \in Nat, NEW b \in Nat, a < b PROVE a % b = a
  OBVIOUS

(* rcmem_take for a new holder o of text x.                                *)
LEMMA TakeCounts ==
    ASSUME NEW x \in Texts, NEW o \in Objects, GensInv, Take(x),
           Holders(x) # {}, o \notin Holders(x),
           Holders(x)' = Holders(x) \cup {o},
           \A y \in Texts \ {x} : Holders(y)' = Holders(y)
    PROVE  Counts' /\ TextTypes'
<1>1. /\ text[x] = "allocated" /\ counter[x] = Cardinality(Holders(x))
      /\ counter \in [Texts -> 0 .. WordSize - 1]
      /\ text \in [Texts -> {"none", "allocated", "freed"}]
  BY DEF GensInv, TextOutlivesHolders, CounterCountsHolders, TypeOK
<1>2. Holders(x) \cup {o} \in SUBSET Objects /\ Holders(x) \in SUBSET Objects
  BY DEF Holders
<1>3. IsFiniteSet(Holders(x)) /\ Cardinality(Holders(x) \cup {o}) < WordSize
      /\ Cardinality(Holders(x)) \in Nat
  BY <1>2, FewHolders
<1>4. Cardinality(Holders(x) \cup {o}) = Cardinality(Holders(x)) + 1
  BY <1>3, FS_AddElement
<1>5. (counter[x] + 1) % WordSize = Cardinality(Holders(x) \cup {o})
  BY <1>1, <1>3, <1>4, SmallModulo
<1>6. /\ text' = text /\ counter'[x] = Cardinality(Holders(x)')
      /\ counter' \in [Texts -> 0 .. WordSize - 1]
      /\ \A y \in Texts \ {x} : counter'[y] = counter[y]
  BY <1>1, <1>3, <1>4, <1>5 DEF Take
<1>7. QED
  BY <1>1, <1>6 DEF GensInv, Counts, TextTypes, TextOutlivesHolders, NoTextLeaks,
     CounterCountsHolders

(* rcmem_put by a holder o of text x.                                      *)
LEMMA PutCounts ==
    ASSUME NEW x \in Texts, NEW o \in Objects, GensInv, Put(x),
           o \in Holders(x), Holders(x)' = Holders(x) \ {o},
           \A y \in Texts \ {x} : Holders(y)' = Holders(y)
    PROVE  Counts' /\ TextTypes'
<1>1. /\ text[x] = "allocated" /\ counter[x] = Cardinality(Holders(x))
      /\ counter \in [Texts -> 0 .. WordSize - 1]
      /\ text \in [Texts -> {"none", "allocated", "freed"}]
  BY DEF GensInv, TextOutlivesHolders, CounterCountsHolders, TypeOK
<1>2. IsFiniteSet(Holders(x)) /\ Cardinality(Holders(x)) \in Nat
  BY FewHolders DEF Holders
<1>3. Cardinality(Holders(x) \ {o}) = Cardinality(Holders(x)) - 1
      /\ IsFiniteSet(Holders(x) \ {o})
  BY <1>2, FS_RemoveElement
<1>4. Cardinality(Holders(x) \ {o}) \in Nat
  BY <1>3, FS_CardinalityType
<1>5. CASE counter[x] = 1
  <2>1. Holders(x)' = {}
    BY <1>1, <1>3, <1>5, FS_EmptySet
  <2>2. text' = [text EXCEPT ![x] = "freed"] /\ counter' = counter
    BY <1>5 DEF Put
  <2>3. QED
    BY <1>1, <2>1, <2>2 DEF GensInv, Counts, TextTypes, TextOutlivesHolders,
       NoTextLeaks, CounterCountsHolders
<1>6. CASE counter[x] # 1
  <2>1. text' = text /\ counter' = [counter EXCEPT ![x] = counter[x] - 1]
    BY <1>6 DEF Put
  <2>2. Holders(x)' # {}
    BY <1>1, <1>3, <1>6, FS_EmptySet
  <2>3. counter'[x] = Cardinality(Holders(x)') /\ counter' \in [Texts -> 0 .. WordSize - 1]
        /\ \A y \in Texts \ {x} : counter'[y] = counter[y]
    BY <1>1, <1>3, <1>4, <2>1
  <2>4. TextTypes'
    BY <1>1, <2>1, <2>3 DEF TextTypes
  <2>5. TextOutlivesHolders' /\ NoTextLeaks'
    BY <1>1, <2>1, <2>2 DEF GensInv, TextOutlivesHolders, NoTextLeaks
  <2>6. CounterCountsHolders'
    BY <1>1, <2>1, <2>3 DEF GensInv, CounterCountsHolders
  <2>7. QED
    BY <2>4, <2>5, <2>6 DEF Counts
<1>7. QED
  BY <1>5, <1>6

(* No reference is made or lost.                                           *)
LEMMA SameCounts ==
    ASSUME GensInv, text' = text, counter' = counter,
           \A y \in Texts : Holders(y)' = Holders(y)
    PROVE  Counts' /\ TextTypes'
BY DEF GensInv, Counts, TextTypes, TypeOK, TextOutlivesHolders, NoTextLeaks,
   CounterCountsHolders

(* A text is made with its first holders, S.                               *)
LEMMA FreshCounts ==
    ASSUME NEW x \in Texts, NEW S \in SUBSET Objects, GensInv,
           S # {}, Holders(x)' = S,
           text' = [text EXCEPT ![x] = "allocated"],
           counter' = [counter EXCEPT ![x] = Cardinality(S)],
           \A y \in Texts \ {x} : Holders(y)' = Holders(y)
    PROVE  Counts' /\ TextTypes'
<1>1. Cardinality(S) \in Nat /\ Cardinality(S) < WordSize
  BY FewHolders
<1>2. counter \in [Texts -> 0 .. WordSize - 1]
      /\ text \in [Texts -> {"none", "allocated", "freed"}]
  BY DEF GensInv, TypeOK
<1>3. TextTypes'
  BY <1>1, <1>2 DEF TextTypes
<1>4. /\ text'[x] = "allocated" /\ counter'[x] = Cardinality(Holders(x)')
      /\ \A y \in Texts \ {x} : text'[y] = text[y] /\ counter'[y] = counter[y]
  BY <1>2
<1>5. QED
  BY <1>3, <1>4 DEF GensInv, Counts, TextOutlivesHolders, NoTextLeaks,
     CounterCountsHolders

-----------------------------------------------------------------------------
(* Putting the pieces of the invariant together.                           *)
LEMMA Assemble ==
    ASSUME Counts', TextTypes', PlaceInv', kind' = kind, kind \in GenKinds,
           object' \in [Objects -> {"unmade", "alive", "destroyed"}],
           task_of' \in [Questions -> Tasks \cup {None}],
           cached' \in [Tasks -> BOOLEAN], crashed' \in BOOLEAN
    PROVE  GensInv'
BY DEF GensInv, Counts, TextTypes, TypeOK

(* Nothing exists yet.                                                     *)
LEMMA InitGensInv == Init => GensInv
<1>. SUFFICES ASSUME Init PROVE GensInv
  OBVIOUS
<1>1. TypeOK
  <2>1. 0 \in 0 .. WordSize - 1
    <3>1. Cardinality({}) < WordSize /\ Cardinality({}) \in Nat
      BY FewHolders
    <3>2. QED
      BY <3>1
  <2>2. QED
    BY <2>1 DEF Init, TypeOK
<1>2. PlaceInv
  BY DEF Init, PlaceInv, Texts, Objects
<1>3. \A x \in Texts : Holders(x) = {} /\ text[x] = "none"
  BY DEF Init, Holders, Holds
<1>4. QED
  BY <1>1, <1>2, <1>3 DEF GensInv, TextOutlivesHolders, NoTextLeaks, CounterCountsHolders

(* The gen is made, an echo gen with its text.                             *)
LEMMA GenCreateKeeps == GensInv /\ GenCreate => GensInv'
<1>. SUFFICES ASSUME GensInv, GenCreate PROVE GensInv'
  OBVIOUS
<1>1. object' = [object EXCEPT ![Gen] = "alive"] /\ object[Gen] = "unmade"
      /\ kind' = kind /\ task_of' = task_of /\ cached' = cached /\ crashed' = crashed
  BY DEF GenCreate
<1>2. TypeOK /\ PlaceInv
  BY DEF GensInv
<1>3. Gen \in Texts /\ Gen \in Objects
  BY DEF Texts, Objects
<1>4. \A y \in Texts \ {Gen} : Holders(y)' = Holders(y)
  BY <1>1, <1>2 DEF Holders, Holds, HasText, TextOf, TypeOK
<1>5. CASE kind = "echo"
  <2>1. Holders(Gen)' = {Gen}
    BY <1>1, <1>2, <1>3, <1>5 DEF Holders, Holds, HasText, TextOf, PlaceInv, TypeOK, Objects
  <2>2. text' = [text EXCEPT ![Gen] = "allocated"] /\ counter' = [counter EXCEPT ![Gen] = 1]
    BY <1>5 DEF GenCreate
  <2>3. Cardinality({Gen}) = 1 /\ {Gen} \in SUBSET Objects /\ {Gen} # {}
    BY <1>3, FS_Singleton
  <2>4. Counts' /\ TextTypes'
    BY <1>3, <1>4, <2>1, <2>2, <2>3, FreshCounts
  <2>5. PlaceInv'
    BY <1>1, <1>2, <1>5, <2>2 DEF PlaceInv, HasText, TypeOK, Texts, Objects
  <2>6. QED
    BY <1>1, <1>2, <2>4, <2>5, Assemble DEF TypeOK
<1>6. CASE kind # "echo"
  <2>1. Holders(Gen)' = Holders(Gen)
    BY <1>1, <1>2, <1>6 DEF Holders, Holds, HasText, TextOf, PlaceInv, TypeOK, Objects
  <2>2. text' = text /\ counter' = counter
    BY <1>6 DEF GenCreate
  <2>3. Counts' /\ TextTypes'
    BY <1>4, <2>1, <2>2, SameCounts
  <2>4. PlaceInv'
    BY <1>1, <1>2, <1>6, <2>2 DEF PlaceInv, HasText, TypeOK, Objects
  <2>5. QED
    BY <1>1, <1>2, <2>3, <2>4, Assemble DEF TypeOK
<1>7. QED
  BY <1>5, <1>6

(* A task is made; of an echo gen, with a reference to the gen's text.     *)
LEMMA GenerateKeeps == ASSUME NEW t \in Tasks, GensInv, Generate(t) PROVE GensInv'
<1>1. object' = [object EXCEPT ![t] = "alive"] /\ object[t] = "unmade"
      /\ object[Gen] = "alive" /\ kind' = kind /\ task_of' = task_of
      /\ cached' = cached /\ crashed' = crashed
  BY DEF Generate
<1>2. TypeOK /\ PlaceInv
  BY DEF GensInv
<1>3. t \in Objects /\ Gen \in Objects /\ Gen \in Texts
  BY DEF Texts, Objects
<1>4. PlaceInv'
  <2>1. text'[Gen] # "none" <=> text[Gen] # "none"
    BY <1>2, <1>3 DEF Generate, Take, TypeOK
  <2>2. \A u \in Tasks : text'[u] = text[u]
    BY <1>2 DEF Generate, Take
  <2>3. QED
    BY <1>1, <1>2, <2>1, <2>2 DEF PlaceInv, HasText, TypeOK, Objects
<1>5. CASE kind = "echo"
  <2>1. Holders(Gen)' = Holders(Gen) \cup {t} /\ t \notin Holders(Gen) /\ Gen \in Holders(Gen)
    BY <1>1, <1>2, <1>3, <1>5 DEF Holders, Holds, HasText, TextOf, TypeOK
  <2>2. \A y \in Texts \ {Gen} : Holders(y)' = Holders(y)
    BY <1>1, <1>2, <1>3, <1>5 DEF Holders, Holds, HasText, TextOf, TypeOK
  <2>3. Take(Gen)
    BY <1>5 DEF Generate
  <2>4. Counts' /\ TextTypes'
    BY <1>3, <2>1, <2>2, <2>3, TakeCounts
  <2>5. QED
    BY <1>1, <1>2, <1>4, <2>4, Assemble DEF TypeOK
<1>6. CASE kind # "echo"
  <2>1. ~cached[t]
    BY <1>1, <1>2 DEF PlaceInv
  <2>2. \A y \in Texts : Holders(y)' = Holders(y)
    BY <1>1, <1>2, <1>3, <1>6, <2>1 DEF Holders, Holds, HasText, TextOf, TypeOK
  <2>3. text' = text /\ counter' = counter
    BY <1>6 DEF Generate
  <2>4. Counts' /\ TextTypes'
    BY <2>2, <2>3, SameCounts
  <2>5. QED
    BY <1>1, <1>2, <1>4, <2>4, Assemble DEF TypeOK
<1>7. QED
  BY <1>5, <1>6

(* A question of a task that has a text takes a reference to it.           *)
LEMMA AskAgainKeeps ==
    ASSUME NEW t \in Tasks, NEW q \in Questions, GensInv, AskAgain(q, t) PROVE GensInv'
<1>. PICK x \in Texts : x = TextOf(t)
  BY DEF Texts, TextOf
<1>1. object' = [object EXCEPT ![q] = "alive"] /\ object[q] = "unmade"
      /\ object[t] = "alive" /\ HasText(t) /\ task_of' = [task_of EXCEPT ![q] = t]
      /\ kind' = kind /\ cached' = cached /\ crashed' = crashed /\ Take(x)
  BY DEF AskAgain
<1>2. TypeOK /\ PlaceInv
  BY DEF GensInv
<1>3. t \in Objects /\ q \in Objects /\ q # Gen /\ q \notin Tasks
  BY DEF Objects
<1>4. Holders(x)' = Holders(x) \cup {q} /\ q \notin Holders(x) /\ t \in Holders(x)
  BY <1>1, <1>2, <1>3 DEF Holders, Holds, HasText, TextOf, TypeOK
<1>5. \A y \in Texts \ {x} : Holders(y)' = Holders(y)
  BY <1>1, <1>2, <1>3 DEF Holders, Holds, HasText, TextOf, TypeOK
<1>6. Counts' /\ TextTypes'
  BY <1>1, <1>3, <1>4, <1>5, TakeCounts
<1>7. text' = text
  BY <1>1 DEF Take
<1>8. PlaceInv'
  BY <1>1, <1>2, <1>3, <1>7 DEF PlaceInv, HasText, TypeOK, Objects
<1>9. QED
  BY <1>1, <1>2, <1>6, <1>8, Assemble DEF TypeOK

(* The first question of an eq or shellcode task, and the text, cached.    *)
LEMMA AskFirstKeeps ==
    ASSUME NEW t \in Tasks, NEW q \in Questions, GensInv, AskFirst(q, t) PROVE GensInv'
<1>1. object' = [object EXCEPT ![q] = "alive"] /\ object[q] = "unmade"
      /\ object[t] = "alive" /\ ~HasText(t) /\ task_of' = [task_of EXCEPT ![q] = t]
      /\ kind' = kind /\ cached' = [cached EXCEPT ![t] = TRUE] /\ crashed' = crashed
      /\ text' = [text EXCEPT ![t] = "allocated"] /\ counter' = [counter EXCEPT ![t] = 2]
  BY DEF AskFirst
<1>2. TypeOK /\ PlaceInv
  BY DEF GensInv
<1>3. t \in Objects /\ q \in Objects /\ t \in Texts /\ q # Gen /\ q \notin Tasks /\ t # Gen
      /\ q # t /\ kind # "echo" /\ ~cached[t]
  BY <1>1 DEF Texts, Objects, HasText
<1>4. Holders(t)' = {t, q}
  <2>1. \A p \in Questions : object[p] = "alive" => task_of[p] # t
    BY <1>2, <1>3 DEF PlaceInv, HasText
  <2>2. \A o \in Objects : Holds(o, t)' => o \in {t, q}
    BY <1>1, <1>2, <1>3, <2>1 DEF Holds, HasText, TextOf, TypeOK, Objects
  <2>3. Holds(t, t)' /\ Holds(q, t)'
    BY <1>1, <1>2, <1>3 DEF Holds, HasText, TextOf, TypeOK
  <2>4. QED
    BY <1>3, <2>2, <2>3 DEF Holders
<1>5. \A y \in Texts \ {t} : Holders(y)' = Holders(y)
  BY <1>1, <1>2, <1>3 DEF Holders, Holds, HasText, TextOf, TypeOK
<1>6. Cardinality({t, q}) = 2 /\ {t, q} \in SUBSET Objects /\ {t, q} # {}
  <2>1. IsFiniteSet({t}) /\ Cardinality({t}) = 1 /\ q \notin {t}
    BY <1>3, FS_Singleton
  <2>2. Cardinality({t} \cup {q}) = 2
    <3>. PICK S : S = {t}
      OBVIOUS
    <3>1. Cardinality(S \cup {q}) = Cardinality(S) + 1
      BY <2>1, FS_AddElement
    <3>2. QED
      BY <2>1, <3>1
  <2>3. {t} \cup {q} = {t, q}
    OBVIOUS
  <2>4. QED
    BY <1>3, <2>2, <2>3
<1>7. Counts' /\ TextTypes'
  BY <1>1, <1>3, <1>4, <1>5, <1>6, FreshCounts
<1>8. PlaceInv'
  BY <1>1, <1>2, <1>3 DEF PlaceInv, HasText, TypeOK, Texts, Objects
<1>9. QED
  BY <1>1, <1>2, <1>7, <1>8, Assemble DEF TypeOK

(* The question cannot be made, but the text stays with its task.          *)
LEMMA AskFailsCachedKeeps ==
    ASSUME NEW t \in Tasks, GensInv, AskFailsCached(t) PROVE GensInv'
<1>1. object' = object /\ object[t] = "alive" /\ ~HasText(t) /\ task_of' = task_of
      /\ kind' = kind /\ cached' = [cached EXCEPT ![t] = TRUE] /\ crashed' = crashed
      /\ text' = [text EXCEPT ![t] = "allocated"] /\ counter' = [counter EXCEPT ![t] = 1]
  BY DEF AskFailsCached
<1>2. TypeOK /\ PlaceInv
  BY DEF GensInv
<1>3. t \in Objects /\ t \in Texts /\ t # Gen /\ kind # "echo" /\ ~cached[t]
  BY <1>1 DEF Texts, Objects, HasText
<1>4. Holders(t)' = {t}
  BY <1>1, <1>2, <1>3 DEF Holders, Holds, HasText, TextOf, TypeOK, PlaceInv, Objects
<1>5. \A y \in Texts \ {t} : Holders(y)' = Holders(y)
  BY <1>1, <1>2, <1>3 DEF Holders, Holds, HasText, TextOf, TypeOK
<1>6. Cardinality({t}) = 1 /\ {t} \in SUBSET Objects /\ {t} # {}
  BY <1>3, FS_Singleton
<1>7. Counts' /\ TextTypes'
  BY <1>1, <1>3, <1>4, <1>5, <1>6, FreshCounts
<1>8. PlaceInv'
  BY <1>1, <1>2, <1>3 DEF PlaceInv, HasText, TypeOK, Texts, Objects
<1>9. QED
  BY <1>1, <1>2, <1>7, <1>8, Assemble DEF TypeOK

-----------------------------------------------------------------------------
(* An object that holds a text is destroyed and puts it.                   *)
LEMMA ReleaseKeeps ==
    ASSUME NEW o \in Objects, NEW x \in Texts, GensInv, Destroy(o, TRUE, x), Holds(o, x)
    PROVE  GensInv'
<1>1. object' = [object EXCEPT ![o] = "destroyed"] /\ object[o] = "alive"
      /\ kind' = kind /\ task_of' = task_of /\ cached' = cached /\ crashed' = crashed
      /\ Put(x)
  BY DEF Destroy
<1>2. TypeOK /\ PlaceInv
  BY DEF GensInv
<1>3. Holders(x)' = Holders(x) \ {o} /\ o \in Holders(x)
  BY <1>1, <1>2 DEF Holders, Holds, HasText, TextOf, TypeOK
<1>4. \A y \in Texts \ {x} : Holders(y)' = Holders(y)
  <2>1. \A y \in Texts \ {x} : ~Holds(o, y)
    BY DEF Holds, Objects, Texts
  <2>2. QED
    BY <1>1, <1>2, <2>1 DEF Holders, Holds, HasText, TextOf, TypeOK
<1>5. Counts' /\ TextTypes'
  BY <1>1, <1>3, <1>4, PutCounts
<1>6. PlaceInv'
  <2>1. text[x] = "allocated"
    BY <1>3 DEF GensInv, TextOutlivesHolders
  <2>2. \A y \in Texts : text'[y] # "none" <=> text[y] # "none"
    BY <1>1, <1>2, <2>1 DEF Put, TypeOK
  <2>3. QED
    BY <1>1, <1>2, <2>2 DEF PlaceInv, HasText, TypeOK, Texts, Objects
<1>7. QED
  BY <1>1, <1>2, <1>5, <1>6, Assemble DEF TypeOK

(* An object that holds no text is destroyed.                              *)
LEMMA DropKeeps ==
    ASSUME NEW o \in Objects, NEW x, GensInv, Destroy(o, FALSE, x),
           \A y \in Texts : ~Holds(o, y)
    PROVE  GensInv'
<1>1. object' = [object EXCEPT ![o] = "destroyed"] /\ object[o] = "alive"
      /\ kind' = kind /\ task_of' = task_of /\ cached' = cached /\ crashed' = crashed
      /\ text' = text /\ counter' = counter
  BY DEF Destroy
<1>2. TypeOK /\ PlaceInv
  BY DEF GensInv
<1>3. \A y \in Texts : Holders(y)' = Holders(y)
  BY <1>1, <1>2 DEF Holders, Holds, HasText, TextOf, TypeOK
<1>4. Counts' /\ TextTypes'
  BY <1>1, <1>3, SameCounts
<1>5. PlaceInv'
  BY <1>1, <1>2 DEF PlaceInv, HasText, TypeOK, Texts, Objects
<1>6. QED
  BY <1>1, <1>2, <1>4, <1>5, Assemble DEF TypeOK

(* Gen, task and question are objects of the one kind or the other.        *)
LEMMA DestroyKeeps ==
    ASSUME GensInv,
           GenDestroy \/ (\E t \in Tasks : TaskDestroy(t))
                      \/ (\E q \in Questions : QuestionDestroy(q))
    PROVE  GensInv'
<1>1. CASE GenDestroy
  <2>1. Gen \in Objects /\ Gen \in Texts /\ Gen \notin Tasks /\ Gen \notin Questions
    BY DEF Objects, Texts
  <2>2. CASE kind = "echo"
    <3>1. Destroy(Gen, TRUE, Gen) /\ Holds(Gen, Gen)
      BY <1>1, <2>1, <2>2 DEF GenDestroy, Destroy, Holds
    <3>2. QED
      BY <2>1, <3>1, ReleaseKeeps
  <2>3. CASE kind # "echo"
    <3>1. Destroy(Gen, FALSE, Gen) /\ \A y \in Texts : ~Holds(Gen, y)
      BY <1>1, <2>1, <2>3 DEF GenDestroy, Destroy, Holds
    <3>2. QED
      BY <2>1, <3>1, DropKeeps
  <2>4. QED
    BY <2>2, <2>3
<1>2. ASSUME NEW t \in Tasks, TaskDestroy(t) PROVE GensInv'
  <2>1. t \in Objects /\ TextOf(t) \in Texts /\ t # Gen /\ t \notin Questions
    BY DEF Objects, Texts, TextOf
  <2>2. CASE HasText(t)
    <3>1. Destroy(t, TRUE, TextOf(t)) /\ Holds(t, TextOf(t))
      BY <1>2, <2>1, <2>2 DEF TaskDestroy, Destroy, Holds
    <3>2. QED
      BY <2>1, <3>1, ReleaseKeeps
  <2>3. CASE ~HasText(t)
    <3>1. Destroy(t, FALSE, TextOf(t)) /\ \A y \in Texts : ~Holds(t, y)
      BY <1>2, <2>1, <2>3 DEF TaskDestroy, Destroy, Holds
    <3>2. QED
      BY <2>1, <3>1, DropKeeps
  <2>4. QED
    BY <2>2, <2>3
<1>3. ASSUME NEW q \in Questions, QuestionDestroy(q) PROVE GensInv'
  <2>1. object[q] = "alive" /\ Destroy(q, TRUE, TextOf(task_of[q]))
    BY <1>3 DEF QuestionDestroy, Destroy
  <2>2. q \in Objects /\ task_of[q] \in Tasks
    BY <2>1 DEF GensInv, PlaceInv, Objects
  <2>3. TextOf(task_of[q]) \in Texts
    BY <2>2 DEF TextOf, Texts
  <2>4. Holds(q, TextOf(task_of[q]))
    BY <2>1 DEF Holds
  <2>5. QED
    BY <2>1, <2>2, <2>3, <2>4, ReleaseKeeps
<1>4. QED
  BY <1>1, <1>2, <1>3

(* Every step preserves the invariant.                                     *)
LEMMA NextGensInv == GensInv /\ [Next]_vars => GensInv'
<1>. SUFFICES ASSUME GensInv, [Next]_vars PROVE GensInv'
  OBVIOUS
<1>1. CASE UNCHANGED vars
  BY <1>1 DEF vars, GensInv, TypeOK, PlaceInv, HasText, TextOf, TextOutlivesHolders,
     NoTextLeaks, CounterCountsHolders, Holders, Holds
<1>2. ASSUME NEW t \in Tasks, AskFailsUnwritten(t) PROVE GensInv'
  BY <1>2 DEF AskFailsUnwritten, GensInv, TypeOK, PlaceInv, HasText, TextOf,
     TextOutlivesHolders, NoTextLeaks, CounterCountsHolders, Holders, Holds
<1>3. QED
  BY <1>1, <1>2, GenCreateKeeps, GenerateKeeps, AskAgainKeeps, AskFirstKeeps,
     AskFailsCachedKeeps, DestroyKeeps DEF Next

-----------------------------------------------------------------------------
(* A question's text is alive as long as the question is, whatever became  *)
(* of its task and of the gen.                                             *)
THEOREM TextsOutliveHolders == Spec => []TextOutlivesHolders
<1>1. GensInv => TextOutlivesHolders
  BY DEF GensInv
<1>2. QED
  BY <1>1, InitGensInv, NextGensInv, PTL DEF Spec

(* No text outlives its last holder, whichever of gen, task and question   *)
(* that is (rcmem.c:40-49).                                                *)
THEOREM TextsDoNotLeak == Spec => []NoTextLeaks
<1>1. GensInv => NoTextLeaks
  BY DEF GensInv
<1>2. QED
  BY <1>1, InitGensInv, NextGensInv, PTL DEF Spec

(* The reference counter is the number of holders, for any number of tasks *)
(* and questions below the range of the counter.                           *)
THEOREM CountersExact == Spec => []CounterCountsHolders
<1>1. GensInv => CounterCountsHolders
  BY DEF GensInv
<1>2. QED
  BY <1>1, InitGensInv, NextGensInv, PTL DEF Spec

-----------------------------------------------------------------------------
(* The last task of an echo gen takes over the gen's reference.            *)
LEMMA GenerateLastKeeps ==
    ASSUME NEW t \in Tasks, GensInv, GenerateLast(t) PROVE GensInv'
<1>1. object' = [object EXCEPT ![t] = "alive", ![Gen] = "destroyed"]
      /\ object[t] = "unmade" /\ object[Gen] = "alive" /\ kind' = kind
      /\ task_of' = task_of /\ cached' = cached /\ crashed' = crashed
      /\ text' = text /\ counter' = counter
  BY DEF GenerateLast
<1>2. TypeOK /\ PlaceInv
  BY DEF GensInv
<1>3. t \in Objects /\ Gen \in Objects /\ Gen \in Texts /\ t # Gen
  BY DEF Texts, Objects
<1>4. PlaceInv'
  BY <1>1, <1>2, <1>3 DEF PlaceInv, HasText, TypeOK, Objects
<1>5. ASSUME NEW y \in Texts
      PROVE  (Holders(y)' = {} <=> Holders(y) = {})
             /\ Cardinality(Holders(y)') = Cardinality(Holders(y))
  <2>1. CASE kind = "echo" /\ y = Gen
    <3>1. Holders(y)' = (Holders(y) \ {Gen}) \cup {t} /\ t \notin Holders(y) /\ Gen \in Holders(y)
      BY <1>1, <1>2, <1>3, <2>1 DEF Holders, Holds, HasText, TextOf, TypeOK
    <3>2. IsFiniteSet(Holders(y))
      BY FewHolders DEF Holders
    <3>3. IsFiniteSet(Holders(y) \ {Gen}) /\ t \notin Holders(y) \ {Gen}
          /\ Cardinality(Holders(y) \ {Gen}) = Cardinality(Holders(y)) - 1
          /\ Cardinality(Holders(y)) \in Nat
      BY <3>1, <3>2, FS_RemoveElement, FS_CardinalityType
    <3>4. Cardinality((Holders(y) \ {Gen}) \cup {t}) = Cardinality(Holders(y) \ {Gen}) + 1
      BY <3>3, FS_AddElement
    <3>5. QED
      BY <3>1, <3>3, <3>4
  <2>2. CASE ~(kind = "echo" /\ y = Gen)
    <3>1. ~HasText(t) \/ y # TextOf(t)
      BY <1>1, <1>2, <2>2 DEF PlaceInv, HasText, TextOf
    <3>2. Holders(y)' = Holders(y)
      BY <1>1, <1>2, <1>3, <2>2, <3>1 DEF Holders, Holds, HasText, TextOf, TypeOK
    <3>3. QED
      BY <3>2
  <2>3. QED
    BY <2>1, <2>2
<1>6. Counts' /\ TextTypes'
  BY <1>1, <1>5 DEF GensInv, Counts, TextTypes, TypeOK, TextOutlivesHolders, NoTextLeaks,
     CounterCountsHolders
<1>7. object' \in [Objects -> {"unmade", "alive", "destroyed"}]
  BY <1>1, <1>2 DEF TypeOK
<1>8. QED
  BY <1>1, <1>2, <1>4, <1>6, <1>7, Assemble DEF TypeOK

-----------------------------------------------------------------------------
(* The array of members has a first one, which owes tasks.                *)
LEMMA FirstMember ==
    ASSUME NEW m \in Membs
    PROVE  /\ Len(m) \in Nat \ {0} /\ 1 \in 1 .. Len(m)
           /\ m[1].task_count \in Nat \ {0}
<1>. DEFINE Member == [task_count : Nat \ {0}, timeout_base : 0 .. TimeSize - 1,
                       timeout_dec : 0 .. TimeSize - 1]
<1>1. m # <<>> /\ m \in Seq(Member)
  BY PlotsConstantsOK DEF P!MembsOK
<1>2. Len(m) \in Nat \ {0} /\ \A k \in 1 .. Len(m) : m[k] \in Member
  <2>. HIDE DEF Member
  <2>1. QED
    BY <1>1
<1>3. 1 \in 1 .. Len(m)
  BY <1>2
<1>4. m[1] \in Member
  BY <1>2, <1>3
<1>5. m[1].task_count \in Nat \ {0}
  BY <1>4
<1>6. QED
  BY <1>2, <1>3, <1>5

LEMMA Several == ASSUME NEW k \in Nat \ {0} PROVE k > 1 <=> k # 1
  OBVIOUS

(* Nothing undefined has happened yet.                                     *)
Running == PlotsInv /\ misused = {}

LEMMA RunningFacts ==
    ASSUME Running
    PROVE  /\ GensInv
           /\ membs \in Membs /\ DOMAIN gens = P!GenIds
           /\ P!Count = Len(membs) /\ P!GenIds = 1 .. Len(membs)
           /\ Len(membs) \in Nat \ {0} /\ 1 \in P!GenIds
           /\ membs[1].task_count \in Nat \ {0}
           /\ (\E n \in 0 .. Len(membs) : Making(n)) \/ Giving \/ Given \/ Over
<1>1. GensInv /\ membs \in Membs /\ DOMAIN gens = P!GenIds
      /\ ((\E n \in 0 .. Len(membs) : Making(n)) \/ Giving \/ Given \/ Over)
  BY DEF Running, PlotsInv, PlotInv, Undefined
<1>2. P!Count = Len(membs) /\ P!GenIds = 1 .. Len(membs)
  BY DEF P!GenIds, P!Count
<1>3. QED
  BY <1>1, <1>2, FirstMember

(* LinearPlot counts as we do.                                             *)
LEMMA SameCardinality == ASSUME NEW S PROVE P!Cardinality(S) = Cardinality(S)
BY DEF P!Cardinality, Cardinality

(* Destroying each of the living gens 1 .. n once is no misuse.            *)
LEMMA DestroyedEach ==
    ASSUME NEW n \in Nat, NEW s, P!Destroyed(s), s = [k \in 1 .. n |-> k],
           \A g \in 1 .. n : gens[g] = "alive"
    PROVE  /\ gens' = [g \in P!GenIds |-> IF g \in 1 .. n THEN "destroyed" ELSE gens[g]]
           /\ misused' = misused
<1>. DEFINE times(g) == P!Cardinality({k \in DOMAIN s : s[k] = g})
<1>1. \A g : times(g) = IF g \in 1 .. n THEN 1 ELSE 0
  <2>1. ASSUME NEW g, g \in 1 .. n PROVE times(g) = 1
    <3>1. {k \in DOMAIN s : s[k] = g} = {g}
      BY <2>1
    <3>2. QED
      BY <3>1, FS_Singleton, SameCardinality
  <2>2. ASSUME NEW g, g \notin 1 .. n PROVE times(g) = 0
    <3>1. {k \in DOMAIN s : s[k] = g} = {}
      BY <2>2
    <3>2. QED
      BY <3>1, FS_EmptySet, SameCardinality
  <2>3. QED
    BY <2>1, <2>2
<1>2. /\ gens' = [g \in P!GenIds |-> IF times(g) > 0 THEN "destroyed" ELSE gens[g]]
      /\ misused' = misused \cup {g \in P!GenIds :
                        times(g) > (IF gens[g] = "alive" THEN 1 ELSE 0)}
  BY Zenon DEF P!Destroyed
<1>. HIDE DEF times
<1>3. \A g : times(g) > 0 <=> g \in 1 .. n
  BY <1>1
<1>4. {g \in P!GenIds : times(g) > (IF gens[g] = "alive" THEN 1 ELSE 0)} = {}
  BY <1>1
<1>5. QED
  BY <1>2, <1>3, <1>4

(* The first gen, destroyed more than once, was misused; in any case it is *)
(* not alive after.                                                        *)
LEMMA DestroyedFirst ==
    ASSUME NEW n \in Nat, NEW s, P!Destroyed(s), s = [k \in 1 .. n |-> 1], 1 \in P!GenIds
    PROVE  /\ gens' = [g \in P!GenIds |-> IF g = 1 /\ n > 0 THEN "destroyed" ELSE gens[g]]
           /\ misused = {} => (misused' = {} <=> n <= (IF gens[1] = "alive" THEN 1 ELSE 0))
<1>. DEFINE times(g) == P!Cardinality({k \in DOMAIN s : s[k] = g})
<1>1. times(1) = n
  <2>1. {k \in DOMAIN s : s[k] = 1} = 1 .. n
    OBVIOUS
  <2>2. Cardinality(1 .. n) = n
    BY FS_Interval
  <2>3. QED
    BY <2>1, <2>2, SameCardinality, Zenon
<1>2. ASSUME NEW g, g # 1 PROVE times(g) = 0
  <2>1. {k \in DOMAIN s : s[k] = g} = {}
    BY <1>2
  <2>2. QED
    BY <2>1, FS_EmptySet, SameCardinality
<1>3. /\ gens' = [g \in P!GenIds |-> IF times(g) > 0 THEN "destroyed" ELSE gens[g]]
      /\ misused' = misused \cup {g \in P!GenIds :
                        times(g) > (IF gens[g] = "alive" THEN 1 ELSE 0)}
  BY Zenon DEF P!Destroyed
<1>. HIDE DEF times
<1>4. \A g : times(g) > 0 <=> g = 1 /\ n > 0
  BY <1>1, <1>2
<1>5. n <= (IF gens[1] = "alive" THEN 1 ELSE 0)
         <=> {g \in P!GenIds : times(g) > (IF gens[g] = "alive" THEN 1 ELSE 0)} = {}
  <2>1. \A g : times(g) > (IF gens[g] = "alive" THEN 1 ELSE 0)
                  <=> g = 1 /\ n > (IF gens[1] = "alive" THEN 1 ELSE 0)
    BY <1>1, <1>2
  <2>2. QED
    BY <2>1
<1>6. QED
  BY <1>3, <1>4, <1>5

(* NextGen follows the gens made.                                          *)
LEMMA NextGenMaking ==
    ASSUME Running, NEW n \in 0 .. Len(membs), Making(n)
    PROVE  P!NextGen = n + 1
<1>1. P!GenIds = 1 .. Len(membs) /\ Len(membs) \in Nat \ {0}
  BY RunningFacts
<1>2. {g \in P!GenIds : gens[g] = "alive"} = 1 .. n
  BY <1>1 DEF Making
<1>3. Cardinality(1 .. n) = n
  BY <1>1, FS_Interval, SMTT(30)
<1>4. QED
  BY <1>2, <1>3, SameCardinality DEF P!NextGen

-----------------------------------------------------------------------------
(* How many tasks were made.                                               *)
LEMMA GivenNat == TasksGiven \in Nat
BY FS_Subset, FS_CardinalityType DEF TasksGiven

LEMMA OneMoreGiven ==
    ASSUME NEW t \in Tasks, object[t] = "unmade", object'[t] = "alive",
           \A u \in Tasks \ {t} : object'[u] = object[u]
    PROVE  TasksGiven' = TasksGiven + 1
<1>. DEFINE S == {u \in Tasks : object[u] # "unmade"}
<1>1. {u \in Tasks : object'[u] # "unmade"} = S \cup {t} /\ t \notin S
  OBVIOUS
<1>2. IsFiniteSet(S)
  BY FS_Subset
<1>3. Cardinality(S \cup {t}) = Cardinality(S) + 1
  BY <1>1, <1>2, FS_AddElement
<1>4. QED
  BY <1>1, <1>3 DEF TasksGiven

LEMMA SameGiven ==
    ASSUME \A u \in Tasks : object'[u] = "unmade" <=> object[u] = "unmade"
    PROVE  TasksGiven' = TasksGiven
BY DEF TasksGiven

LEMMA NoneGiven ==
    ASSUME PlaceInv, object[Gen] = "unmade"
    PROVE  TasksGiven = 0
<1>1. {t \in Tasks : object[t] # "unmade"} = {}
  BY DEF PlaceInv
<1>2. QED
  BY <1>1, FS_EmptySet DEF TasksGiven

-----------------------------------------------------------------------------
(* PlotInv reads of the tasks how many were made, of the gen its state.    *)
LEMMA SamePlotInv ==
    ASSUME PlotInv, object'[Gen] = object[Gen], TasksGiven' = TasksGiven,
           UNCHANGED <<membs, plot, gens, members, cur_member_index, cur_task_nr, misused>>
    PROVE  PlotInv'
<1>1. P!GenIds' = P!GenIds
  BY DEF P!GenIds, P!Count
<1>2. CASE Undefined
  BY <1>1, <1>2 DEF PlotInv, Undefined
<1>3. CASE misused = {} /\ \E n \in 0 .. Len(membs) : Making(n)
  <2>1. PICK n \in 0 .. Len(membs) : Making(n)
    BY <1>3
  <2>2. Making(n)'
    BY <1>1, <2>1 DEF Making
  <2>3. QED
    BY <1>1, <1>3, <2>2 DEF PlotInv
<1>4. CASE misused = {} /\ (Giving \/ Given \/ Over)
  BY <1>1, <1>4 DEF PlotInv, Giving, Given, Over, AllFirst
<1>5. QED
  BY <1>2, <1>3, <1>4 DEF PlotInv

LEMMA InitPlotsInv == PlotsInit => PlotsInv
<1>. SUFFICES ASSUME PlotsInit PROVE PlotInv
  BY InitGensInv DEF PlotsInit, PlotsInv
<1>1. membs \in Membs /\ plot = "unmade" /\ misused = {}
      /\ gens = [g \in P!GenIds |-> "unmade"]
  BY DEF PlotsInit, P!Init
<1>2. P!GenIds = 1 .. Len(membs) /\ Len(membs) \in Nat \ {0} /\ 1 \in P!GenIds
  BY <1>1, FirstMember DEF P!GenIds, P!Count
<1>3. object[Gen] = "unmade" /\ PlaceInv
  BY InitGensInv DEF PlotsInit, Init, Objects, GensInv
<1>4. TasksGiven = 0
  BY <1>3, NoneGiven
<1>5. Making(0)
  BY <1>1, <1>2, <1>3, <1>4 DEF Making
<1>6. QED
  BY <1>1, <1>2, <1>5 DEF PlotInv

(* A gen is made, or its making fails and all are destroyed again.         *)
LEMMA CreateGenKeeps == Running /\ CreateGen => PlotsInv'
<1>. SUFFICES ASSUME Running, CreateGen PROVE PlotsInv'
  OBVIOUS
<1>1. /\ GensInv /\ P!CreateGen /\ misused = {} /\ membs \in Membs
      /\ DOMAIN gens = P!GenIds /\ P!Count = Len(membs) /\ P!GenIds = 1 .. Len(membs)
      /\ Len(membs) \in Nat \ {0} /\ 1 \in P!GenIds
  BY RunningFacts DEF CreateGen, Running
<1>2. PICK n \in 0 .. Len(membs) : Making(n)
  BY RunningFacts DEF CreateGen, P!CreateGen, Giving, Given, Over
<1>3. P!NextGen = n + 1 /\ n + 1 <= Len(membs) /\ n + 1 \in 0 .. Len(membs)
  BY <1>1, <1>2, NextGenMaking DEF P!CreateGen
<1>4. /\ gens' = [gens EXCEPT ![n + 1] = "alive"]
      /\ plot' = IF n + 1 = Len(membs) THEN "copying" ELSE "making"
      /\ membs' = membs /\ misused' = misused /\ P!GenIds' = P!GenIds
  BY <1>1, <1>3 DEF P!CreateGen, P!GenIds, P!Count
<1>5. gens' = [g \in P!GenIds |-> IF g <= n + 1 THEN "alive" ELSE "unmade"]
  <2>1. \A g \in P!GenIds : g <= n + 1 <=> g = n + 1 \/ g <= n
    BY <1>1
  <2>2. n + 1 \in DOMAIN gens
    BY <1>1, <1>3
  <2>3. gens = [g \in P!GenIds |-> IF g <= n THEN "alive" ELSE "unmade"]
    BY <1>2 DEF Making
  <2>4. gens' = [g \in P!GenIds |-> IF g = n + 1 THEN "alive" ELSE gens[g]]
    BY <1>1, <1>4, <2>2
  <2>5. QED
    BY <2>1, <2>3, <2>4
<1>6. GensInv' /\ object'[Gen] = "alive" /\ TasksGiven' = 0
  <2>1. CASE n = 0
    <3>1. GenCreate
      BY <1>3, <2>1 DEF CreateGen
    <3>2. object'[Gen] = "alive" /\ \A u \in Tasks : object'[u] = object[u]
      BY <1>1, <3>1 DEF GenCreate, GensInv, TypeOK, Objects
    <3>3. QED
      BY <1>1, <1>2, <3>1, <3>2, GenCreateKeeps, SameGiven DEF Making
  <2>2. CASE n # 0
    <3>1. UNCHANGED vars
      BY <1>3, <2>2 DEF CreateGen
    <3>2. GensInv' /\ object' = object
      BY <1>1, <3>1, NextGensInv DEF vars
    <3>3. gens[1] = "alive"
      BY <1>1, <1>2, <2>2 DEF Making
    <3>4. QED
      BY <1>2, <3>2, <3>3, SameGiven DEF Making
  <2>3. QED
    BY <2>1, <2>2
<1>7. Making(n + 1)'
  <2>1. gens'[1] = "alive" /\ (plot' = "copying" <=> n + 1 = Len(membs'))
        /\ plot' \in {"unmade", "making", "copying"}
    BY <1>1, <1>3, <1>4, <1>5
  <2>2. QED
    BY <1>4, <1>5, <1>6, <2>1 DEF Making
<1>8. QED
  BY <1>1, <1>3, <1>4, <1>5, <1>6, <1>7 DEF PlotsInv, PlotInv

LEMMA CreateFailsKeeps == Running /\ CreateFails => PlotsInv'
<1>. SUFFICES ASSUME Running, CreateFails PROVE PlotsInv'
  OBVIOUS
<1>1. /\ GensInv /\ P!CreateFails /\ misused = {} /\ membs \in Membs
      /\ P!Count = Len(membs) /\ P!GenIds = 1 .. Len(membs)
      /\ Len(membs) \in Nat \ {0} /\ 1 \in P!GenIds
  BY RunningFacts DEF CreateFails, Running
<1>2. PICK n \in 0 .. Len(membs) : Making(n)
  BY RunningFacts DEF CreateFails, P!CreateFails, Giving, Given, Over
<1>3. P!NextGen - 1 = n /\ n \in Nat
  BY <1>1, <1>2, NextGenMaking
<1>4. PICK s : P!Destroyed(s) /\ s = [g \in 1 .. n |-> g]
  <2>1. PICK s : P!Destroyed(s) /\ s = [g \in 1 .. P!NextGen - 1 |-> g]
    BY <1>1, Zenon DEF P!CreateFails
  <2>2. QED
    BY <1>3, <2>1
<1>5. plot' = "failed" /\ membs' = membs /\ P!GenIds' = P!GenIds
  BY <1>1 DEF P!CreateFails, P!GenIds, P!Count
<1>6. /\ gens' = [g \in P!GenIds |-> IF g \in 1 .. n THEN "destroyed" ELSE gens[g]]
      /\ misused' = misused
  <2>1. \A g \in 1 .. n : gens[g] = "alive"
    BY <1>1, <1>2 DEF Making
  <2>2. QED
    BY <1>3, <1>4, <2>1, DestroyedEach
<1>7. \A g \in P!GenIds : gens'[g] = IF g <= n THEN "destroyed" ELSE "unmade"
  BY <1>1, <1>2, <1>6 DEF Making
<1>8. GensInv' /\ object'[Gen] = gens'[1]
  <2>1. object[Gen] = IF n = 0 THEN "unmade" ELSE "alive"
    BY <1>1, <1>2, <1>3 DEF Making
  <2>2. CASE n = 0
    <3>1. UNCHANGED vars
      BY <2>1, <2>2 DEF CreateFails
    <3>2. GensInv' /\ object' = object
      BY <1>1, <3>1, NextGensInv DEF vars
    <3>3. QED
      BY <1>1, <1>7, <2>1, <2>2, <3>2
  <2>3. CASE n # 0
    <3>1. GenDestroy
      BY <2>1, <2>3 DEF CreateFails
    <3>2. GensInv' /\ object'[Gen] = "destroyed"
      BY <1>1, <3>1, DestroyKeeps DEF GenDestroy, Destroy, GensInv, TypeOK, Objects
    <3>3. QED
      BY <1>1, <1>3, <1>7, <2>3, <3>2
  <2>4. QED
    BY <2>2, <2>3
<1>9. Over'
  BY <1>1, <1>5, <1>7, <1>8 DEF Over
<1>10. QED
  BY <1>1, <1>5, <1>6, <1>8, <1>9 DEF PlotsInv, PlotInv

LEMMA LinearPlotCreateKeeps == Running /\ LinearPlotCreate => PlotsInv'
<1>. SUFFICES ASSUME Running, LinearPlotCreate PROVE PlotsInv'
  OBVIOUS
<1>1. /\ GensInv /\ P!LinearPlotCreate /\ UNCHANGED vars /\ misused = {}
      /\ membs \in Membs /\ DOMAIN gens = P!GenIds
      /\ P!GenIds = 1 .. Len(membs) /\ Len(membs) \in Nat \ {0} /\ 1 \in P!GenIds
      /\ membs[1].task_count \in Nat \ {0}
  BY RunningFacts DEF LinearPlotCreate, Running
<1>2. GensInv' /\ object' = object
  BY <1>1, NextGensInv DEF vars
<1>3. TasksGiven' = TasksGiven
  BY <1>2, SameGiven
<1>4. PICK n \in 0 .. Len(membs) : Making(n)
  BY RunningFacts DEF LinearPlotCreate, P!LinearPlotCreate, Giving, Given, Over
<1>5. n = Len(membs)
  BY <1>1, <1>4 DEF Making, P!LinearPlotCreate
<1>6. gens[1] = "alive" /\ object[Gen] = "alive" /\ TasksGiven = 0
  BY <1>1, <1>4, <1>5 DEF Making
<1>7. P!GenIds' = P!GenIds
  BY <1>1 DEF P!LinearPlotCreate, P!GenIds, P!Count
<1>8. Giving'
  BY <1>1, <1>2, <1>3, <1>6, <1>7 DEF Giving, AllFirst, P!LinearPlotCreate
<1>9. QED
  BY <1>1, <1>2, <1>7, <1>8 DEF PlotsInv, PlotInv, P!LinearPlotCreate

-----------------------------------------------------------------------------
(* A living plot: which gen and member are current, and what it counts on. *)
LEMMA LivePlot ==
    ASSUME Running, P!HasTask
    PROVE  /\ Giving \/ (Given /\ Len(membs) > 1)
           /\ P!cur_gen = 1 /\ P!cur_member = membs[1]
<1>1. /\ plot = "alive" /\ cur_member_index < Len(membs)
      /\ P!GenIds = 1 .. Len(membs) /\ Len(membs) \in Nat \ {0}
      /\ Giving \/ Given
  BY RunningFacts DEF P!HasTask, Making, Over
<1>2. /\ members = [k \in 1 .. Len(membs) |-> 1]
      /\ cur_member_index \in {0, 1} /\ cur_member_index + 1 \in 1 .. Len(membs)
  BY <1>1 DEF Giving, Given, AllFirst
<1>3. P!cur_gen = 1
  BY <1>2 DEF P!cur_gen
<1>4. QED
  BY <1>1, <1>2, <1>3 DEF P!cur_member, Given

(* A task is handed out: the last one, or one before.                      *)
LEMMA GetTaskKeeps == ASSUME NEW t \in Tasks, Running, GetTask(t) PROVE PlotsInv'
<1>1. /\ GensInv /\ P!GetTask /\ P!HasTask /\ Generate(t) /\ misused' = {}
      /\ membs \in Membs /\ DOMAIN gens = P!GenIds
      /\ membs[1].task_count \in Nat \ {0}
  BY RunningFacts DEF GetTask, P!GetTask
<1>2. GensInv'
  BY <1>1, GenerateKeeps
<1>3. object' = [object EXCEPT ![t] = "alive"] /\ object[t] = "unmade" /\ object[Gen] = "alive"
      /\ object \in [Objects -> {"unmade", "alive", "destroyed"}]
  BY <1>1 DEF Generate, GensInv, TypeOK
<1>4. TasksGiven' = TasksGiven + 1 /\ object'[Gen] = object[Gen]
  <2>1. t \in Objects /\ t # Gen /\ Gen \in Objects /\ Tasks \subseteq Objects
    BY DEF Objects
  <2>2. QED
    BY <1>3, <2>1, OneMoreGiven
<1>5. Giving /\ P!cur_member = membs[1]
  BY <1>1, <1>3, LivePlot DEF Given
<1>6. cur_task_nr \in Nat
  BY <1>5, GivenNat DEF Giving
<1>7. /\ cur_task_nr + 1 # membs[1].task_count /\ cur_task_nr' = cur_task_nr + 1
      /\ UNCHANGED <<membs, plot, gens, members, cur_member_index>>
  BY <1>1, <1>5 DEF P!GetTask
<1>8. P!GenIds' = P!GenIds
  BY <1>7 DEF P!GenIds, P!Count
<1>9. Giving'
  BY <1>1, <1>4, <1>5, <1>6, <1>7, <1>8 DEF Giving, AllFirst
<1>10. QED
  BY <1>1, <1>2, <1>7, <1>8, <1>9 DEF PlotsInv, PlotInv

LEMMA GetLastTaskKeeps == ASSUME NEW t \in Tasks, Running, GetLastTask(t) PROVE PlotsInv'
<1>1. /\ GensInv /\ P!GetLastTask /\ P!HasTask /\ GenerateLast(t) /\ misused' = {}
      /\ membs \in Membs /\ DOMAIN gens = P!GenIds /\ 1 \in P!GenIds
  BY RunningFacts DEF GetLastTask, P!GetLastTask
<1>2. GensInv'
  BY <1>1, GenerateLastKeeps
<1>3. object' = [object EXCEPT ![t] = "alive", ![Gen] = "destroyed"]
      /\ object[t] = "unmade" /\ object[Gen] = "alive"
      /\ object \in [Objects -> {"unmade", "alive", "destroyed"}]
  BY <1>1 DEF GenerateLast, GensInv, TypeOK
<1>4. TasksGiven' = TasksGiven + 1 /\ object'[Gen] = "destroyed"
  <2>1. t \in Objects /\ t # Gen /\ Gen \in Objects /\ Tasks \subseteq Objects
        /\ Gen \notin Tasks
    BY DEF Objects
  <2>2. QED
    BY <1>3, <2>1, OneMoreGiven
<1>5. Giving /\ P!cur_gen = 1 /\ P!cur_member = membs[1]
  BY <1>1, <1>3, LivePlot DEF Given
<1>6. /\ cur_task_nr + 1 = membs[1].task_count
      /\ gens' = [gens EXCEPT ![1] = "destroyed"]
      /\ cur_member_index' = 1
      /\ UNCHANGED <<membs, plot, members>>
  BY <1>1, <1>5 DEF P!GetLastTask, Giving
<1>7. P!GenIds' = P!GenIds
  BY <1>6 DEF P!GenIds, P!Count
<1>8. Given'
  BY <1>1, <1>4, <1>5, <1>6, <1>7 DEF Giving, Given, AllFirst
<1>9. QED
  BY <1>1, <1>2, <1>6, <1>7, <1>8 DEF PlotsInv, PlotInv

(* gen_generate fails, of a gen that is alive.                             *)
LEMMA GetTaskFailsKeeps == Running /\ GetTaskFails => PlotsInv'
<1>. SUFFICES ASSUME Running, GetTaskFails PROVE PlotsInv'
  OBVIOUS
<1>1. GensInv /\ PlotInv /\ P!GetTaskFails /\ UNCHANGED vars /\ misused = {} /\ misused' = {}
  BY DEF Running, PlotsInv, GetTaskFails
<1>2. GensInv' /\ object' = object
  BY <1>1, NextGensInv DEF vars
<1>3. TasksGiven' = TasksGiven
  BY <1>2, SameGiven
<1>4. UNCHANGED <<membs, plot, gens, members, cur_member_index, cur_task_nr, misused>>
  BY <1>1 DEF P!GetTaskFails
<1>5. QED
  BY <1>1, <1>2, <1>3, <1>4, SamePlotInv DEF PlotsInv

-----------------------------------------------------------------------------
(* plot_destroy destroys the first gen once for each member that is left.  *)
LEMMA PlotDestroyed ==
    ASSUME Running, P!PlotDestroy
    PROVE  /\ Giving \/ Given
           /\ plot' = "destroyed" /\ membs' = membs /\ P!GenIds' = P!GenIds
           /\ gens' = [g \in P!GenIds |->
                  IF g = 1 /\ cur_member_index < Len(membs) THEN "destroyed" ELSE gens[g]]
           /\ misused' = {} <=> Len(membs) = 1
<1>1. /\ membs \in Membs /\ misused = {} /\ P!Count = Len(membs)
      /\ P!GenIds = 1 .. Len(membs) /\ Len(membs) \in Nat \ {0} /\ 1 \in P!GenIds
  BY RunningFacts DEF Running
<1>2. plot = "alive" /\ plot' = "destroyed" /\ membs' = membs /\ P!GenIds' = P!GenIds
  BY DEF P!PlotDestroy, P!GenIds, P!Count
<1>3. Giving \/ Given
  BY <1>2, RunningFacts DEF Making, Over
<1>4. cur_member_index \in {0, 1} /\ members = [k \in 1 .. Len(membs) |-> 1]
  BY <1>1, <1>3 DEF Giving, Given, AllFirst
<1>. DEFINE n == Len(membs) - cur_member_index
<1>5. n \in Nat /\ (n > 0 <=> cur_member_index < Len(membs))
  BY <1>1, <1>4
<1>6. [k \in 1 .. P!Count - cur_member_index |-> members[cur_member_index + k]]
         = [k \in 1 .. n |-> 1]
  BY <1>1, <1>4
<1>7. PICK s : P!Destroyed(s) /\ s = [k \in 1 .. n |-> 1]
  <2>1. PICK s : /\ P!Destroyed(s)
                 /\ s = [k \in 1 .. P!Count - cur_member_index |-> members[cur_member_index + k]]
    BY Zenon DEF P!PlotDestroy
  <2>2. QED
    BY <1>6, <2>1, Zenon
<1>8. /\ gens' = [g \in P!GenIds |-> IF g = 1 /\ n > 0 THEN "destroyed" ELSE gens[g]]
      /\ misused' = {} <=> n <= (IF gens[1] = "alive" THEN 1 ELSE 0)
  <2>. HIDE DEF n
  <2>1. QED
    BY <1>1, <1>5, <1>7, DestroyedFirst
<1>9. misused' = {} <=> Len(membs) = 1
  BY <1>1, <1>3, <1>8 DEF Giving, Given
<1>10. QED
  BY <1>2, <1>3, <1>5, <1>8, <1>9

(* The gen goes with the plot unless it went with its last task.           *)
LEMMA PlotDestroyKeeps == Running /\ PlotDestroy => PlotsInv'
<1>. SUFFICES ASSUME Running, PlotDestroy PROVE PlotsInv'
  OBVIOUS
<1>1. /\ GensInv /\ membs \in Membs /\ P!Count = Len(membs)
      /\ P!GenIds = 1 .. Len(membs) /\ 1 \in P!GenIds
  BY RunningFacts
<1>2. /\ plot = "alive" /\ misused' = {} /\ Len(membs) = 1
      /\ Giving \/ Given
      /\ plot' = "destroyed" /\ membs' = membs /\ P!GenIds' = P!GenIds
      /\ gens' = [g \in P!GenIds |->
             IF g = 1 /\ cur_member_index < Len(membs) THEN "destroyed" ELSE gens[g]]
  BY PlotDestroyed DEF PlotDestroy, P!PlotDestroy
<1>3. P!GenIds = {1}
  BY <1>1, <1>2
<1>4. gens'[1] = "destroyed"
  BY <1>2, <1>3 DEF Giving, Given
<1>5. GensInv' /\ object'[Gen] = "destroyed"
  <2>1. CASE Giving
    <3>1. GenDestroy
      BY <1>1, <1>2, <2>1 DEF Giving, PlotDestroy, P!HasTask
    <3>2. QED
      BY <1>1, <3>1, DestroyKeeps DEF GenDestroy, Destroy, GensInv, TypeOK, Objects
  <2>2. CASE Given
    <3>1. UNCHANGED vars
      BY <1>1, <1>2, <2>2 DEF Given, PlotDestroy, P!HasTask
    <3>2. QED
      BY <1>1, <2>2, <3>1, NextGensInv DEF vars, Given
  <2>3. QED
    BY <1>2, <2>1, <2>2
<1>6. Over'
  BY <1>2, <1>3, <1>4, <1>5 DEF Over
<1>7. QED
  BY <1>1, <1>2, <1>5, <1>6 DEF PlotsInv, PlotInv

(* Only a plot of several members uses a gen that is not alive.            *)
LEMMA MisuseKeeps == Running /\ Misuse => PlotsInv'
<1>. SUFFICES ASSUME Running, Misuse PROVE PlotsInv'
  OBVIOUS
<1>1. /\ GensInv /\ membs \in Membs /\ DOMAIN gens = P!GenIds /\ misused = {}
      /\ P!GenIds = 1 .. Len(membs) /\ Len(membs) \in Nat \ {0} /\ 1 \in P!GenIds
      /\ misused' # {} /\ UNCHANGED vars
  BY RunningFacts DEF Misuse, Running
<1>2. GensInv' /\ object' = object /\ TasksGiven' = TasksGiven
  BY <1>1, NextGensInv, SameGiven DEF vars
<1>3. CASE P!PlotDestroy
  <2>1. /\ Len(membs) > 1 /\ (Giving \/ Given)
        /\ plot' = "destroyed" /\ membs' = membs /\ P!GenIds' = P!GenIds
        /\ gens' = [g \in P!GenIds |->
               IF g = 1 /\ cur_member_index < Len(membs) THEN "destroyed" ELSE gens[g]]
    <3>1. Len(membs) # 1
      BY <1>1, <1>3, PlotDestroyed, Zenon
    <3>2. Len(membs) > 1
      BY <1>1, <3>1, Several, Zenon
    <3>3. QED
      BY <1>3, <3>2, PlotDestroyed, Zenon
  <2>2. gens'[1] = "destroyed"
    BY <1>1, <2>1 DEF Giving, Given
  <2>3. Undefined'
    BY <1>1, <2>1, <2>2 DEF Undefined
  <2>4. QED
    BY <1>1, <1>2, <2>1, <2>3 DEF PlotsInv, PlotInv
<1>4. CASE P!GetTask \/ P!GetLastTask \/ P!GetTaskFails
  <2>1. P!HasTask /\ misused' = misused \cup P!Used(P!cur_gen)
        /\ plot' = plot /\ membs' = membs
    BY <1>4 DEF P!GetTask, P!GetLastTask, P!GetTaskFails
  <2>2. P!cur_gen = 1 /\ gens[1] # "alive"
    BY <1>1, <2>1, LivePlot DEF P!Used
  <2>3. Given /\ Len(membs) > 1
    BY <2>1, <2>2, LivePlot DEF Giving
  <2>4. P!GenIds' = P!GenIds
    BY <2>1 DEF P!GenIds, P!Count
  <2>5. DOMAIN gens' = P!GenIds /\ gens'[1] = "destroyed"
    BY <1>1, <1>4, <2>2, <2>3 DEF P!GetTask, P!GetLastTask, P!GetTaskFails, Given
  <2>6. Undefined'
    BY <1>1, <1>2, <2>1, <2>3, <2>5 DEF Undefined, Given
  <2>7. QED
    BY <1>1, <1>2, <2>1, <2>4, <2>5, <2>6 DEF PlotsInv, PlotInv
<1>5. QED
  BY <1>3, <1>4 DEF Misuse

(* The client's steps touch neither the gen nor which tasks were made.     *)
LEMMA ClientStepKeeps == Running /\ ClientStep => PlotsInv'
<1>. SUFFICES ASSUME Running, ClientStep PROVE PlotsInv'
  OBVIOUS
<1>1. GensInv /\ PlotInv /\ UNCHANGED plotVars
  BY DEF Running, PlotsInv, ClientStep
<1>2. GensInv'
  <2>1. ASSUME NEW t \in Tasks, AskFailsUnwritten(t) PROVE GensInv'
    BY <1>1, <2>1 DEF AskFailsUnwritten, GensInv, TypeOK, PlaceInv, HasText, TextOf,
       TextOutlivesHolders, NoTextLeaks, CounterCountsHolders, Holders, Holds
  <2>2. QED
    BY <1>1, <2>1, AskAgainKeeps, AskFirstKeeps, AskFailsCachedKeeps, DestroyKeeps DEF ClientStep
<1>3. object'[Gen] = object[Gen]
      /\ \A u \in Tasks : object'[u] = "unmade" <=> object[u] = "unmade"
  <2>1. /\ object \in [Objects -> {"unmade", "alive", "destroyed"}]
        /\ Tasks \subseteq Objects /\ Gen \in Objects /\ Gen \notin Tasks
        /\ Questions \subseteq Objects /\ Gen \notin Questions
        /\ Tasks \cap Questions = {}
    BY <1>1 DEF GensInv, TypeOK, Objects
  <2>2. ASSUME NEW t \in Tasks, NEW q \in Questions, AskAgain(q, t) \/ AskFirst(q, t)
        PROVE  object' = [object EXCEPT ![q] = "alive"]
    BY <2>2 DEF AskAgain, AskFirst
  <2>3. ASSUME NEW t \in Tasks, AskFailsCached(t) \/ AskFailsUnwritten(t)
        PROVE  object' = object
    BY <2>3 DEF AskFailsCached, AskFailsUnwritten
  <2>4. ASSUME NEW t \in Tasks, TaskDestroy(t)
        PROVE  object' = [object EXCEPT ![t] = "destroyed"] /\ object[t] = "alive"
    BY <2>4 DEF TaskDestroy, Destroy
  <2>5. ASSUME NEW q \in Questions, QuestionDestroy(q)
        PROVE  object' = [object EXCEPT ![q] = "destroyed"]
    BY <2>5 DEF QuestionDestroy, Destroy
  <2>6. QED
    BY <2>1, <2>2, <2>3, <2>4, <2>5 DEF ClientStep
<1>4. TasksGiven' = TasksGiven
  BY <1>3, SameGiven
<1>5. PlotInv'
  BY <1>1, <1>3, <1>4, SamePlotInv DEF plotVars
<1>6. QED
  BY <1>2, <1>5 DEF PlotsInv

LEMMA NextPlotsInv == PlotsInv /\ [PlotsNext]_allVars => PlotsInv'
<1>. SUFFICES ASSUME PlotsInv, [PlotsNext]_allVars PROVE PlotsInv'
  OBVIOUS
<1>1. CASE UNCHANGED allVars
  <2>1. GensInv' /\ object' = object /\ UNCHANGED plotVars
    BY <1>1, NextGensInv DEF PlotsInv, allVars, vars
  <2>2. TasksGiven' = TasksGiven
    BY <2>1, SameGiven
  <2>3. PlotInv'
    BY <2>1, <2>2, SamePlotInv DEF PlotsInv, plotVars
  <2>4. QED
    BY <2>1, <2>3 DEF PlotsInv
<1>2. CASE PlotsNext
  <2>1. Running
    BY <1>2 DEF PlotsNext, Running
  <2>2. QED
    BY <1>2, <2>1, CreateGenKeeps, CreateFailsKeeps, LinearPlotCreateKeeps, GetTaskKeeps,
       GetLastTaskKeeps, GetTaskFailsKeeps, PlotDestroyKeeps, MisuseKeeps, ClientStepKeeps
       DEF PlotsNext
<1>3. QED
  BY <1>1, <1>2

-----------------------------------------------------------------------------
(* A plot uses a gen only while it lives and destroys it once, however the *)
(* calls of create, get_task, their failures and destroy follow each       *)
(* other: always if it has one member, and up to the last task of the      *)
(* first member, or plot_destroy, if it has several                        *)
(* (linear_plot_template.c:13-63).                                         *)
THEOREM PlotUsesGenAlive == PlotsSpec => []GensUsedAlive
<1>1. PlotsInv => GensUsedAlive
  BY DEF PlotsInv, PlotInv, GensUsedAlive, Undefined
<1>2. QED
  BY <1>1, InitPlotsInv, NextPlotsInv, PTL DEF PlotsSpec

(* Of a plot that fails to be made, or has one member, no gen is left; the *)
(* first gen is gone when any plot is, and until a dead gen is used it is  *)
(* gone exactly when all task_count tasks were made                        *)
(* (troll_eq_plot.c:45-52; linear_plot_template.c:15-63).                  *)
THEOREM PlotLeaksNoGen == PlotsSpec => []NoGenLeaks
<1>1. ASSUME PlotsInv PROVE NoGenLeaks
  <2>1. CASE Undefined
    <3>1. Len(membs) # 1
      <4>1. Len(membs) \in Nat \ {0}
        BY <1>1, FirstMember DEF PlotsInv, PlotInv
      <4>2. QED
        BY <2>1, <4>1, Several, Zenon DEF Undefined
    <3>2. misused # {} /\ plot # "failed" /\ Len(membs) # 1 /\ gens[1] # "alive"
      BY <2>1, <3>1 DEF Undefined
    <3>3. QED
      BY <3>2, Zenon DEF NoGenLeaks
  <2>2. CASE misused = {}
    <3>1. Running
      BY <1>1, <2>2 DEF Running
    <3>2. /\ (\E n \in 0 .. Len(membs) : Making(n)) \/ Giving \/ Given \/ Over
          /\ membs[1].task_count \in Nat \ {0} /\ TasksGiven \in Nat
      BY <3>1, RunningFacts, GivenNat
    <3>3. CASE \E n \in 0 .. Len(membs) : Making(n)
      BY <3>3 DEF Making, NoGenLeaks, P!NoGenLeaks
    <3>4. CASE Giving \/ Given
      BY <3>2, <3>4 DEF Giving, Given, NoGenLeaks, P!NoGenLeaks
    <3>5. CASE Over
      BY <3>5 DEF Over, NoGenLeaks, P!NoGenLeaks
    <3>6. QED
      BY <3>2, <3>3, <3>4, <3>5
  <2>3. QED
    BY <1>1, <2>1, <2>2 DEF PlotsInv, PlotInv
<1>2. QED
  BY <1>1, InitPlotsInv, NextPlotsInv, PTL DEF PlotsSpec

(* The texts stay with their holders and go with the last of them, also    *)
(* when the plot, of any number of members, decides when the gen goes      *)
(* (rcmem.c:29-49); the first use of a dead gen ends what is said.         *)
THEOREM PlotTextsExact ==
    PlotsSpec => [](TextOutlivesHolders /\ NoTextLeaks /\ CounterCountsHolders)
<1>1. PlotsInv => TextOutlivesHolders /\ NoTextLeaks /\ CounterCountsHolders
  BY DEF PlotsInv, GensInv
<1>2. QED
  BY <1>1, InitPlotsInv, NextPlotsInv, PTL DEF PlotsSpec
=============================================================================
