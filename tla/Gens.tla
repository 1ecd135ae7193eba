-------------------------------- MODULE Gens --------------------------------
(***************************************************************************)
(* A gen, its tasks and their questions (src/gens), and the reference      *)
(* counted text they share (src/rcmem/rcmem.c).                            *)
(*                                                                         *)
(* An echo gen makes one text; the gen, every task and every question hold *)
(* a reference to it.  An eq or shellcode task makes a text of its own for *)
(* its first question and caches it.  Gen, tasks and questions are         *)
(* destroyed by their owners in any order: linear_plot destroys a gen when *)
(* it hands out the last task, and the server keeps a question whose task  *)
(* is gone.                                                                *)
(***************************************************************************)
EXTENDS Naturals, FiniteSets

CONSTANTS
    Tasks,       \* task objects
    Questions,   \* question objects
    Gen,         \* the gen object
    None,        \* no task
    GenKinds,    \* the kinds of gen considered
    WordSize,    \* an unsigned counter holds 0 .. WordSize - 1
    MayFail      \* whether malloc may fail

ASSUME ObjectsDistinct ==
    /\ Tasks \cap Questions = {}
    /\ Gen \notin Tasks \cup Questions
    /\ None \notin Tasks
    /\ IsFiniteSet(Tasks) /\ IsFiniteSet(Questions)
    /\ GenKinds \subseteq {"echo", "eq", "shellcode"}
    /\ MayFail \in BOOLEAN
    /\ WordSize \in Nat
    /\ Cardinality(Tasks \cup Questions \cup {Gen}) < WordSize

(* A text is named after the object that makes it.                         *)
Texts == Tasks \cup {Gen}
Objects == Tasks \cup Questions \cup {Gen}

VARIABLES
    kind,      \* which gen it is
    object,    \* "unmade", "alive" or "destroyed", per object
    task_of,   \* the task a question was asked of
    text,      \* "none", "allocated" or "freed", per text
    counter,   \* rcmem_hdr.counter, per text
    cached,    \* text_cached, per task
    crashed    \* the null pointer was written to

vars == <<kind, object, task_of, text, counter, cached, crashed>>

TextOf(t) == IF kind = "echo" THEN Gen ELSE t

Init ==
    /\ kind \in GenKinds
    /\ object = [o \in Objects |-> "unmade"]
    /\ task_of = [q \in Questions |-> None]
    /\ text = [x \in Texts |-> "none"]
    /\ counter = [x \in Texts |-> 0]
    /\ cached = [t \in Tasks |-> FALSE]
    /\ crashed = FALSE

-----------------------------------------------------------------------------
(* rcmem_take and rcmem_put *)

Take(x) ==
    /\ counter' = [counter EXCEPT ![x] = (@ + 1) % WordSize]
    /\ UNCHANGED text

(* Mutant: the counter is decremented before it is compared.               *)
PutEarly(x) ==
    IF counter[x] - 1 = 1
    THEN text' = [text EXCEPT ![x] = "freed"] /\ UNCHANGED counter
    ELSE counter' = [counter EXCEPT ![x] = @ - 1] /\ UNCHANGED text

(* The last reference frees the memory and leaves the counter alone.       *)
Put(x) ==
    IF counter[x] = 1
    THEN text' = [text EXCEPT ![x] = "freed"] /\ UNCHANGED counter
    ELSE counter' = [counter EXCEPT ![x] = @ - 1] /\ UNCHANGED text

-----------------------------------------------------------------------------
(* Making objects *)

GenCreate ==
    /\ object[Gen] = "unmade"
    /\ object' = [object EXCEPT ![Gen] = "alive"]
    /\ IF kind = "echo"
       THEN /\ text' = [text EXCEPT ![Gen] = "allocated"]
            /\ counter' = [counter EXCEPT ![Gen] = 1]
       ELSE UNCHANGED <<text, counter>>
    /\ UNCHANGED <<kind, task_of, cached, crashed>>

Generate(t) ==
    /\ object[Gen] = "alive"
    /\ object[t] = "unmade"
    /\ object' = [object EXCEPT ![t] = "alive"]
    /\ IF kind = "echo" THEN Take(Gen) ELSE UNCHANGED <<text, counter>>
    /\ UNCHANGED <<kind, task_of, cached, crashed>>

(* The text exists: the question takes a reference.                        *)
HasText(t) == kind = "echo" \/ cached[t]

AskAgain(q, t) ==
    /\ object[t] = "alive" /\ HasText(t)
    /\ object[q] = "unmade"
    /\ object' = [object EXCEPT ![q] = "alive"]
    /\ task_of' = [task_of EXCEPT ![q] = t]
    /\ Take(TextOf(t))
    /\ UNCHANGED <<kind, cached, crashed>>

(* The text is made and cached, then the question takes a reference.       *)
AskFirst(q, t) ==
    /\ object[t] = "alive" /\ ~HasText(t)
    /\ object[q] = "unmade"
    /\ object' = [object EXCEPT ![q] = "alive"]
    /\ task_of' = [task_of EXCEPT ![q] = t]
    /\ text' = [text EXCEPT ![t] = "allocated"]
    /\ counter' = [counter EXCEPT ![t] = 2]
    /\ cached' = [cached EXCEPT ![t] = TRUE]
    /\ UNCHANGED <<kind, crashed>>

(* The text is made, but malloc of the question fails: it stays cached.    *)
AskFailsCached(t) ==
    /\ MayFail
    /\ object[t] = "alive" /\ ~HasText(t)
    /\ text' = [text EXCEPT ![t] = "allocated"]
    /\ counter' = [counter EXCEPT ![t] = 1]
    /\ cached' = [cached EXCEPT ![t] = TRUE]
    /\ UNCHANGED <<kind, object, task_of, crashed>>

(* rcmem_alloc fails: eq_get_question writes the final zero before it      *)
(* looks at the pointer, python_shellcode_get_question just gives up.      *)
AskFailsUnwritten(t) ==
    /\ MayFail
    /\ kind = "eq"
    /\ object[t] = "alive" /\ ~HasText(t)
    /\ crashed' = TRUE
    /\ UNCHANGED <<kind, object, task_of, text, counter, cached>>

-----------------------------------------------------------------------------
(* Destroying objects *)

Destroy(o, releases, x) ==
    /\ object[o] = "alive"
    /\ object' = [object EXCEPT ![o] = "destroyed"]
    /\ IF releases THEN Put(x) ELSE UNCHANGED <<text, counter>>
    /\ UNCHANGED <<kind, task_of, cached, crashed>>

GenDestroy == Destroy(Gen, kind = "echo", Gen)

(* Mutant: the cached text is forgotten.                                   *)
TaskDestroyForgets(t) == Destroy(t, kind = "echo", TextOf(t))

TaskDestroy(t) == Destroy(t, HasText(t), TextOf(t))

QuestionDestroy(q) == Destroy(q, TRUE, TextOf(task_of[q]))

Next ==
    /\ ~crashed
    /\ \/ GenCreate
       \/ \E t \in Tasks : Generate(t)
       \/ \E t \in Tasks, q \in Questions : AskAgain(q, t) \/ AskFirst(q, t)
       \/ \E t \in Tasks : AskFailsCached(t) \/ AskFailsUnwritten(t)
       \/ GenDestroy
       \/ \E t \in Tasks : TaskDestroy(t)
       \/ \E q \in Questions : QuestionDestroy(q)

Spec == Init /\ [][Next]_vars

-----------------------------------------------------------------------------
(* Properties *)

(* Who may still follow its pointer to text x.                             *)
Holds(o, x) ==
    /\ object[o] = "alive"
    /\ \/ o = Gen /\ kind = "echo" /\ x = Gen
       \/ o \in Tasks /\ HasText(o) /\ x = TextOf(o)
       \/ o \in Questions /\ x = TextOf(task_of[o])
Holders(x) == {o \in Objects : Holds(o, x)}

(* Types of all variables.                                                 *)
TypeOK ==
    /\ kind \in GenKinds
    /\ object \in [Objects -> {"unmade", "alive", "destroyed"}]
    /\ task_of \in [Questions -> Tasks \cup {None}]
    /\ text \in [Texts -> {"none", "allocated", "freed"}]
    /\ counter \in [Texts -> 0 .. WordSize - 1]
    /\ cached \in [Tasks -> BOOLEAN]
    /\ crashed \in BOOLEAN

(* The text of a living question (or task, or gen) is never freed under    *)
(* it, in whatever order gen, tasks and questions are destroyed            *)
(* (rcmem.c:29-49; server_worker.c borrows the question's text).           *)
TextOutlivesHolders ==
    \A x \in Texts : Holders(x) # {} => text[x] = "allocated"

(* A text without holders is freed: none leaks, also when malloc of a      *)
(* question fails after its text was cached (eq_gen.c:51).                 *)
NoTextLeaks ==
    \A x \in Texts : text[x] = "allocated" => Holders(x) # {}

(* The counter of an allocated text is the number of its holders, so that  *)
(* it cannot overflow while there are fewer objects than unsigned values.  *)
CounterCountsHolders ==
    \A x \in Texts : text[x] = "allocated" => counter[x] = Cardinality(Holders(x))

-----------------------------------------------------------------------------
(* The inductive invariant *)

(* Where a text can exist, and that a living question was asked of a task  *)
(* that had a text.                                                        *)
PlaceInv ==
    /\ \A q \in Questions : object[q] # "unmade" =>
          task_of[q] \in Tasks /\ HasText(task_of[q])
    /\ \A t \in Tasks : cached[t] => kind # "echo"
    /\ \A t \in Tasks : text[t] # "none" <=> cached[t]
    /\ text[Gen] # "none" <=> kind = "echo" /\ object[Gen] # "unmade"
    /\ \A t \in Tasks : object[t] # "unmade" => object[Gen] # "unmade"
    /\ \A t \in Tasks : cached[t] => object[t] # "unmade"
    /\ \A q \in Questions : object[q] # "unmade" => object[Gen] # "unmade"

(* The reference counts are exact at every step; what the proofs carry     *)
(* (rcmem.c:18-49).                                                        *)
GensInv ==
    /\ TypeOK
    /\ PlaceInv
    /\ TextOutlivesHolders
    /\ NoTextLeaks
    /\ CounterCountsHolders
=============================================================================
