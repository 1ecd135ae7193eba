----------------------------- MODULE EqGenerate -----------------------------
(***************************************************************************)
(* The generator of equations, eq_generate of src/gens/eq_gen/eq.c.        *)
(*                                                                         *)
(* It emits chain_len elements one by one.  Counters of what is still      *)
(* available and flags of what may follow decide the choice; the author's  *)
(* claim (the assertion in bitmask_choose) is that some choice is always   *)
(* left, and the use made of the result needs it to be well formed.  One   *)
(* step is one iteration of the loop.                                      *)
(***************************************************************************)
EXTENDS Integers, Sequences

CONSTANTS
    MinLen, MaxLen, \* the bounds given to eq_generate
    RandMax,        \* RAND_MAX
    Ops,            \* the operations that the flags allow
    Braces          \* whether the flags allow braces

ASSUME GenAssumption ==
    /\ MinLen \in Int /\ MaxLen \in Int
    /\ RandMax \in Nat \ {0}
    /\ Ops \subseteq {"+", "-", "*"}
    /\ Braces \in BOOLEAN

VARIABLES
    chain_len,
    elems,       \* the chain built so far
    br_l_avail, br_r_avail, op_avail, nr_avail,
    possible,    \* which of br_l_possible, ... nr_possible are true
    state        \* "generating", "done" or "failed" (NULL is returned)

counters == <<br_l_avail, br_r_avail, op_avail, nr_avail>>
vars == <<chain_len, elems, counters, possible, state>>

(* The index of the loop.                                                  *)
placed == Len(elems)

(* rand_eq_len: the lengths it may return; 0 means failure.                *)
OddLen(min, max) ==
    {IF l % 2 = 1 THEN l ELSE IF l # max THEN l - 1 ELSE IF l # min THEN l + 1 ELSE 0
        : l \in min .. max}

RandEqLen ==
    LET min == IF MinLen <= 0 THEN 1 ELSE MinLen
        max == IF MaxLen <= 0 THEN RandMax ELSE MaxLen
    IN  IF min > max THEN {0} ELSE OddLen(min, max)

(* Flags that are set when the counters allow.                             *)
Flag(kind, avail) == IF avail > 0 THEN {kind} ELSE {}

(* Without an operation, or with an impossible length, nothing is made.    *)
Init ==
    /\ chain_len \in IF Ops = {} THEN {0} ELSE RandEqLen
    /\ elems = <<>>
    /\ br_l_avail = chain_len \div 2
    /\ br_r_avail = 0
    /\ op_avail = chain_len \div 2
    /\ nr_avail = chain_len \div 2 + 1
    /\ possible = Flag("br_l", br_l_avail) \cup {"nr"}
    /\ state = IF chain_len = 0 THEN "failed" ELSE "generating"

Generating == state = "generating" /\ placed < chain_len

Emit(e) ==
    /\ elems' = Append(elems, e)
    /\ state' = IF placed + 1 = chain_len THEN "done" ELSE "generating"
    /\ UNCHANGED chain_len

(* What may follow an operand, and what may follow an operator or "(".     *)
AfterOperand == possible' = Flag("br_r", br_r_avail') \cup Flag("op", op_avail')
BeforeOperand == possible' = Flag("br_l", br_l_avail') \cup Flag("nr", nr_avail')

EmitOp(o) ==
    /\ Generating
    /\ "op" \in possible
    /\ op_avail' = op_avail - 1
    /\ UNCHANGED <<br_l_avail, br_r_avail, nr_avail>>
    /\ BeforeOperand
    /\ Emit(o)

(* Mutant: no space is reserved for the right brace.                       *)
EmitLeftUnreserved ==
    /\ Generating
    /\ Braces /\ "br_l" \in possible
    /\ br_l_avail' = br_l_avail - 1
    /\ br_r_avail' = br_r_avail + 1
    /\ nr_avail' = nr_avail - 1
    /\ UNCHANGED op_avail
    /\ BeforeOperand
    /\ Emit("(")

EmitLeft ==
    /\ Generating
    /\ Braces /\ "br_l" \in possible
    /\ br_l_avail' = br_l_avail - 1
    /\ br_r_avail' = br_r_avail + 1
    /\ nr_avail' = nr_avail - 1
    /\ op_avail' = op_avail - 1
    /\ BeforeOperand
    /\ Emit("(")

(* Mutant: an operand may follow the right brace.                          *)
EmitRightOpens ==
    /\ Generating
    /\ Braces /\ "br_r" \in possible
    /\ br_r_avail' = br_r_avail - 1
    /\ UNCHANGED <<br_l_avail, op_avail, nr_avail>>
    /\ BeforeOperand
    /\ Emit(")")

EmitRight ==
    /\ Generating
    /\ Braces /\ "br_r" \in possible
    /\ br_r_avail' = br_r_avail - 1
    /\ UNCHANGED <<br_l_avail, op_avail, nr_avail>>
    /\ AfterOperand
    /\ Emit(")")

EmitNumber ==
    /\ Generating
    /\ "nr" \in possible
    /\ nr_avail' = nr_avail - 1
    /\ br_l_avail' = br_l_avail - 1
    /\ UNCHANGED <<br_r_avail, op_avail>>
    /\ AfterOperand
    /\ Emit("nr")

(* malloc fails: the chain is freed.                                       *)
EmitFails ==
    /\ Generating
    /\ state' = "failed"
    /\ elems' = <<>>
    /\ UNCHANGED <<chain_len, counters, possible>>

Next ==
    \/ \E o \in Ops : EmitOp(o)
    \/ EmitLeft
    \/ EmitRight
    \/ EmitNumber
    \/ EmitFails

Spec == Init /\ [][Next]_vars

-----------------------------------------------------------------------------
(* Properties *)

Kinds == {"br_l", "br_r", "op", "nr"}
Elements == {"+", "-", "*", "(", ")", "nr"}

(* Types of all variables; no counter ever goes below zero (the left       *)
(* braces by one, with the last number).                                   *)
TypeOK ==
    /\ chain_len \in Nat
    /\ elems \in Seq(Elements)
    /\ br_l_avail \in Nat \cup {-1}
    /\ br_r_avail \in Nat
    /\ op_avail \in Nat
    /\ nr_avail \in Nat
    /\ possible \subseteq Kinds
    /\ state \in {"generating", "done", "failed"}

(* "flags shouldn't be zero" (eq.c:56): whatever was drawn so far, and     *)
(* whatever the user's flags allow, some element can follow.               *)
FlagsNotZero ==
    Generating => possible \cap
        ({"op", "nr"} \cup IF Braces THEN {"br_l", "br_r"} ELSE {}) # {}

(* A chain that is complete closes every brace, ends with an operand and   *)
(* has used up its operators and numbers (eq.c:173-242).                   *)
CompleteChain ==
    state = "done" =>
        /\ placed = chain_len
        /\ br_r_avail = 0 /\ op_avail = 0 /\ nr_avail = 0
        /\ elems[placed] \in {"nr", ")"}

-----------------------------------------------------------------------------
(* The inductive invariant: the space that is left is exactly what the     *)
(* open braces and the operators still to come need.                       *)

Expecting == elems = <<>> \/ elems[placed] \in {"+", "-", "*", "("}

OperandBudget ==
    /\ op_avail = br_l_avail
    /\ nr_avail = op_avail + 1
    /\ chain_len - placed = br_r_avail + 2 * op_avail + 1
    /\ possible = Flag("br_l", br_l_avail) \cup {"nr"}

OperatorBudget ==
    /\ op_avail = br_l_avail + 1
    /\ nr_avail = op_avail
    /\ chain_len - placed = br_r_avail + 2 * op_avail
    /\ possible = Flag("br_r", br_r_avail) \cup Flag("op", op_avail)

(* The budget of the elements to come is kept by every choice; what the    *)
(* proofs carry (eq.c:173-232).                                            *)
Budget ==
    state # "failed" =>
        /\ placed <= chain_len
        /\ state = "done" <=> placed = chain_len
        /\ ~Braces => br_r_avail = 0
        /\ IF Expecting THEN OperandBudget ELSE OperatorBudget
=============================================================================
