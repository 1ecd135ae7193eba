------------------------------- MODULE EqTask -------------------------------
(***************************************************************************)
(* A task of eq_gen (src/gens/eq_gen/eq_gen.c): an equation is generated   *)
(* and printed for the user; eq_check solves it to judge the answer.  The  *)
(* composition of the generator, the text and the solver.                  *)
(***************************************************************************)
EXTENDS EqGenerate, EqSolve, EqPrint

(* Two ways to number the positions of a chain, with numbers of one and of *)
(* two digits and zero; between them they tell the operators and every     *)
(* grouping of the operands apart.                                         *)
Numberings ==
    {[p \in 1 .. chain_len |-> p + 7], [p \in 1 .. chain_len |-> (p * p) % 7]}

-----------------------------------------------------------------------------
(* Properties *)

(* Every chain that eq_generate returns is an expression of the grammar in *)
(* the comment at eq.c:261-274, whatever was drawn: eq_solve meets neither *)
(* its error paths nor its assertions (eq.c:351, 396).                     *)
ChainsWellFormed == state = "done" => Len(elems) = chain_len /\ WellFormed(elems)

(* The text of a question fills its buffer to the final zero and no byte   *)
(* further; whoever reads it with the usual precedence, left to right,     *)
(* finds the value that eq_solve, which succeeds and uses the whole chain, *)
(* compares the answer with (eq.c:280-514, eq_gen.c:31-92).                *)
AnswerOf(text) ==
    LET read == AsRead(text) IN ValueOf(read.elems, read.nr)

SolvedFor(nr) ==
    LET text == eq_print(elems, nr) IN
    /\ eq_calc_str_size(elems, nr) = Len(text) + 1
    /\ Solve(elems, nr) = Outcome("ok", AnswerOf(text), chain_len + 1)

SolvedAsWritten == state = "done" => \A nr \in Numberings : SolvedFor(nr)
=============================================================================
