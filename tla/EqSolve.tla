------------------------------ MODULE EqSolve ------------------------------
(***************************************************************************)
(* The solver of equations, eq_solve of src/gens/eq_gen/eq.c: a recursive  *)
(* descent over the chain, and a reference definition of the value of an   *)
(* expression to compare it with.  A parser returns the outcome ("ok",     *)
(* "fail", or "abort" when an assertion fails), a value, and the position  *)
(* in the chain it has reached.  Numbers stand for themselves.             *)
(***************************************************************************)
EXTENDS Integers, Sequences

OpTokens == {"+", "-", "*"}

At(s, p) == IF p <= Len(s) THEN s[p] ELSE "NULL"
IsNumber(x) == x \notin OpTokens \cup {"(", ")", "NULL"}

Outcome(what, val, pos) == [what |-> what, val |-> val, pos |-> pos]
Fail == Outcome("fail", 0, 0)
Abort == Outcome("abort", 0, 0)

(* A call of a rule: where it begins and, to the loop of a rule, the value *)
(* of what is left of it.  The rules call each other: parse[c] is what the *)
(* call c returns.                                                         *)
Rules == {"primary", "term", "term_rest", "expression", "expression_rest"}
Calls == [rule : Rules, val : Int, pos : Nat \ {0}]
From(rule, p) == [rule |-> rule, val |-> 0, pos |-> p]
Behind(rule, val, p) == [rule |-> rule, val |-> val, pos |-> p]

(* eq_get_primary.  nr[p] is the number at position p.                     *)
Primary(s, nr, parse, p) ==
    CASE IsNumber(At(s, p)) -> Outcome("ok", nr[p], p + 1)
      [] At(s, p) = "(" ->
           LET e == parse[From("expression", p + 1)] IN
           IF e.what # "ok" THEN e
           ELSE IF At(s, e.pos) = ")" THEN Outcome("ok", e.val, e.pos + 1)
           ELSE Fail
      [] OTHER -> Fail

(* The loop of eq_get_term, and of eq_get_expression.                      *)
TermRest(s, parse, left, p) ==
    CASE At(s, p) = "*" ->
           LET right == parse[From("primary", p + 1)] IN
           IF right.what = "ok"
           THEN parse[Behind("term_rest", left * right.val, right.pos)]
           ELSE right
      [] At(s, p) \in {"+", "-", ")", "NULL"} -> Outcome("ok", left, p)
      [] At(s, p) = "(" -> Abort
      [] OTHER -> Fail

Term(parse, p) ==
    LET left == parse[From("primary", p)] IN
    IF left.what = "ok" THEN parse[Behind("term_rest", left.val, left.pos)] ELSE left

Applied(op, l, r) == IF op = "+" THEN l + r ELSE l - r

(* Mutant: the right operand of + and - is a whole expression.             *)
ExpressionRestFromRight(s, parse, left, p) ==
    IF At(s, p) \in {"+", "-"}
    THEN LET right == parse[From("expression", p + 1)] IN
         IF right.what = "ok"
         THEN Outcome("ok", Applied(At(s, p), left, right.val), right.pos)
         ELSE right
    ELSE Outcome("ok", left, p)

ExpressionRest(s, parse, left, p) ==
    CASE At(s, p) \in {"+", "-"} ->
           LET right == parse[From("term", p + 1)] IN
           IF right.what = "ok"
           THEN parse[Behind("expression_rest", Applied(At(s, p), left, right.val), right.pos)]
           ELSE right
      [] At(s, p) \in {"*", ")", "NULL"} -> Outcome("ok", left, p)
      [] At(s, p) = "(" -> Abort
      [] OTHER -> Fail

Expression(parse, p) ==
    LET left == parse[From("term", p)] IN
    IF left.what = "ok" THEN parse[Behind("expression_rest", left.val, left.pos)] ELSE left

Called(s, nr, parse, c) ==
    CASE c.rule = "primary" -> Primary(s, nr, parse, c.pos)
      [] c.rule = "term" -> Term(parse, c.pos)
      [] c.rule = "term_rest" -> TermRest(s, parse, c.val, c.pos)
      [] c.rule = "expression" -> Expression(parse, c.pos)
      [] c.rule = "expression_rest" -> ExpressionRest(s, parse, c.val, c.pos)

(* eq_solve: the rest of the chain, if any, is not looked at.              *)
Solve(s, nr) ==
    LET parse[c \in Calls] == Called(s, nr, parse, c)
    IN  parse[From("expression", 1)]

-----------------------------------------------------------------------------
(* The reference: split an expression at its last + or - outside braces,   *)
(* else at its last *, else strip braces.                                  *)

(* How many braces are open behind position p.                             *)
Opens(x) == IF x = "(" THEN 1 ELSE IF x = ")" THEN -1 ELSE 0
Depth(s, p) ==
    LET depth[i \in 0 .. Len(s)] == IF i = 0 THEN 0 ELSE depth[i - 1] + Opens(s[i])
    IN  depth[p]

(* Positions a..b: those of the operators in O outside every brace.        *)
Splits(s, a, b, O) ==
    {p \in a + 1 .. b - 1 : s[p] \in O /\ Depth(s, p) = Depth(s, a - 1)}

LastOf(S) == CHOOSE p \in S : \A q \in S : q <= p

(* The value of a part w of a chain, its positions w[1] .. w[2], and that  *)
(* of the whole chain.                                                     *)
Spans(s) == (1 .. Len(s)) \X (1 .. Len(s))

ValueOfSpan(s, nr, value, a, b) ==
    LET sums == Splits(s, a, b, {"+", "-"})
        products == Splits(s, a, b, {"*"})
        p == LastOf(IF sums # {} THEN sums ELSE products)
    IN  IF sums # {} THEN Applied(s[p], value[<<a, p - 1>>], value[<<p + 1, b>>])
        ELSE IF products # {} THEN value[<<a, p - 1>>] * value[<<p + 1, b>>]
        ELSE IF a < b THEN value[<<a + 1, b - 1>>]
        ELSE nr[a]

ValueOf(s, nr) ==
    LET value[w \in Spans(s)] == ValueOfSpan(s, nr, value, w[1], w[2])
    IN  value[<<1, Len(s)>>]

(* The grammar of the comment at eq.c:261-274, without precedence: which   *)
(* parts are expressions, and whether the whole chain is.                  *)
ExpressionSpan(s, expression, a, b) ==
    \/ a = b /\ IsNumber(s[a])
    \/ a < b /\ s[a] = "(" /\ s[b] = ")" /\ expression[<<a + 1, b - 1>>]
    \/ \E p \in a + 1 .. b - 1 :
          s[p] \in OpTokens /\ expression[<<a, p - 1>>] /\ expression[<<p + 1, b>>]

WellFormed(s) ==
    LET expression[w \in Spans(s)] == ExpressionSpan(s, expression, w[1], w[2])
    IN  expression[<<1, Len(s)>>]
=============================================================================
