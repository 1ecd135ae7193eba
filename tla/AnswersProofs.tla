---------------------------- MODULE AnswersProofs ----------------------------
(***************************************************************************)
(* Machine-checked proofs about equations and answers, for any bounds on   *)
(* the length of a chain, any flags, any numbers and any answer: the       *)
(* generator never runs out of choices, what it returns is an expression,  *)
(* the text that is printed of it fills its buffer and is read back as     *)
(* what it was printed from, eq_solve finds the value that this text has,  *)
(* and every check judges an answer by it and does what the worker takes   *)
(* it to do.                                                               *)
(*                                                                         *)
(* The definitions by recursion (Depth, WellFormed, ValueOf, Solve,        *)
(* Digits, AsRead, eq_print) choose a function that satisfies an equation. *)
(* For each of them a lemma shows that there is such a function and names  *)
(* the equation; the lemmas behind it use the equation only.               *)
(***************************************************************************)
EXTENDS Answers, SequenceTheorems, WellFoundedInduction, NaturalsInduction, TLAPS

EqInv == TypeOK /\ Budget

-----------------------------------------------------------------------------
(* rand_eq_len returns 0 or an odd length.                                 *)
LEMMA LengthIsOdd ==
    ASSUME NEW n \in RandEqLen PROVE n \in Nat /\ (n = 0 \/ n = 2 * (n \div 2) + 1)
<1>. DEFINE min == IF MinLen <= 0 THEN 1 ELSE MinLen
            max == IF MaxLen <= 0 THEN RandMax ELSE MaxLen
<1>1. min \in Nat \ {0} /\ max \in Nat
  BY GenAssumption
<1>2. CASE min > max
  BY <1>2 DEF RandEqLen
<1>3. CASE ~(min > max)
  <2>1. n \in OddLen(min, max)
    BY <1>3 DEF RandEqLen
  <2>. HIDE DEF min, max
  <2>2. PICK l \in min .. max :
          n = IF l % 2 = 1 THEN l ELSE IF l # max THEN l - 1
              ELSE IF l # min THEN l + 1 ELSE 0
    BY <2>1 DEF OddLen
  <2>3. QED
    BY <1>1, <2>2
<1>4. QED
  BY <1>2, <1>3

(* The initial counters are the budget of a chain of odd length.           *)
LEMMA InitEqInv == Init => EqInv
<1>. SUFFICES ASSUME Init PROVE EqInv
  OBVIOUS
<1>1. chain_len \in Nat /\ (chain_len = 0 \/ chain_len = 2 * (chain_len \div 2) + 1)
  BY LengthIsOdd DEF Init
<1>2. chain_len \div 2 \in Nat
  BY <1>1
<1>3. placed = 0 /\ Expecting
  BY DEF Init, placed, Expecting
<1>4. TypeOK
  BY <1>1, <1>2 DEF Init, TypeOK, Elements, Kinds, Flag
<1>5. Budget
  BY <1>1, <1>2, <1>3 DEF Init, Budget, OperandBudget, Flag
<1>6. QED
  BY <1>4, <1>5 DEF EqInv

(* What linking a new element to the chain does to the index and the end.  *)
LEMMA EmitExtends ==
    ASSUME NEW e \in Elements, elems \in Seq(Elements), elems' = Append(elems, e)
    PROVE  /\ elems' \in Seq(Elements)
           /\ placed \in Nat
           /\ placed' = placed + 1
           /\ Expecting' <=> e \in {"+", "-", "*", "("}
<1>1. elems' \in Seq(Elements) /\ Len(elems) \in Nat /\ Len(elems') = Len(elems) + 1
      /\ elems'[Len(elems')] = e /\ elems' # <<>>
  OBVIOUS
<1>2. QED
  BY <1>1 DEF placed, Expecting

-----------------------------------------------------------------------------
(* Every choice keeps the budget: one step per kind of element.            *)
LEMMA NextEqInv == EqInv /\ [Next]_vars => EqInv'
<1>. SUFFICES ASSUME EqInv, [Next]_vars PROVE EqInv'
  OBVIOUS
<1>. USE DEF EqInv
<1>1. ASSUME NEW o \in Ops, EmitOp(o) PROVE EqInv'
  <2>1. o \in Elements /\ o \in {"+", "-", "*", "("}
    BY GenAssumption DEF Elements
  <2>2. elems' \in Seq(Elements) /\ placed \in Nat /\ placed' = placed + 1 /\ Expecting'
    BY <1>1, <2>1, EmitExtends DEF EmitOp, Emit, TypeOK
  <2>3. ~Expecting /\ OperatorBudget /\ op_avail > 0
    BY <1>1 DEF EmitOp, Generating, Budget, OperandBudget, OperatorBudget, Flag
  <2>4. TypeOK'
    BY <1>1, <2>2, <2>3 DEF EmitOp, Emit, BeforeOperand, TypeOK, Flag, Kinds
  <2>5. OperandBudget'
    BY <1>1, <2>2, <2>3 DEF EmitOp, Emit, BeforeOperand, TypeOK, OperatorBudget,
       OperandBudget, Flag
  <2>6. Budget'
    BY <1>1, <2>2, <2>5 DEF EmitOp, Emit, Generating, Budget, TypeOK
  <2>7. QED
    BY <2>4, <2>6
<1>2. ASSUME EmitLeft PROVE EqInv'
  <2>1. elems' \in Seq(Elements) /\ placed \in Nat /\ placed' = placed + 1 /\ Expecting'
    BY <1>2, EmitExtends DEF EmitLeft, Emit, TypeOK, Elements
  <2>2. Expecting /\ OperandBudget /\ br_l_avail > 0
    BY <1>2 DEF EmitLeft, Generating, Budget, OperandBudget, OperatorBudget, Flag
  <2>3. TypeOK'
    BY <1>2, <2>1, <2>2 DEF EmitLeft, Emit, BeforeOperand, TypeOK, OperandBudget,
       Flag, Kinds
  <2>4. OperandBudget'
    BY <1>2, <2>1, <2>2 DEF EmitLeft, Emit, BeforeOperand, TypeOK, OperandBudget, Flag
  <2>5. Budget'
    BY <1>2, <2>1, <2>4 DEF EmitLeft, Emit, Generating, Budget, TypeOK
  <2>6. QED
    BY <2>3, <2>5
<1>3. ASSUME EmitRight PROVE EqInv'
  <2>1. elems' \in Seq(Elements) /\ placed \in Nat /\ placed' = placed + 1 /\ ~Expecting'
    BY <1>3, EmitExtends DEF EmitRight, Emit, TypeOK, Elements
  <2>2. ~Expecting /\ OperatorBudget /\ br_r_avail > 0
    BY <1>3 DEF EmitRight, Generating, Budget, OperandBudget, OperatorBudget, Flag
  <2>3. TypeOK'
    BY <1>3, <2>1, <2>2 DEF EmitRight, Emit, AfterOperand, TypeOK, Flag, Kinds
  <2>4. OperatorBudget'
    BY <1>3, <2>1, <2>2 DEF EmitRight, Emit, AfterOperand, TypeOK, OperatorBudget, Flag
  <2>5. Budget'
    BY <1>3, <2>1, <2>4 DEF EmitRight, Emit, Generating, Budget, TypeOK
  <2>6. QED
    BY <2>3, <2>5
<1>4. ASSUME EmitNumber PROVE EqInv'
  <2>1. elems' \in Seq(Elements) /\ placed \in Nat /\ placed' = placed + 1 /\ ~Expecting'
    BY <1>4, EmitExtends DEF EmitNumber, Emit, TypeOK, Elements
  <2>2. Expecting /\ OperandBudget
    BY <1>4 DEF EmitNumber, Generating, Budget, OperatorBudget, Flag
  <2>3. TypeOK'
    BY <1>4, <2>1, <2>2 DEF EmitNumber, Emit, AfterOperand, TypeOK, OperandBudget,
       Flag, Kinds
  <2>4. OperatorBudget'
    BY <1>4, <2>1, <2>2 DEF EmitNumber, Emit, AfterOperand, TypeOK, OperandBudget,
       OperatorBudget, Flag
  <2>5. Budget'
    BY <1>4, <2>1, <2>4 DEF EmitNumber, Emit, Generating, Budget, TypeOK
  <2>6. QED
    BY <2>3, <2>5
<1>5. ASSUME EmitFails PROVE EqInv'
  BY <1>5 DEF EmitFails, counters, TypeOK, Budget
<1>6. ASSUME UNCHANGED vars PROVE EqInv'
  BY <1>6 DEF vars, counters, TypeOK, Budget, OperandBudget, OperatorBudget,
     Expecting, placed, Flag
<1>7. QED
  BY <1>1, <1>2, <1>3, <1>4, <1>5, <1>6 DEF Next

-----------------------------------------------------------------------------
(* The space left always equals what the open braces and the operators     *)
(* still to come need, and no counter goes below its limit (eq.c:173-232). *)
THEOREM BudgetKept == Spec => [](TypeOK /\ Budget)
<1>1. QED
  BY InitEqInv, NextEqInv, PTL DEF Spec, EqInv

(* bitmask_choose is never called with an empty mask: the assertion at     *)
(* eq.c:56 holds for every length and every choice of flags.               *)
THEOREM FlagsNeverZero == Spec => []FlagsNotZero
<1>1. EqInv => FlagsNotZero
  <2>. SUFFICES ASSUME EqInv, Generating PROVE FlagsNotZero
    BY DEF FlagsNotZero
  <2>. USE DEF EqInv
  <2>1. CASE Expecting
    BY <2>1 DEF FlagsNotZero, Generating, Budget, OperandBudget
  <2>2. CASE ~Expecting
    <3>1. OperatorBudget /\ placed < chain_len /\ (~Braces => br_r_avail = 0)
      BY <2>2 DEF Generating, Budget
    <3>2. br_r_avail > 0 \/ op_avail > 0
      BY <3>1 DEF OperatorBudget, TypeOK, placed
    <3>3. (Braces /\ "br_r" \in possible) \/ "op" \in possible
      BY <3>1, <3>2 DEF OperatorBudget, TypeOK, Flag
    <3>4. QED
      BY <3>3 DEF FlagsNotZero
  <2>3. QED
    BY <2>1, <2>2
<1>2. QED
  BY <1>1, InitEqInv, NextEqInv, PTL DEF Spec

(* Nothing is left open or unused when the space is used up.               *)
LEMMA CompleteWhenDone == EqInv => CompleteChain
<1>. SUFFICES ASSUME EqInv, state = "done" PROVE CompleteChain
  BY DEF CompleteChain
<1>. USE DEF EqInv
<1>1. placed = chain_len /\ placed \in Nat /\ chain_len \in Nat
  BY DEF Budget, TypeOK, placed
<1>2. ~Expecting
  BY <1>1 DEF Budget, OperandBudget, TypeOK
<1>3. br_r_avail = 0 /\ op_avail = 0 /\ nr_avail = 0
  BY <1>1, <1>2 DEF Budget, OperatorBudget, TypeOK
<1>4. elems[placed] \in {"nr", ")"}
  BY <1>2 DEF Expecting, placed, TypeOK, Elements
<1>5. QED
  BY <1>1, <1>3, <1>4 DEF CompleteChain

(* A chain that is returned has closed every brace, used every operator    *)
(* and number, and ends with an operand.                                   *)
THEOREM ChainsComplete == Spec => []CompleteChain
<1>1. QED
  BY CompleteWhenDone, InitEqInv, NextEqInv, PTL DEF Spec

-----------------------------------------------------------------------------
(* Induction over numbers, and definitions by recursion on them            *)

(* Every set of natural numbers has a least one.                           *)
LEMMA LeastNumber ==
    ASSUME NEW T \in SUBSET Nat, T # {}
    PROVE  \E n \in T : \A m \in T : n <= m
<1>1. \E n \in T : \A m \in T : <<m, n>> \notin OpToRel(<, Nat)
  BY NatLessThanWellFounded, WFMin, Zenon
<1>2. \A m, n \in Nat : m < n => <<m, n>> \in OpToRel(<, Nat)
  BY DEF OpToRel
<1>3. PICK n \in T : \A m \in T : ~(m < n)
  BY <1>1, <1>2
<1>4. QED
  BY <1>3
(* Induction up to a bound, one by one.                                    *)
LEMMA UpTo ==
    ASSUME NEW n \in Nat, NEW T, 0 \in T, \A m \in 0 .. n - 1 : m \in T => m + 1 \in T
    PROVE  0 .. n \subseteq T
<1>. SUFFICES ASSUME (0 .. n) \ T # {} PROVE FALSE
  OBVIOUS
<1>1. PICK m \in (0 .. n) \ T : \A k \in (0 .. n) \ T : m <= k
  <2>1. (0 .. n) \ T \in SUBSET Nat
    OBVIOUS
  <2>2. QED
    BY <2>1, LeastNumber
<1>2. m - 1 \in 0 .. n - 1 /\ m - 1 \notin (0 .. n) \ T
  BY <1>1
<1>3. QED
  BY <1>1, <1>2

(* Induction up to a bound, from everything below.                         *)
LEMMA Below ==
    ASSUME NEW n \in Nat, NEW T, \A m \in 0 .. n : (\A j \in 0 .. m - 1 : j \in T) => m \in T
    PROVE  0 .. n \subseteq T
<1>. SUFFICES ASSUME (0 .. n) \ T # {} PROVE FALSE
  OBVIOUS
<1>1. PICK m \in (0 .. n) \ T : \A k \in (0 .. n) \ T : m <= k
  <2>1. (0 .. n) \ T \in SUBSET Nat
    OBVIOUS
  <2>2. QED
    BY <2>1, LeastNumber
<1>2. \A j \in 0 .. m - 1 : j \in 0 .. n /\ ~(m <= j)
  BY <1>1
<1>3. \A j \in 0 .. m - 1 : j \in T
  BY <1>1, <1>2
<1>4. QED
  BY <1>1, <1>3

(* A definition of f[m] by the f[j] below it has a solution.  G turns a     *)
(* function into one that is right at one place more.                      *)
Causal(n, W, G) ==
    /\ W # {}
    /\ G \in [[0 .. n -> W] -> [0 .. n -> W]]
    /\ \A f, g \in [0 .. n -> W] : \A m \in 0 .. n :
          (\A j \in 0 .. m - 1 : f[j] = g[j]) => G[f][m] = G[g][m]

(* By repeating G, which never changes again what it has made right.       *)
LEMMA FixedPoint ==
    ASSUME NEW n \in Nat, NEW W, NEW G, Causal(n, W, G)
    PROVE  \E f \in [0 .. n -> W] : f = G[f]
<1>. DEFINE V == [0 .. n -> W]
<1>a. W # {} /\ G \in [V -> V]
      /\ \A f, g \in V : \A m \in 0 .. n :
            (\A j \in 0 .. m - 1 : f[j] = g[j]) => G[f][m] = G[g][m]
  BY DEF Causal
<1>b. \E f : f \in V
  <2>1. PICK w \in W : TRUE
    BY <1>a
  <2>2. [m \in 0 .. n |-> w] \in V
    OBVIOUS
  <2>3. QED
    BY <2>2
<1>. DEFINE Good(f, k) == \A m \in 0 .. n : m < k => f[m] = G[f][m]
            T == {k \in 0 .. n + 1 : \E f \in V : Good(f, k)}
<1>1. 0 \in T
  BY <1>b
<1>2. ASSUME NEW k \in 0 .. (n + 1) - 1, k \in T PROVE k + 1 \in T
  <2>1. PICK f \in V : Good(f, k)
    BY <1>2
  <2>2. PICK g \in V : g = G[f]
    BY <1>a
  <2>3. ASSUME NEW m \in 0 .. n, m < k + 1 PROVE g[m] = G[g][m]
    <3>1. \A j \in 0 .. m - 1 : j \in 0 .. n /\ j < k
      BY <2>3
    <3>2. \A j \in 0 .. m - 1 : f[j] = g[j]
      BY <2>1, <2>2, <3>1
    <3>3. QED
      BY <1>a, <2>2, <3>2
  <2>4. Good(g, k + 1)
    BY <2>3
  <2>. HIDE DEF Good
  <2>5. \E h \in V : Good(h, k + 1)
    BY <2>4
  <2>6. QED
    BY <2>5
<1>3. n + 1 \in T
  <2>. HIDE DEF T
  <2>1. n + 1 \in Nat
    OBVIOUS
  <2>2. 0 .. n + 1 \subseteq T
    BY <1>1, <1>2, <2>1, UpTo
  <2>3. QED
    BY <2>1, <2>2
<1>4. PICK f \in V : Good(f, n + 1)
  BY <1>3
<1>5. \A m \in 0 .. n : f[m] = G[f][m]
  BY <1>4
<1>6. G[f] \in V
  BY <1>a
<1>7. QED
  BY <1>5, <1>6

-----------------------------------------------------------------------------
(* How many braces are open                                                *)

(* What depth[p] is is given by the places before it.                      *)
IsDepth(s, d) == d = [i \in 0 .. Len(s) |-> IF i = 0 THEN 0 ELSE d[i - 1] + Opens(s[i])]

(* Depth has the values of such a function.                                *)
LEMMA DepthExists ==
    ASSUME NEW s \in Seq(Elements)
    PROVE  \E d \in [0 .. Len(s) -> Int] : IsDepth(s, d) /\ \A p : Depth(s, p) = d[p]
<1>. DEFINE n == Len(s)
            V == [0 .. n -> Int]
            Body(f, i) == IF i = 0 THEN 0 ELSE f[i - 1] + Opens(s[i])
            G == [f \in V |-> [i \in 0 .. n |-> Body(f, i)]]
<1>1. n \in Nat /\ \A i \in 0 .. n : i # 0 => i - 1 \in 0 .. i - 1 /\ i - 1 \in 0 .. n
  OBVIOUS
<1>2. \A x : Opens(x) \in Int
  BY DEF Opens
<1>3. \A f \in V : \A i \in 0 .. n : Body(f, i) \in Int
  BY <1>1, <1>2
<1>4. \A f, g \in V : \A i \in 0 .. n :
         (\A j \in 0 .. i - 1 : f[j] = g[j]) => Body(f, i) = Body(g, i)
  BY <1>1
<1>. HIDE DEF Body, n
<1>5. G \in [V -> V] /\ \A f \in V : G[f] = [i \in 0 .. n |-> Body(f, i)]
  BY <1>3
<1>6. Causal(n, Int, G)
  <2>1. 0 \in Int
    OBVIOUS
  <2>2. QED
    BY <1>4, <1>5, <2>1 DEF Causal
<1>7. \E f \in V : f = G[f]
  <2>. HIDE DEF G
  <2>1. QED
    BY <1>1, <1>6, FixedPoint
<1>8. \E f : f = [i \in 0 .. n |-> Body(f, i)]
  BY <1>5, <1>7
<1>. DEFINE depth[i \in 0 .. Len(s)] == IF i = 0 THEN 0 ELSE depth[i - 1] + Opens(s[i])
<1>9. depth = [i \in 0 .. n |-> Body(depth, i)]
  BY <1>8 DEF Body, n
<1>10. \A p : Depth(s, p) = depth[p]
  BY DEF Depth
<1>. HIDE DEF depth
<1>. DEFINE U == {i \in 0 .. n : depth[i] \in Int}
<1>11. 0 \in U
  BY <1>1, <1>9 DEF Body
<1>12. ASSUME NEW i \in 0 .. n - 1, i \in U PROVE i + 1 \in U
  <2>1. i + 1 \in 0 .. n /\ i + 1 # 0 /\ (i + 1) - 1 = i
    BY <1>1
  <2>2. depth[i + 1] = depth[i] + Opens(s[i + 1])
    BY <1>9, <2>1 DEF Body
  <2>3. QED
    BY <1>2, <1>12, <2>1, <2>2
<1>13. 0 .. n \subseteq U
  <2>. HIDE DEF U
  <2>1. QED
    BY <1>1, <1>11, <1>12, UpTo
<1>14. depth \in [0 .. n -> Int]
  BY <1>9, <1>13
<1>15. IsDepth(s, depth)
  BY <1>9 DEF IsDepth, Body, n
<1>16. QED
  BY <1>10, <1>14, <1>15 DEF n

(* Depth, place by place.                                                  *)
LEMMA DepthsAre ==
    ASSUME NEW s \in Seq(Elements)
    PROVE  /\ Depth(s, 0) = 0
           /\ \A p \in 0 .. Len(s) : Depth(s, p) \in Int
           /\ \A p \in 1 .. Len(s) : Depth(s, p) = Depth(s, p - 1) + Opens(s[p])
<1>1. PICK d \in [0 .. Len(s) -> Int] : IsDepth(s, d) /\ \A p : Depth(s, p) = d[p]
  BY DepthExists
<1>2. \A p \in 0 .. Len(s) : d[p] = IF p = 0 THEN 0 ELSE d[p - 1] + Opens(s[p])
  BY <1>1 DEF IsDepth
<1>3. \A p \in 1 .. Len(s) : p \in 0 .. Len(s) /\ p # 0
  OBVIOUS
<1>4. d[0] = 0
  BY <1>2
<1>5. \A p \in 1 .. Len(s) : d[p] = d[p - 1] + Opens(s[p])
  BY <1>2, <1>3
<1>6. QED
  BY <1>1, <1>4, <1>5

(* Another element changes nothing before it.                              *)
LEMMA DepthAppended ==
    ASSUME NEW s \in Seq(Elements), NEW x \in Elements, NEW t, t = Append(s, x)
    PROVE  /\ \A p \in 0 .. Len(s) : Depth(t, p) = Depth(s, p)
           /\ Depth(t, Len(s) + 1) = Depth(s, Len(s)) + Opens(x)
<1>1. t \in Seq(Elements) /\ Len(t) = Len(s) + 1 /\ Len(s) \in Nat /\ t[Len(s) + 1] = x
      /\ \A i \in 1 .. Len(s) : t[i] = s[i]
  OBVIOUS
<1>. DEFINE U == {p \in 0 .. Len(s) : Depth(t, p) = Depth(s, p)}
<1>2. 0 \in U
  <2>1. Depth(s, 0) = 0 /\ Depth(t, 0) = 0
    BY <1>1, DepthsAre
  <2>2. QED
    BY <1>1, <2>1
<1>3. ASSUME NEW p \in 0 .. Len(s) - 1, p \in U PROVE p + 1 \in U
  <2>1. p + 1 \in 1 .. Len(s) /\ p + 1 \in 1 .. Len(t) /\ (p + 1) - 1 = p /\ p + 1 \in 0 .. Len(s)
    BY <1>1
  <2>2. Depth(s, p + 1) = Depth(s, p) + Opens(s[p + 1])
    BY <2>1, DepthsAre
  <2>3. Depth(t, p + 1) = Depth(t, p) + Opens(t[p + 1])
    BY <1>1, <2>1, DepthsAre
  <2>4. QED
    BY <1>1, <1>3, <2>1, <2>2, <2>3
<1>4. 0 .. Len(s) \subseteq U
  <2>. HIDE DEF U
  <2>1. QED
    BY <1>1, <1>2, <1>3, UpTo
<1>5. Depth(t, Len(s) + 1) = Depth(t, Len(s)) + Opens(x)
  <2>1. Len(s) + 1 \in 1 .. Len(t) /\ (Len(s) + 1) - 1 = Len(s)
    BY <1>1
  <2>2. QED
    BY <1>1, <2>1, DepthsAre
<1>6. Len(s) \in 0 .. Len(s)
  BY <1>1
<1>7. QED
  BY <1>4, <1>5, <1>6

-----------------------------------------------------------------------------
(* Expressions: the grammar                                                *)

(* Which parts are expressions is given by shorter parts.                  *)
IsExpressionOf(s, e) == e = [w \in Spans(s) |-> ExpressionSpan(s, e, w[1], w[2])]

(* WellFormed is the value of such a function for the whole chain.         *)
LEMMA ExpressionsExist ==
    ASSUME NEW s \in Seq(Elements)
    PROVE  \E e : IsExpressionOf(s, e) /\ (WellFormed(s) = e[<<1, Len(s)>>])
<1>. DEFINE n == Len(s)
            Good(e, k) == \A a, b \in 1 .. n : b - a + n <= k =>
                              e[<<a, b>>] = ExpressionSpan(s, e, a, b)
            T == {k \in 0 .. 2 * n : \E e \in [Spans(s) -> BOOLEAN] : Good(e, k)}
<1>0. n \in Nat /\ \A a, b \in 1 .. n : <<a, b>> \in Spans(s)
  BY DEF Spans
<1>x. \A w \in Spans(s) : w[1] \in 1 .. n /\ w[2] \in 1 .. n /\ w = <<w[1], w[2]>>
  BY DEF Spans
<1>. HIDE DEF n
<1>1. 0 \in T
  <2>1. [w \in Spans(s) |-> FALSE] \in [Spans(s) -> BOOLEAN] /\ Good([w \in Spans(s) |-> FALSE], 0)
    <3>1. \A a, b \in 1 .. n : ~(b - a + n <= 0)
      BY <1>0
    <3>2. QED
      BY <3>1
  <2>. HIDE DEF Good
  <2>2. \E f \in [Spans(s) -> BOOLEAN] : Good(f, 0)
    BY <2>1
  <2>3. QED
    BY <1>0, <2>2
<1>2. ASSUME NEW k \in 0 .. 2 * n - 1, k \in T PROVE k + 1 \in T
  <2>1. PICK f \in [Spans(s) -> BOOLEAN] : Good(f, k)
    BY <1>2
  <2>. DEFINE g == [w \in Spans(s) |-> ExpressionSpan(s, f, w[1], w[2])]
  <2>2. g \in [Spans(s) -> BOOLEAN]
    BY DEF ExpressionSpan
  <2>3. \A a, b \in 1 .. n : g[<<a, b>>] = ExpressionSpan(s, f, a, b)
    BY <1>0
  <2>. HIDE DEF g
  <2>4. ASSUME NEW a \in 1 .. n, NEW b \in 1 .. n, b - a + n <= k
        PROVE  g[<<a, b>>] = f[<<a, b>>]
    BY <2>1, <2>3, <2>4
  <2>5. ASSUME NEW a \in 1 .. n, NEW b \in 1 .. n, b - a + n <= k + 1
        PROVE  g[<<a, b>>] = ExpressionSpan(s, g, a, b)
    <3>1. a < b => a + 1 \in 1 .. n /\ b - 1 \in 1 .. n /\ b - 1 - (a + 1) + n <= k
      BY <1>0, <2>5
    <3>2. \A p \in a + 1 .. b - 1 : /\ p - 1 \in 1 .. n /\ p - 1 - a + n <= k
                                    /\ p + 1 \in 1 .. n /\ b - (p + 1) + n <= k
      BY <1>0, <2>5
    <3>3. a < b => g[<<a + 1, b - 1>>] = f[<<a + 1, b - 1>>]
      BY <2>4, <3>1
    <3>4. \A p \in a + 1 .. b - 1 : /\ g[<<a, p - 1>>] = f[<<a, p - 1>>]
                                    /\ g[<<p + 1, b>>] = f[<<p + 1, b>>]
      BY <2>4, <3>2
    <3>5. ExpressionSpan(s, f, a, b) = ExpressionSpan(s, g, a, b)
      BY <3>3, <3>4 DEF ExpressionSpan
    <3>6. QED
      BY <2>3, <3>5
  <2>6. Good(g, k + 1)
    BY <2>5
  <2>. HIDE DEF Good
  <2>7. \E h \in [Spans(s) -> BOOLEAN] : Good(h, k + 1)
    BY <2>2, <2>6
  <2>8. QED
    BY <1>0, <2>7
<1>3. 2 * n \in T
  <2>. HIDE DEF T
  <2>1. 0 .. 2 * n \subseteq T
    BY <1>0, <1>1, <1>2, UpTo
  <2>2. QED
    BY <1>0, <2>1
<1>4. PICK f \in [Spans(s) -> BOOLEAN] : Good(f, 2 * n)
  BY <1>3
<1>5. \A a, b \in 1 .. n : f[<<a, b>>] = ExpressionSpan(s, f, a, b)
  <2>1. \A a, b \in 1 .. n : b - a + n <= 2 * n
    BY <1>0
  <2>2. QED
    BY <1>4, <2>1
<1>6. f = [w \in Spans(s) |-> ExpressionSpan(s, f, w[1], w[2])]
  <2>1. \A w \in Spans(s) : f[w] = ExpressionSpan(s, f, w[1], w[2])
    BY <1>5, <1>x
  <2>2. QED
    BY <2>1
<1>. DEFINE expression[w \in Spans(s)] == ExpressionSpan(s, expression, w[1], w[2])
<1>7. expression = [w \in Spans(s) |-> ExpressionSpan(s, expression, w[1], w[2])]
  BY <1>6
<1>8. WellFormed(s) = expression[<<1, Len(s)>>]
  BY DEF WellFormed
<1>. HIDE DEF expression
<1>9. QED
  BY <1>7, <1>8, Zenon DEF IsExpressionOf

(* Induction over the length of a part.                                    *)
LEMMA SpanInduction ==
    ASSUME NEW n \in Nat, NEW T,
           \A a, b \in 1 .. n :
              (\A x, y \in 1 .. n : y - x < b - a => <<x, y>> \in T) => <<a, b>> \in T
    PROVE  \A a, b \in 1 .. n : <<a, b>> \in T
<1>. SUFFICES ASSUME NEW x \in 1 .. n, NEW y \in 1 .. n, <<x, y>> \notin T PROVE FALSE
  OBVIOUS
<1>. DEFINE K == {k \in Nat : \E a, b \in 1 .. n : k = b - a + n /\ <<a, b>> \notin T}
<1>1. \A a, b \in 1 .. n : <<a, b>> \notin T => b - a + n \in K
  <2>1. \A a, b \in 1 .. n : b - a + n \in Nat
    OBVIOUS
  <2>2. QED
    BY <2>1
<1>2. PICK k \in K : \A m \in K : k <= m
  <2>1. K \in SUBSET Nat /\ K # {}
    BY <1>1
  <2>. HIDE DEF K
  <2>2. QED
    BY <2>1, LeastNumber
<1>3. PICK a \in 1 .. n, b \in 1 .. n : k = b - a + n /\ <<a, b>> \notin T
  OBVIOUS
<1>. HIDE DEF K
<1>4. \A i, j \in 1 .. n : j - i < b - a => <<i, j>> \in T
  <2>. SUFFICES ASSUME NEW i \in 1 .. n, NEW j \in 1 .. n, j - i < b - a, <<i, j>> \notin T
                PROVE  FALSE
    OBVIOUS
  <2>1. j - i + n \in K
    BY <1>1
  <2>2. b - a + n <= j - i + n
    BY <1>2, <1>3, <2>1
  <2>3. QED
    BY <2>2
<1>5. QED
  BY <1>3, <1>4

(* The equation at one part.                                               *)
LEMMA Unfold ==
    ASSUME NEW s, NEW e, IsExpressionOf(s, e), NEW a \in 1 .. Len(s), NEW b \in 1 .. Len(s)
    PROVE  e[<<a, b>>] = ExpressionSpan(s, e, a, b)
<1>1. <<a, b>> \in Spans(s)
  BY DEF Spans
<1>2. QED
  BY <1>1 DEF IsExpressionOf

(* Of the elements of a chain only nr is a number.                         *)
LEMMA ElementKinds ==
    ASSUME NEW s \in Seq(Elements), NEW p \in 1 .. Len(s)
    PROVE  /\ s[p] \in Elements /\ (IsNumber(s[p]) <=> s[p] = "nr")
           /\ At(s, p) = s[p]
<1>1. s[p] \in Elements
  OBVIOUS
<1>2. QED
  BY <1>1 DEF Elements, IsNumber, OpTokens, At

(* An expression begins and ends with an operand and closes what it opens. *)
Balanced(s, d, a, b) ==
    /\ a <= b
    /\ s[a] \in {"nr", "("} /\ s[b] \in {"nr", ")"}
    /\ d[b] = d[a - 1]
    /\ \A i \in a .. b : d[i] >= d[a - 1]

(* Whatever the grammar takes for an expression is balanced.               *)
LEMMA ExpressionsBalanced ==
    ASSUME NEW s \in Seq(Elements), NEW e, IsExpressionOf(s, e),
           NEW d \in [0 .. Len(s) -> Int], IsDepth(s, d)
    PROVE  \A a, b \in 1 .. Len(s) : e[<<a, b>>] => Balanced(s, d, a, b)
<1>. DEFINE n == Len(s)
            T == {w \in (1 .. n) \X (1 .. n) : e[w] => Balanced(s, d, w[1], w[2])}
<1>1. n \in Nat /\ \A i \in 1 .. n : i - 1 \in 0 .. n /\ i \in 0 .. n
  OBVIOUS
<1>2. \A i \in 1 .. n : d[i] = d[i - 1] + Opens(s[i]) /\ d[i] \in Int /\ d[i - 1] \in Int
  <2>1. \A i \in 1 .. n : d[i] \in Int /\ d[i - 1] \in Int
    BY <1>1
  <2>2. \A i \in 0 .. n : d[i] = IF i = 0 THEN 0 ELSE d[i - 1] + Opens(s[i])
    BY DEF IsDepth
  <2>3. QED
    BY <1>1, <2>1, <2>2
<1>3. \A i \in 1 .. n : s[i] \in Elements
  BY <1>1
<1>4. ASSUME NEW a \in 1 .. n, NEW b \in 1 .. n,
             \A x, y \in 1 .. n : y - x < b - a => (e[<<x, y>>] => Balanced(s, d, x, y)),
             e[<<a, b>>]
      PROVE  Balanced(s, d, a, b)
  <2>1. ExpressionSpan(s, e, a, b)
    BY <1>4, Unfold
  <2>. HIDE DEF n
  <2>2. CASE a = b /\ IsNumber(s[a])
    <3>1. s[a] = "nr"
      BY <1>3, <2>2 DEF IsNumber, OpTokens, Elements
    <3>2. d[a] = d[a - 1] + 0 /\ d[a] \in Int /\ d[a - 1] \in Int
      BY <1>2, <3>1 DEF Opens
    <3>3. \A i \in a .. b : i = a
      BY <1>1, <2>2
    <3>4. QED
      BY <1>1, <2>2, <3>1, <3>2, <3>3 DEF Balanced
  <2>3. CASE a < b /\ s[a] = "(" /\ s[b] = ")" /\ e[<<a + 1, b - 1>>]
    <3>1. a + 1 \in 1 .. n /\ b - 1 \in 1 .. n /\ (b - 1) - (a + 1) < b - a
      BY <1>1, <2>3
    <3>2. Balanced(s, d, a + 1, b - 1)
      BY <1>4, <2>3, <3>1
    <3>3. d[a] = d[a - 1] + 1 /\ d[b] = d[b - 1] - 1
      BY <1>2, <2>3 DEF Opens
    <3>4. d[b - 1] = d[a] /\ \A i \in a + 1 .. b - 1 : d[i] >= d[a]
      BY <3>2 DEF Balanced
    <3>5. d[b] = d[a - 1] /\ d[a] >= d[a - 1] /\ d[a - 1] \in Int
      <4>1. d[a - 1] \in Int
        BY <1>2
      <4>2. QED
        BY <3>3, <3>4, <4>1
    <3>6. \A i \in a .. b : d[i] >= d[a - 1]
      <4>. SUFFICES ASSUME NEW i \in a .. b PROVE d[i] >= d[a - 1]
        OBVIOUS
      <4>1. i = a \/ i = b \/ i \in a + 1 .. b - 1
        OBVIOUS
      <4>2. d[i] \in Int /\ d[a] \in Int
        BY <1>1, <1>2
      <4>3. QED
        BY <3>4, <3>5, <4>1, <4>2
    <3>7. QED
      BY <1>1, <2>3, <3>5, <3>6 DEF Balanced
  <2>4. CASE \E p \in a + 1 .. b - 1 :
                s[p] \in OpTokens /\ e[<<a, p - 1>>] /\ e[<<p + 1, b>>]
    <3>1. PICK p \in a + 1 .. b - 1 : s[p] \in OpTokens /\ e[<<a, p - 1>>] /\ e[<<p + 1, b>>]
      BY <2>4
    <3>2. p \in 1 .. n /\ p - 1 \in 1 .. n /\ p + 1 \in 1 .. n
          /\ p - 1 - a < b - a /\ b - (p + 1) < b - a /\ a <= b
      BY <1>1
    <3>3. Balanced(s, d, a, p - 1) /\ Balanced(s, d, p + 1, b)
      BY <1>4, <3>1, <3>2
    <3>4. d[p] = d[p - 1]
      <4>1. Opens(s[p]) = 0
        BY <3>1 DEF Opens, OpTokens
      <4>2. d[p] = d[p - 1] + Opens(s[p]) /\ d[p - 1] \in Int
        BY <1>2, <3>2
      <4>3. QED
        BY <4>1, <4>2
    <3>5. d[p - 1] = d[a - 1] /\ d[b] = d[p]
          /\ (\A i \in a .. p - 1 : d[i] >= d[a - 1])
          /\ (\A i \in p + 1 .. b : d[i] >= d[p])
      BY <3>2, <3>3 DEF Balanced
    <3>6. \A i \in a .. b : d[i] >= d[a - 1]
      <4>1. \A i \in a .. b : i = p \/ i \in a .. p - 1 \/ i \in p + 1 .. b
        OBVIOUS
      <4>2. \A i \in a .. b : i \in 1 .. n
        BY <1>1
      <4>3. QED
        BY <1>2, <3>4, <3>5, <4>1, <4>2
    <3>7. QED
      BY <1>2, <3>2, <3>3, <3>4, <3>5, <3>6 DEF Balanced
  <2>5. QED
    BY <2>1, <2>2, <2>3, <2>4 DEF ExpressionSpan
<1>5. ASSUME NEW a \in 1 .. n, NEW b \in 1 .. n,
             \A x, y \in 1 .. n : y - x < b - a => <<x, y>> \in T
      PROVE  <<a, b>> \in T
  <2>1. \A x, y \in 1 .. n : y - x < b - a => (e[<<x, y>>] => Balanced(s, d, x, y))
    BY <1>5
  <2>2. e[<<a, b>>] => Balanced(s, d, a, b)
    BY <1>4, <2>1
  <2>3. QED
    BY <2>2
<1>6. \A a, b \in 1 .. n : <<a, b>> \in T
  <2>. HIDE DEF T, n
  <2>1. QED
    BY <1>1, <1>5, SpanInduction
<1>7. QED
  BY <1>6

(* An expression may be split at any operator outside its braces.          *)
SplitsAt(s, e, d, a, b) ==
    \A p \in a + 1 .. b - 1 :
        s[p] \in OpTokens /\ d[p] = d[a - 1] => e[<<a, p - 1>>] /\ e[<<p + 1, b>>]

(* The grammar may split an expression anywhere, yet every operator        *)
(* outside braces is a place where both sides are expressions.             *)
LEMMA ExpressionsSplit ==
    ASSUME NEW s \in Seq(Elements), NEW e, IsExpressionOf(s, e),
           NEW d \in [0 .. Len(s) -> Int], IsDepth(s, d)
    PROVE  \A a, b \in 1 .. Len(s) : e[<<a, b>>] => SplitsAt(s, e, d, a, b)
<1>. DEFINE n == Len(s)
            T == {w \in (1 .. n) \X (1 .. n) : e[w] => SplitsAt(s, e, d, w[1], w[2])}
<1>1. n \in Nat /\ \A i \in 1 .. n : i - 1 \in 0 .. n /\ i \in 0 .. n
  OBVIOUS
<1>2. \A i \in 1 .. n : d[i] = d[i - 1] + Opens(s[i])
  BY <1>1 DEF IsDepth
<1>3. \A i \in 1 .. n : d[i] \in Int /\ d[i - 1] \in Int
  BY <1>1
<1>4. ASSUME NEW a \in 1 .. n, NEW b \in 1 .. n,
             \A x, y \in 1 .. n : y - x < b - a => (e[<<x, y>>] => SplitsAt(s, e, d, x, y)),
             e[<<a, b>>],
             NEW p \in a + 1 .. b - 1, s[p] \in OpTokens, d[p] = d[a - 1]
      PROVE  e[<<a, p - 1>>] /\ e[<<p + 1, b>>]
  <2>1. ExpressionSpan(s, e, a, b)
    BY <1>4, Unfold
  <2>2. a < b /\ p \in 1 .. n /\ p - 1 \in 1 .. n /\ p + 1 \in 1 .. n
    BY <1>1
  <2>. HIDE DEF n
  <2>3. CASE s[a] = "(" /\ s[b] = ")" /\ e[<<a + 1, b - 1>>]
    <3>1. a + 1 \in 1 .. n /\ b - 1 \in 1 .. n
      BY <1>1, <2>2
    <3>2. Balanced(s, d, a + 1, b - 1)
      BY <2>3, <3>1, ExpressionsBalanced DEF n
    <3>3. d[p] >= d[a]
      BY <1>1, <3>2 DEF Balanced
    <3>4. d[a] = d[a - 1] + 1 /\ d[a - 1] \in Int
      BY <1>2, <1>3, <2>3 DEF Opens
    <3>5. QED
      BY <1>4, <3>3, <3>4
  <2>4. CASE \E q \in a + 1 .. b - 1 :
                s[q] \in OpTokens /\ e[<<a, q - 1>>] /\ e[<<q + 1, b>>]
    <3>1. PICK q \in a + 1 .. b - 1 : s[q] \in OpTokens /\ e[<<a, q - 1>>] /\ e[<<q + 1, b>>]
      BY <2>4
    <3>2. q \in 1 .. n /\ q - 1 \in 1 .. n /\ q + 1 \in 1 .. n
          /\ q - 1 - a < b - a /\ b - (q + 1) < b - a
      BY <1>1
    <3>3. Balanced(s, d, a, q - 1) /\ Balanced(s, d, q + 1, b)
      BY <3>1, <3>2, ExpressionsBalanced DEF n
    <3>4. SplitsAt(s, e, d, a, q - 1) /\ SplitsAt(s, e, d, q + 1, b)
      BY <1>4, <3>1, <3>2
    <3>5. d[q] = d[a - 1]
      <4>1. Opens(s[q]) = 0
        BY <3>1 DEF Opens, OpTokens
      <4>2. d[q] = d[q - 1] + Opens(s[q]) /\ d[q - 1] \in Int /\ d[q - 1] = d[a - 1]
        BY <1>2, <1>3, <3>2, <3>3 DEF Balanced
      <4>3. QED
        BY <4>1, <4>2
    <3>6. CASE p = q
      BY <3>1, <3>6
    <3>7. CASE p < q
      <4>1. p # q - 1
        BY <1>4, <3>3 DEF Balanced, OpTokens
      <4>2. p \in a + 1 .. (q - 1) - 1
        BY <1>1, <3>2, <3>7, <4>1, <2>2
      <4>3. e[<<a, p - 1>>] /\ e[<<p + 1, q - 1>>]
        BY <1>4, <3>4, <4>2 DEF SplitsAt
      <4>4. q \in p + 1 + 1 .. b - 1
        BY <1>1, <4>2, <2>2
      <4>5. ExpressionSpan(s, e, p + 1, b)
        BY <3>1, <4>3, <4>4 DEF ExpressionSpan
      <4>6. QED
        BY <2>2, <4>3, <4>5, Unfold DEF n
    <3>8. CASE q < p
      <4>1. p # q + 1
        BY <1>4, <3>3 DEF Balanced, OpTokens
      <4>2. p \in q + 1 + 1 .. b - 1
        BY <1>1, <3>2, <3>8, <4>1, <2>2
      <4>3. d[p] = d[(q + 1) - 1]
        BY <1>4, <3>2, <3>5
      <4>4. e[<<q + 1, p - 1>>] /\ e[<<p + 1, b>>]
        BY <1>4, <3>4, <4>2, <4>3 DEF SplitsAt
      <4>5. q \in a + 1 .. (p - 1) - 1
        BY <1>1, <4>2, <2>2
      <4>6. ExpressionSpan(s, e, a, p - 1)
        BY <3>1, <4>4, <4>5 DEF ExpressionSpan
      <4>7. QED
        BY <2>2, <4>4, <4>6, Unfold DEF n
    <3>9. QED
      BY <3>2, <2>2, <3>6, <3>7, <3>8
  <2>5. a # b
    BY <2>2
  <2>6. (s[a] = "(" /\ s[b] = ")" /\ e[<<a + 1, b - 1>>])
        \/ \E q \in a + 1 .. b - 1 : s[q] \in OpTokens /\ e[<<a, q - 1>>] /\ e[<<q + 1, b>>]
    BY <2>1, <2>5, Zenon DEF ExpressionSpan
  <2>7. QED
    BY <2>3, <2>4, <2>6
<1>5. ASSUME NEW a \in 1 .. n, NEW b \in 1 .. n,
             \A x, y \in 1 .. n : y - x < b - a => <<x, y>> \in T
      PROVE  <<a, b>> \in T
  <2>1. \A x, y \in 1 .. n : y - x < b - a => (e[<<x, y>>] => SplitsAt(s, e, d, x, y))
    BY <1>5
  <2>2. e[<<a, b>>] => SplitsAt(s, e, d, a, b)
    BY <1>4, <2>1 DEF SplitsAt
  <2>3. QED
    BY <2>2
<1>6. \A a, b \in 1 .. n : <<a, b>> \in T
  <2>. HIDE DEF T, n
  <2>1. QED
    BY <1>1, <1>5, SpanInduction
<1>7. QED
  BY <1>6

(* What may stand behind an element, and at the start.                     *)
Opening == {"+", "-", "*", "("}
Adjacent(s) ==
    \A i \in 1 .. Len(s) :
        s[i] \in IF i = 1 \/ s[i - 1] \in Opening THEN {"nr", "("} ELSE {"+", "-", "*", ")"}

(* Where each element may stand behind the one before it, being balanced   *)
(* is enough.                                                              *)
LEMMA NestedIsExpression ==
    ASSUME NEW s \in Seq(Elements), Adjacent(s), NEW e, IsExpressionOf(s, e),
           NEW d \in [0 .. Len(s) -> Int], IsDepth(s, d)
    PROVE  \A a, b \in 1 .. Len(s) : Balanced(s, d, a, b) => e[<<a, b>>]
<1>. DEFINE n == Len(s)
            T == {w \in (1 .. n) \X (1 .. n) : Balanced(s, d, w[1], w[2]) => e[w]}
<1>1. n \in Nat /\ \A i \in 1 .. n : i - 1 \in 0 .. n /\ i \in 0 .. n
  OBVIOUS
<1>2. \A i \in 1 .. n : d[i] = d[i - 1] + Opens(s[i])
  BY <1>1 DEF IsDepth
<1>3. \A i \in 1 .. n : d[i] \in Int /\ d[i - 1] \in Int
  BY <1>1
<1>x. \A i \in 1 .. n : s[i] \in Elements
  BY <1>1
<1>y. \A i \in 1 .. n : i + 1 \in 1 .. n =>
          s[i + 1] \in IF s[i] \in Opening THEN {"nr", "("} ELSE {"+", "-", "*", ")"}
  <2>. SUFFICES ASSUME NEW i \in 1 .. n, i + 1 \in 1 .. n
                PROVE s[i + 1] \in IF s[i] \in Opening THEN {"nr", "("} ELSE {"+", "-", "*", ")"}
    OBVIOUS
  <2>1. i + 1 # 1 /\ (i + 1) - 1 = i
    BY <1>1
  <2>2. s[i + 1] \in IF i + 1 = 1 \/ s[(i + 1) - 1] \in Opening THEN {"nr", "("} ELSE {"+", "-", "*", ")"}
    BY DEF Adjacent
  <2>3. QED
    BY <2>1, <2>2
<1>4. ASSUME NEW a \in 1 .. n, NEW b \in 1 .. n,
             \A x, y \in 1 .. n : y - x < b - a => (Balanced(s, d, x, y) => e[<<x, y>>]),
             Balanced(s, d, a, b)
      PROVE  e[<<a, b>>]
  <2>0. SUFFICES ExpressionSpan(s, e, a, b)
    BY Unfold
  <2>. HIDE DEF n
  <2>1. a <= b /\ s[a] \in {"nr", "("} /\ s[b] \in {"nr", ")"} /\ d[b] = d[a - 1]
        /\ (\A i \in a .. b : d[i] >= d[a - 1]) /\ d[a - 1] \in Int /\ d[a] \in Int
    BY <1>3, <1>4 DEF Balanced
  <2>2. CASE a = b
    <3>1. s[a] = "nr"
      BY <2>1, <2>2
    <3>2. QED
      BY <2>2, <3>1 DEF ExpressionSpan, IsNumber, OpTokens
  <2>3. CASE \E p \in a + 1 .. b - 1 : s[p] \in OpTokens /\ d[p] = d[a - 1]
    <3>1. PICK p \in a + 1 .. b - 1 : s[p] \in OpTokens /\ d[p] = d[a - 1]
      BY <2>3
    <3>2. p \in 1 .. n /\ p - 1 \in 1 .. n /\ p + 1 \in 1 .. n /\ (p - 1) + 1 = p
          /\ p - 1 - a < b - a /\ b - (p + 1) < b - a /\ a <= p - 1 /\ p + 1 <= b
          /\ (p + 1) - 1 = p
      BY <1>1
    <3>3. s[p - 1] \in {"nr", ")"} /\ s[p + 1] \in {"nr", "("}
      <4>1. s[p - 1] \notin Opening
        <5>1. s[(p - 1) + 1] \in IF s[p - 1] \in Opening THEN {"nr", "("} ELSE {"+", "-", "*", ")"}
          BY <1>y, <3>2
        <5>2. QED
          BY <3>1, <3>2, <5>1 DEF OpTokens
      <4>2. s[p] \in Opening
        BY <3>1 DEF OpTokens, Opening
      <4>3. QED
        BY <1>x, <1>y, <3>2, <4>1, <4>2 DEF Opening, Elements
    <3>4. d[p] = d[p - 1]
      <4>1. Opens(s[p]) = 0
        BY <3>1 DEF Opens, OpTokens
      <4>2. d[p] = d[p - 1] + Opens(s[p]) /\ d[p - 1] \in Int
        BY <1>2, <1>3, <3>2
      <4>3. QED
        BY <4>1, <4>2
    <3>5. Balanced(s, d, a, p - 1)
      BY <2>1, <3>1, <3>2, <3>3, <3>4 DEF Balanced
    <3>6. Balanced(s, d, p + 1, b)
      BY <2>1, <3>1, <3>2, <3>3 DEF Balanced
    <3>7. e[<<a, p - 1>>] /\ e[<<p + 1, b>>]
      BY <1>4, <3>2, <3>5, <3>6
    <3>8. QED
      BY <3>1, <3>7 DEF ExpressionSpan
  <2>4. CASE a # b /\ ~\E p \in a + 1 .. b - 1 : s[p] \in OpTokens /\ d[p] = d[a - 1]
    <3>0. a < b /\ a + 1 \in 1 .. n /\ b - 1 \in 1 .. n /\ (b - 1) + 1 = b /\ (a + 1) - 1 = a
      BY <1>1, <2>1, <2>4
    (* No operator follows an operand that ends before b. *)
    <3>1. ASSUME NEW i \in a .. b - 1, s[i] \notin Opening, d[i] = d[a - 1]
          PROVE  FALSE
      <4>1. i \in 1 .. n /\ i + 1 \in 1 .. n /\ i + 1 \in a .. b /\ (i + 1) - 1 = i
        BY <1>1
      <4>2. s[i + 1] \in {"+", "-", "*", ")"}
        BY <1>y, <3>1, <4>1
      <4>3. d[i + 1] = d[i] + Opens(s[i + 1]) /\ d[i + 1] >= d[a - 1] /\ d[i + 1] \in Int
        BY <1>2, <1>3, <2>1, <4>1
      <4>4. s[i + 1] # ")"
        BY <2>1, <3>1, <4>3 DEF Opens
      <4>5. s[i + 1] \in OpTokens /\ Opens(s[i + 1]) = 0
        BY <4>2, <4>4 DEF OpTokens, Opens
      <4>6. d[i + 1] = d[a - 1]
        BY <2>1, <3>1, <4>3, <4>5
      <4>7. i + 1 # b
        BY <2>1, <4>5 DEF OpTokens
      <4>8. i + 1 \in a + 1 .. b - 1
        BY <4>1, <4>7
      <4>9. QED
        BY <2>4, <4>5, <4>6, <4>8
    <3>2. s[a] = "("
      <4>. SUFFICES ASSUME s[a] = "nr" PROVE FALSE
        BY <2>1
      <4>1. d[a] = d[a - 1] + Opens(s[a]) /\ Opens(s[a]) = 0
        BY <1>2 DEF Opens
      <4>2. a \in a .. b - 1
        BY <3>0
      <4>3. QED
        BY <2>1, <3>1, <4>1, <4>2 DEF Opening
    <3>3. d[a] = d[a - 1] + 1
      BY <1>2, <3>2 DEF Opens
    <3>4. \A i \in a .. b - 1 : d[i] > d[a - 1]
      <4>. DEFINE U == {i \in 0 .. (b - 1) - a : d[a + i] > d[a - 1]}
      <4>1. (b - 1) - a \in Nat
        BY <3>0
      <4>2. 0 \in U
        BY <2>1, <3>3, <4>1
      <4>3. ASSUME NEW i \in 0 .. (b - 1) - a - 1, i \in U PROVE i + 1 \in U
        <5>1. a + i \in 1 .. n /\ a + i + 1 \in 1 .. n /\ a + i + 1 \in a .. b - 1 /\ (a + i + 1) - 1 = a + i
              /\ a + i + 1 \in a .. b
          BY <1>1, <4>1
        <5>2. d[a + i + 1] = d[a + i] + Opens(s[a + i + 1]) /\ d[a + i] \in Int /\ d[a + i + 1] \in Int
          BY <1>2, <1>3, <5>1
        <5>3. d[a + i + 1] >= d[a - 1]
          BY <2>1, <5>1
        <5>4. d[a + i] > d[a - 1]
          BY <4>3
        <5>5. CASE d[a + i + 1] = d[a - 1]
          <6>1. s[a + i + 1] = ")"
            BY <2>1, <5>2, <5>4, <5>5 DEF Opens
          <6>2. s[a + i + 1] \notin Opening
            BY <6>1 DEF Opening
          <6>3. QED
            BY <3>1, <5>1, <5>5, <6>2
        <5>6. CASE d[a + i + 1] # d[a - 1]
          <6>1. d[a + (i + 1)] > d[a - 1]
            BY <2>1, <5>2, <5>3, <5>6
          <6>2. i + 1 \in 0 .. (b - 1) - a
            BY <4>1
          <6>3. QED
            BY <6>1, <6>2
        <5>7. QED
          BY <5>5, <5>6
      <4>4. 0 .. (b - 1) - a \subseteq U
        <5>. HIDE DEF U
        <5>1. QED
          BY <4>1, <4>2, <4>3, UpTo
      <4>5. \A i \in a .. b - 1 : i - a \in 0 .. (b - 1) - a /\ a + (i - a) = i
        OBVIOUS
      <4>6. QED
        BY <4>4, <4>5
    <3>5. s[b] = ")"
      <4>1. d[b] = d[b - 1] + Opens(s[b]) /\ d[b - 1] > d[a - 1] /\ d[b - 1] \in Int
        <5>1. b - 1 \in a .. b - 1
          BY <3>0
        <5>2. QED
          BY <1>2, <1>3, <3>4, <5>1
      <4>2. QED
        BY <2>1, <4>1 DEF Opens
    <3>6. s[a + 1] \in {"nr", "("}
      BY <1>y, <3>0, <3>2 DEF Opening
    <3>7. s[b - 1] \in {"nr", ")"}
      <4>1. s[(b - 1) + 1] \in IF s[b - 1] \in Opening THEN {"nr", "("} ELSE {"+", "-", "*", ")"}
        BY <1>y, <3>0
      <4>2. s[b - 1] \notin Opening
        BY <3>0, <3>5, <4>1
      <4>3. QED
        BY <1>x, <3>0, <4>2 DEF Opening, Elements
    <3>8. a + 1 <= b - 1
      <4>1. a + 1 # b
        BY <3>5, <3>6
      <4>2. QED
        BY <3>0, <4>1
    <3>9. d[b - 1] = d[a]
      <4>1. d[b] = d[b - 1] - 1 /\ d[b - 1] \in Int
        BY <1>2, <1>3, <3>5 DEF Opens
      <4>2. QED
        BY <2>1, <3>3, <4>1
    <3>10. \A i \in a + 1 .. b - 1 : d[i] >= d[a]
      <4>. SUFFICES ASSUME NEW i \in a + 1 .. b - 1 PROVE d[i] >= d[a]
        OBVIOUS
      <4>1. i \in a .. b - 1 /\ i \in 1 .. n
        BY <1>1
      <4>2. QED
        BY <1>3, <2>1, <3>3, <3>4, <4>1
    <3>11. Balanced(s, d, a + 1, b - 1)
      BY <3>0, <3>6, <3>7, <3>8, <3>9, <3>10 DEF Balanced
    <3>12. e[<<a + 1, b - 1>>]
      <4>1. (b - 1) - (a + 1) < b - a
        OBVIOUS
      <4>2. QED
        BY <1>4, <3>0, <3>11, <4>1
    <3>13. QED
      BY <3>0, <3>2, <3>5, <3>12 DEF ExpressionSpan
  <2>5. QED
    BY <2>2, <2>3, <2>4
<1>5. ASSUME NEW a \in 1 .. n, NEW b \in 1 .. n,
             \A x, y \in 1 .. n : y - x < b - a => <<x, y>> \in T
      PROVE  <<a, b>> \in T
  <2>1. \A x, y \in 1 .. n : y - x < b - a => (Balanced(s, d, x, y) => e[<<x, y>>])
    BY <1>5
  <2>2. Balanced(s, d, a, b) => e[<<a, b>>]
    BY <1>4, <2>1
  <2>3. QED
    BY <2>2
<1>6. \A a, b \in 1 .. n : <<a, b>> \in T
  <2>. HIDE DEF T, n
  <2>1. QED
    BY <1>1, <1>5, SpanInduction
<1>7. QED
  BY <1>6

-----------------------------------------------------------------------------
(* The chain of the generator is an expression                             *)

(* Every prefix is one of an expression: each element may stand behind the *)
(* one before it, and as many braces are open as br_r_avail says.          *)
ChainInv ==
    state # "failed" =>
        /\ Adjacent(elems)
        /\ \A p \in 0 .. placed : Depth(elems, p) >= 0
        /\ Depth(elems, placed) = br_r_avail

(* An empty chain is such a prefix.                                        *)
LEMMA InitChainInv == Init => ChainInv
<1>. SUFFICES ASSUME Init PROVE ChainInv
  OBVIOUS
<1>1. elems = <<>> /\ elems \in Seq(Elements) /\ placed = 0 /\ br_r_avail = 0
  BY DEF Init, placed
<1>2. Depth(elems, 0) = 0
  BY <1>1, DepthsAre
<1>3. QED
  BY <1>1, <1>2 DEF ChainInv, Adjacent

(* An element that may follow is appended.                                 *)
LEMMA EmitChainInv ==
    ASSUME EqInv, ChainInv, state = "generating", NEW x \in Elements, Emit(x),
           x \in IF Expecting THEN {"nr", "("} ELSE {"+", "-", "*", ")"},
           br_r_avail' = br_r_avail + Opens(x), br_r_avail' \in Nat
    PROVE  ChainInv'
<1>1. elems \in Seq(Elements) /\ placed \in Nat /\ elems' = Append(elems, x)
      /\ placed = Len(elems)
  BY DEF EqInv, TypeOK, Emit, placed
<1>2. elems' \in Seq(Elements) /\ placed' = placed + 1 /\ elems'[placed + 1] = x
      /\ \A i \in 1 .. placed : elems'[i] = elems[i]
  BY <1>1 DEF placed
<1>3. /\ Adjacent(elems)
      /\ \A p \in 0 .. placed : Depth(elems, p) >= 0
      /\ Depth(elems, placed) = br_r_avail
  BY DEF ChainInv
<1>4. Adjacent(elems')
  <2>. SUFFICES ASSUME NEW i \in 1 .. placed + 1
                PROVE  elems'[i] \in IF i = 1 \/ elems'[i - 1] \in Opening
                                     THEN {"nr", "("} ELSE {"+", "-", "*", ")"}
    BY <1>2 DEF Adjacent, placed
  <2>1. CASE i \in 1 .. placed
    <3>1. elems[i] \in IF i = 1 \/ elems[i - 1] \in Opening
                       THEN {"nr", "("} ELSE {"+", "-", "*", ")"}
      BY <1>3, <2>1 DEF Adjacent, placed
    <3>2. i # 1 => i - 1 \in 1 .. placed
      BY <1>1, <2>1
    <3>3. QED
      BY <1>2, <2>1, <3>1, <3>2
  <2>2. CASE i = placed + 1
    <3>1. i # 1 => elems'[i - 1] = elems[placed]
      BY <1>1, <1>2, <2>2
    <3>2. Expecting <=> i = 1 \/ elems[placed] \in Opening
      BY <1>1, <2>2 DEF Expecting, Opening
    <3>3. QED
      BY <1>2, <2>2, <3>1, <3>2
  <2>3. QED
    BY <1>1, <2>1, <2>2
<1>5. /\ \A p \in 0 .. placed : Depth(elems', p) = Depth(elems, p)
      /\ Depth(elems', placed + 1) = Depth(elems, placed) + Opens(x)
  BY <1>1, DepthAppended
<1>6. Depth(elems', placed') = br_r_avail'
  BY <1>2, <1>3, <1>5
<1>7. \A p \in 0 .. placed + 1 : p \in 0 .. placed \/ p = placed + 1
  BY <1>1
<1>8. \A p \in 0 .. placed' : Depth(elems', p) >= 0
  BY <1>2, <1>3, <1>5, <1>6, <1>7
<1>9. QED
  BY <1>4, <1>6, <1>8 DEF ChainInv, placed

(* Every iteration of eq_generate keeps the prefix one of an expression.   *)
LEMMA NextChainInv == EqInv /\ ChainInv /\ [Next]_vars => ChainInv'
<1>. SUFFICES ASSUME EqInv, ChainInv, [Next]_vars PROVE ChainInv'
  OBVIOUS
<1>. USE DEF EqInv
<1>1. ASSUME NEW o \in Ops, EmitOp(o) PROVE ChainInv'
  <2>1. o \in {"+", "-", "*"} /\ o \in Elements /\ Opens(o) = 0
    BY GenAssumption DEF Elements, Opens
  <2>2. ~Expecting
    BY <1>1 DEF EmitOp, Generating, Budget, OperandBudget, Flag
  <2>3. QED
    BY <1>1, <2>1, <2>2, EmitChainInv DEF EmitOp, Generating, TypeOK
<1>2. ASSUME EmitLeft PROVE ChainInv'
  <2>1. "(" \in Elements /\ Opens("(") = 1
    BY DEF Elements, Opens
  <2>2. Expecting
    BY <1>2 DEF EmitLeft, Generating, Budget, OperatorBudget, Flag
  <2>3. QED
    BY <1>2, <2>1, <2>2, EmitChainInv DEF EmitLeft, Generating, TypeOK
<1>3. ASSUME EmitRight PROVE ChainInv'
  <2>1. ")" \in Elements /\ Opens(")") = -1
    BY DEF Elements, Opens
  <2>2. ~Expecting /\ br_r_avail > 0
    BY <1>3 DEF EmitRight, Generating, Budget, OperandBudget, OperatorBudget, Flag
  <2>3. br_r_avail' = br_r_avail + -1 /\ br_r_avail' \in Nat
    BY <1>3, <2>2 DEF EmitRight, TypeOK
  <2>4. QED
    BY <1>3, <2>1, <2>2, <2>3, EmitChainInv DEF EmitRight, Generating, TypeOK
<1>4. ASSUME EmitNumber PROVE ChainInv'
  <2>1. "nr" \in Elements /\ Opens("nr") = 0
    BY DEF Elements, Opens
  <2>2. Expecting
    BY <1>4 DEF EmitNumber, Generating, Budget, OperatorBudget, Flag
  <2>3. QED
    BY <1>4, <2>1, <2>2, EmitChainInv DEF EmitNumber, Generating, TypeOK
<1>5. ASSUME EmitFails PROVE ChainInv'
  BY <1>5 DEF EmitFails, ChainInv
<1>6. ASSUME UNCHANGED vars PROVE ChainInv'
  BY <1>6 DEF vars, counters, ChainInv, placed
<1>7. QED
  BY <1>1, <1>2, <1>3, <1>4, <1>5, <1>6 DEF Next

(* A complete chain is a balanced part of itself, so an expression.        *)
LEMMA CompleteChainBalanced ==
    ASSUME EqInv, ChainInv, state = "done"
    PROVE  /\ elems \in Seq(Elements) /\ Len(elems) = chain_len /\ chain_len \in Nat \ {0}
           /\ Adjacent(elems)
           /\ \A d \in [0 .. Len(elems) -> Int] :
                 (\A p : Depth(elems, p) = d[p]) => Balanced(elems, d, 1, Len(elems))
<1>1. elems \in Seq(Elements) /\ Len(elems) \in Nat /\ Len(elems) = chain_len
      /\ br_r_avail = 0 /\ elems[Len(elems)] \in {"nr", ")"}
  BY CompleteWhenDone DEF EqInv, TypeOK, CompleteChain, placed
<1>2. /\ Adjacent(elems)
      /\ \A p \in 0 .. Len(elems) : Depth(elems, p) >= 0
      /\ Depth(elems, Len(elems)) = 0
  BY <1>1 DEF ChainInv, placed
<1>3. Len(elems) # 0
  BY <1>1 DEF EqInv, Budget, Expecting, OperandBudget, TypeOK, placed
<1>4. elems[1] \in {"nr", "("}
  <2>1. 1 \in 1 .. Len(elems)
    BY <1>1, <1>3
  <2>2. QED
    BY <1>2, <2>1 DEF Adjacent
<1>5. Depth(elems, 0) = 0
  BY <1>1, DepthsAre
<1>6. \A d \in [0 .. Len(elems) -> Int] :
         (\A p : Depth(elems, p) = d[p]) => Balanced(elems, d, 1, Len(elems))
  BY <1>1, <1>2, <1>3, <1>4, <1>5 DEF Balanced
<1>7. QED
  BY <1>1, <1>2, <1>3, <1>6

(* So a chain that is done is an expression.                               *)
LEMMA WellFormedWhenDone == EqInv /\ ChainInv => ChainsWellFormed
<1>. SUFFICES ASSUME EqInv, ChainInv, state = "done"
              PROVE  Len(elems) = chain_len /\ WellFormed(elems)
  BY DEF ChainsWellFormed
<1>1. elems \in Seq(Elements) /\ Len(elems) = chain_len /\ chain_len \in Nat \ {0}
      /\ Adjacent(elems)
  BY CompleteChainBalanced
<1>2. PICK d \in [0 .. Len(elems) -> Int] : IsDepth(elems, d) /\ \A p : Depth(elems, p) = d[p]
  BY <1>1, DepthExists
<1>3. PICK e : IsExpressionOf(elems, e) /\ (WellFormed(elems) = e[<<1, Len(elems)>>])
  BY <1>1, ExpressionsExist
<1>4. Balanced(elems, d, 1, Len(elems))
  BY <1>1, <1>2, CompleteChainBalanced
<1>5. 1 \in 1 .. Len(elems) /\ Len(elems) \in 1 .. Len(elems)
  BY <1>1
<1>6. e[<<1, Len(elems)>>]
  BY <1>1, <1>2, <1>3, <1>4, <1>5, NestedIsExpression
<1>7. QED
  BY <1>1, <1>3, <1>6

(* Every chain that eq_generate returns is an expression of the grammar,   *)
(* whatever was drawn and however long it is (eq.c:173-274).               *)
THEOREM ChainsAreExpressions == Spec => []ChainsWellFormed
<1>1. QED
  BY WellFormedWhenDone, InitEqInv, NextEqInv, InitChainInv, NextChainInv, PTL DEF Spec

-----------------------------------------------------------------------------
(* Values: the reference and the solver                                    *)

(* A set of places that is not empty has a last one.                       *)
LEMMA LastExists ==
    ASSUME NEW a \in Int, NEW b \in Int, NEW S \in SUBSET (a .. b), S # {}
    PROVE  LastOf(S) \in S /\ \A q \in S : q <= LastOf(S)
<1>. DEFINE K == {b - p : p \in S}
<1>0. \A p \in S : b - p \in Nat
  OBVIOUS
<1>1. K \in SUBSET Nat /\ K # {}
  BY <1>0
<1>2. PICK k \in K : \A m \in K : k <= m
  <2>. HIDE DEF K
  <2>1. QED
    BY <1>1, LeastNumber
<1>3. PICK p \in S : k = b - p
  OBVIOUS
<1>4. \A q \in S : b - p <= b - q
  BY <1>2, <1>3
<1>5. \A q \in S : q <= p
  BY <1>4
<1>6. QED
  BY <1>5 DEF LastOf

(* So has a set of operators outside braces.                               *)
LEMMA SplitsIn ==
    ASSUME NEW s, NEW a \in Int, NEW b \in Int, NEW O
    PROVE  /\ Splits(s, a, b, O) \in SUBSET (a + 1 .. b - 1)
           /\ Splits(s, a, b, O) # {} =>
                 /\ LastOf(Splits(s, a, b, O)) \in Splits(s, a, b, O)
                 /\ \A q \in Splits(s, a, b, O) : q <= LastOf(Splits(s, a, b, O))
<1>1. Splits(s, a, b, O) \in SUBSET (a + 1 .. b - 1) /\ a + 1 \in Int /\ b - 1 \in Int
  BY DEF Splits
<1>2. QED
  BY <1>1, LastExists

(* The value of a part is given by the values of shorter parts.            *)
IsValueOf(s, nr, v) == v = [w \in Spans(s) |-> ValueOfSpan(s, nr, v, w[1], w[2])]

(* The value of a part depends on those of shorter parts only.             *)
LEMMA PartsShorter ==
    ASSUME NEW s, NEW n \in Nat, NEW a \in 1 .. n, NEW b \in 1 .. n, NEW O,
           NEW p, p = LastOf(Splits(s, a, b, O)), Splits(s, a, b, O) # {}
    PROVE  /\ p \in a + 1 .. b - 1
           /\ p - 1 \in 1 .. n /\ p + 1 \in 1 .. n
           /\ (p - 1) - a < b - a /\ b - (p + 1) < b - a
<1>1. p \in a + 1 .. b - 1
  BY SplitsIn
<1>2. QED
  BY <1>1

(* Two functions agree on the parts shorter than len.                      *)
AgreeBelow(f, g, n, len) == \A x, y \in 1 .. n : y - x < len => f[<<x, y>>] = g[<<x, y>>]

(* A part is worth the same to functions that agree on shorter ones.       *)
LEMMA ValueOfShorter ==
    ASSUME NEW s, NEW nr, NEW n \in Nat, NEW f, NEW g, NEW a \in 1 .. n, NEW b \in 1 .. n,
           AgreeBelow(f, g, n, b - a)
    PROVE  ValueOfSpan(s, nr, f, a, b) = ValueOfSpan(s, nr, g, a, b)
<1>0. \A x, y \in 1 .. n : y - x < b - a => f[<<x, y>>] = g[<<x, y>>]
  BY DEF AgreeBelow
<1>1. ASSUME NEW O, NEW p, p = LastOf(Splits(s, a, b, O)), Splits(s, a, b, O) # {}
      PROVE  f[<<a, p - 1>>] = g[<<a, p - 1>>] /\ f[<<p + 1, b>>] = g[<<p + 1, b>>]
  BY <1>0, <1>1, PartsShorter
<1>2. a < b => f[<<a + 1, b - 1>>] = g[<<a + 1, b - 1>>]
  <2>1. a < b => a + 1 \in 1 .. n /\ b - 1 \in 1 .. n /\ (b - 1) - (a + 1) < b - a
    OBVIOUS
  <2>2. QED
    BY <1>0, <2>1
<1>3. CASE Splits(s, a, b, {"+", "-"}) # {}
  BY <1>1, <1>3 DEF ValueOfSpan
<1>4. CASE Splits(s, a, b, {"+", "-"}) = {} /\ Splits(s, a, b, {"*"}) # {}
  BY <1>1, <1>4 DEF ValueOfSpan
<1>5. CASE Splits(s, a, b, {"+", "-"}) = {} /\ Splits(s, a, b, {"*"}) = {}
  BY <1>2, <1>5 DEF ValueOfSpan
<1>6. QED
  BY <1>3, <1>4, <1>5

(* The value of a part is a number when those of the parts are.            *)
LEMMA ValueOfInt ==
    ASSUME NEW s, NEW nr, NEW n \in Nat, \A p \in 1 .. n : nr[p] \in Int, NEW f,
           \A x, y \in 1 .. n : f[<<x, y>>] \in Int,
           NEW a \in 1 .. n, NEW b \in 1 .. n
    PROVE  ValueOfSpan(s, nr, f, a, b) \in Int
<1>1. ASSUME NEW O, NEW p, p = LastOf(Splits(s, a, b, O)), Splits(s, a, b, O) # {}
      PROVE  f[<<a, p - 1>>] \in Int /\ f[<<p + 1, b>>] \in Int
  BY <1>1, PartsShorter
<1>2. a < b => f[<<a + 1, b - 1>>] \in Int
  <2>1. a < b => a + 1 \in 1 .. n /\ b - 1 \in 1 .. n
    OBVIOUS
  <2>2. QED
    BY <2>1
<1>3. \A x, y \in Int : x * y \in Int /\ \A o : Applied(o, x, y) \in Int
  BY DEF Applied
<1>4. CASE Splits(s, a, b, {"+", "-"}) # {}
  BY <1>1, <1>3, <1>4 DEF ValueOfSpan
<1>5. CASE Splits(s, a, b, {"+", "-"}) = {} /\ Splits(s, a, b, {"*"}) # {}
  BY <1>1, <1>3, <1>5 DEF ValueOfSpan
<1>6. CASE Splits(s, a, b, {"+", "-"}) = {} /\ Splits(s, a, b, {"*"}) = {}
  BY <1>2, <1>6 DEF ValueOfSpan
<1>7. QED
  BY <1>4, <1>5, <1>6

(* ValueOf is the value of such a function for the whole chain.            *)
LEMMA ValueExists ==
    ASSUME NEW s \in Seq(Elements), NEW nr, \A p \in 1 .. Len(s) : nr[p] \in Int
    PROVE  \E v \in [Spans(s) -> Int] :
              IsValueOf(s, nr, v) /\ (Len(s) > 0 => ValueOf(s, nr) = v[<<1, Len(s)>>])
<1>. DEFINE n == Len(s)
            Good(e, k) == \A a, b \in 1 .. n : b - a + n <= k =>
                              e[<<a, b>>] = ValueOfSpan(s, nr, e, a, b)
            T == {k \in 0 .. 2 * n : \E e \in [Spans(s) -> Int] : Good(e, k)}
<1>0. n \in Nat /\ \A a, b \in 1 .. n : <<a, b>> \in Spans(s)
  BY DEF Spans
<1>x. \A w \in Spans(s) : w[1] \in 1 .. n /\ w[2] \in 1 .. n /\ w = <<w[1], w[2]>>
  BY DEF Spans
<1>y. \A p \in 1 .. n : nr[p] \in Int
  OBVIOUS
<1>. HIDE DEF n
<1>1. 0 \in T
  <2>1. [w \in Spans(s) |-> 0] \in [Spans(s) -> Int] /\ Good([w \in Spans(s) |-> 0], 0)
    <3>1. \A a, b \in 1 .. n : ~(b - a + n <= 0)
      BY <1>0
    <3>2. QED
      BY <3>1
  <2>. HIDE DEF Good
  <2>2. \E f \in [Spans(s) -> Int] : Good(f, 0)
    BY <2>1
  <2>3. QED
    BY <1>0, <2>2
<1>2. ASSUME NEW k \in 0 .. 2 * n - 1, k \in T PROVE k + 1 \in T
  <2>1. PICK f \in [Spans(s) -> Int] : Good(f, k)
    BY <1>2
  <2>. DEFINE g == [w \in Spans(s) |-> ValueOfSpan(s, nr, f, w[1], w[2])]
  <2>2. \A a, b \in 1 .. n : f[<<a, b>>] \in Int
    BY <1>0
  <2>3. g \in [Spans(s) -> Int]
    <3>1. \A a, b \in 1 .. n : ValueOfSpan(s, nr, f, a, b) \in Int
      BY <1>0, <1>y, <2>2, ValueOfInt
    <3>2. QED
      BY <1>x, <3>1
  <2>4. \A a, b \in 1 .. n : g[<<a, b>>] = ValueOfSpan(s, nr, f, a, b)
    BY <1>0
  <2>. HIDE DEF g
  <2>5. ASSUME NEW a \in 1 .. n, NEW b \in 1 .. n, b - a + n <= k
        PROVE  g[<<a, b>>] = f[<<a, b>>]
    BY <2>1, <2>4, <2>5
  <2>6. ASSUME NEW a \in 1 .. n, NEW b \in 1 .. n, b - a + n <= k + 1
        PROVE  g[<<a, b>>] = ValueOfSpan(s, nr, g, a, b)
    <3>1. \A x, y \in 1 .. n : y - x < b - a => y - x + n <= k
      BY <1>0, <2>6
    <3>2. AgreeBelow(f, g, n, b - a)
      BY <2>5, <3>1 DEF AgreeBelow
    <3>3. \A h : AgreeBelow(f, h, n, b - a) =>
                     ValueOfSpan(s, nr, f, a, b) = ValueOfSpan(s, nr, h, a, b)
      BY <1>0, ValueOfShorter
    <3>4. QED
      BY <2>4, <3>2, <3>3
  <2>7. Good(g, k + 1)
    BY <2>6
  <2>. HIDE DEF Good
  <2>8. \E h \in [Spans(s) -> Int] : Good(h, k + 1)
    BY <2>3, <2>7
  <2>9. QED
    BY <1>0, <2>8
<1>3. 2 * n \in T
  <2>. HIDE DEF T
  <2>1. 2 * n \in Nat
    BY <1>0
  <2>2. 0 .. 2 * n \subseteq T
    BY <1>1, <1>2, <2>1, UpTo
  <2>3. QED
    BY <2>1, <2>2
<1>4. PICK f \in [Spans(s) -> Int] : Good(f, 2 * n)
  BY <1>3
<1>5. \A a, b \in 1 .. n : f[<<a, b>>] = ValueOfSpan(s, nr, f, a, b)
  <2>1. \A a, b \in 1 .. n : b - a + n <= 2 * n
    BY <1>0
  <2>2. QED
    BY <1>4, <2>1
<1>6. f = [w \in Spans(s) |-> ValueOfSpan(s, nr, f, w[1], w[2])]
  <2>1. \A w \in Spans(s) : f[w] = ValueOfSpan(s, nr, f, w[1], w[2])
    BY <1>5, <1>x
  <2>2. QED
    BY <2>1
<1>. DEFINE value[w \in Spans(s)] == ValueOfSpan(s, nr, value, w[1], w[2])
<1>8. value = [w \in Spans(s) |-> ValueOfSpan(s, nr, value, w[1], w[2])]
  BY <1>6
<1>9. ValueOf(s, nr) = value[<<1, Len(s)>>]
  BY DEF ValueOf
<1>. HIDE DEF value
(* The one chosen has values in Int, too: they are those of f. *)
<1>. DEFINE U == {w \in (1 .. n) \X (1 .. n) : value[w] = f[w]}
<1>10. \A a, b \in 1 .. n : value[<<a, b>>] = ValueOfSpan(s, nr, value, a, b)
  BY <1>0, <1>8
<1>11. ASSUME NEW a \in 1 .. n, NEW b \in 1 .. n,
              \A x, y \in 1 .. n : y - x < b - a => <<x, y>> \in U
       PROVE  <<a, b>> \in U
  <2>1. AgreeBelow(f, value, n, b - a)
    BY <1>11 DEF AgreeBelow
  <2>3. ValueOfSpan(s, nr, f, a, b) = ValueOfSpan(s, nr, value, a, b)
    BY <1>0, <2>1, ValueOfShorter
  <2>4. QED
    BY <1>5, <1>10, <2>3
<1>12. \A a, b \in 1 .. n : <<a, b>> \in U
  <2>. HIDE DEF U
  <2>1. QED
    BY <1>0, <1>11, SpanInduction
<1>13. Len(s) > 0 => value[<<1, Len(s)>>] = f[<<1, Len(s)>>]
  BY <1>0, <1>12 DEF n
<1>14. QED
  BY <1>6, <1>9, <1>13 DEF IsValueOf

(* Every call leads to calls of less weight: further on in the chain, or   *)
(* of a rule below it.                                                     *)
Weight(s, c) ==
    3 * (IF c.pos <= Len(s) THEN Len(s) + 1 - c.pos ELSE 0)
      + (IF c.rule = "expression" THEN 2 ELSE IF c.rule = "term" THEN 1 ELSE 0)

(* What succeeds has gone on, and has a value.                             *)
Proper(c, o) ==
    o.what = "ok" =>
        /\ o.val \in Int
        /\ o.pos \in Nat
        /\ IF c.rule \in {"primary", "term", "expression"} THEN o.pos > c.pos ELSE o.pos >= c.pos

(* Two functions agree on the calls of less weight, which are proper.      *)
AgreeOn(s, f, g, k) ==
    \A x \in Calls : Weight(s, x) < k => f[x] = g[x] /\ Proper(x, f[x])

(* The two forms of a call are calls.                                      *)
LEMMA CallTypes ==
    ASSUME NEW r \in Rules, NEW v \in Int, NEW p \in Nat \ {0}
    PROVE  /\ From(r, p) \in Calls /\ From(r, p).rule = r /\ From(r, p).pos = p
           /\ Behind(r, v, p) \in Calls /\ Behind(r, v, p).rule = r
           /\ Behind(r, v, p).pos = p /\ Behind(r, v, p).val = v
BY DEF From, Behind, Calls

(* What a call returns is given by calls of less weight: the descent ends, *)
(* on every chain, well formed or not.                                     *)
LEMMA CalledAgrees ==
    ASSUME NEW s \in Seq(Elements), NEW nr, \A p \in 1 .. Len(s) : nr[p] \in Int,
           NEW f, NEW g, NEW c \in Calls, AgreeOn(s, f, g, Weight(s, c))
    PROVE  /\ Called(s, nr, f, c) = Called(s, nr, g, c)
           /\ Proper(c, Called(s, nr, f, c))
<1>. DEFINE n == Len(s)
            p == c.pos
<1>1. n \in Nat /\ p \in Nat /\ p # 0 /\ c.val \in Int /\ c.rule \in Rules
  BY DEF Calls
<1>2. p > n => At(s, p) = "NULL"
  BY <1>1 DEF At
<1>3. \A x \in Calls : Weight(s, x) < Weight(s, c) => f[x] = g[x] /\ Proper(x, f[x])
  BY DEF AgreeOn
<1>. HIDE DEF n, p
<1>4. CASE c.rule = "primary"
  <2>1. Called(s, nr, f, c) = Primary(s, nr, f, p) /\ Called(s, nr, g, c) = Primary(s, nr, g, p)
    BY <1>4 DEF Called, p
  <2>2. CASE IsNumber(At(s, p))
    <3>1. p <= n
      BY <1>1, <1>2, <2>2 DEF IsNumber
    <3>2. nr[p] \in Int
      BY <1>1, <3>1 DEF n
    <3>3. Primary(s, nr, f, p) = Outcome("ok", nr[p], p + 1) /\ Primary(s, nr, g, p) = Outcome("ok", nr[p], p + 1)
      <4>1. At(s, p) # "("
        BY <2>2 DEF IsNumber
      <4>2. QED
        BY <2>2, <4>1 DEF Primary
    <3>. DEFINE o == Outcome("ok", nr[p], p + 1)
    <3>4. o.val \in Int /\ o.pos = p + 1
      BY <3>2 DEF Outcome
    <3>. HIDE DEF o
    <3>5. Proper(c, o)
      BY <1>1, <3>4 DEF Proper, p
    <3>6. QED
      BY <2>1, <3>3, <3>5 DEF o
  <2>3. CASE At(s, p) = "("
    <3>1. ~IsNumber(At(s, p))
      BY <2>3 DEF IsNumber
    <3>2. p <= n
      BY <1>1, <1>2, <2>3
    <3>. DEFINE x == From("expression", p + 1)
    <3>3. x \in Calls /\ x.rule = "expression" /\ x.pos = p + 1
      BY <1>1, CallTypes DEF Rules
    <3>4. Weight(s, x) < Weight(s, c)
      BY <1>1, <1>4, <3>2, <3>3 DEF Weight, p, n
    <3>5. f[x] = g[x] /\ Proper(x, f[x])
      BY <1>3, <3>3, <3>4
    <3>6. Primary(s, nr, f, p) = IF f[x].what # "ok" THEN f[x]
                                 ELSE IF At(s, f[x].pos) = ")" THEN Outcome("ok", f[x].val, f[x].pos + 1)
                                 ELSE Fail
      BY <2>3, <3>1 DEF Primary
    <3>7. Primary(s, nr, g, p) = IF g[x].what # "ok" THEN g[x]
                                 ELSE IF At(s, g[x].pos) = ")" THEN Outcome("ok", g[x].val, g[x].pos + 1)
                                 ELSE Fail
      BY <2>3, <3>1 DEF Primary
    <3>. HIDE DEF x
    <3>8. QED
      BY <1>1, <1>4, <2>1, <3>3, <3>5, <3>6, <3>7 DEF Proper, Outcome, Fail, p
  <2>4. CASE ~IsNumber(At(s, p)) /\ At(s, p) # "("
    BY <2>1, <2>4 DEF Primary, Proper, Fail, Outcome
  <2>5. QED
    BY <2>2, <2>3, <2>4
<1>5. CASE c.rule = "term"
  <2>. DEFINE x == From("primary", p)
  <2>1. x \in Calls /\ x.rule = "primary" /\ x.pos = p
    BY <1>1, CallTypes DEF Rules
  <2>2. Called(s, nr, f, c) = (IF f[x].what = "ok" THEN f[Behind("term_rest", f[x].val, f[x].pos)] ELSE f[x])
        /\ Called(s, nr, g, c) = (IF g[x].what = "ok" THEN g[Behind("term_rest", g[x].val, g[x].pos)] ELSE g[x])
    BY <1>5 DEF Called, Term, p
  <2>. HIDE DEF x
  <2>3. Weight(s, x) < Weight(s, c)
    BY <1>1, <1>5, <2>1 DEF Weight, p, n
  <2>4. f[x] = g[x] /\ Proper(x, f[x])
    BY <1>3, <2>1, <2>3
  <2>5. CASE f[x].what = "ok"
    <3>. DEFINE y == Behind("term_rest", f[x].val, f[x].pos)
    <3>1. f[x].val \in Int /\ f[x].pos \in Nat /\ f[x].pos > p
      BY <2>1, <2>4, <2>5 DEF Proper
    <3>2. y \in Calls /\ y.rule = "term_rest" /\ y.pos = f[x].pos
      BY <1>1, <3>1, CallTypes DEF Rules
    <3>. HIDE DEF y
    <3>3. Weight(s, y) < Weight(s, c)
      BY <1>1, <1>5, <3>1, <3>2 DEF Weight, p, n
    <3>4. f[y] = g[y] /\ Proper(y, f[y])
      BY <1>3, <3>2, <3>3
    <3>5. Called(s, nr, f, c) = f[y] /\ Called(s, nr, g, c) = g[y]
      BY <2>2, <2>4, <2>5 DEF y
    <3>6. QED
      BY <1>1, <1>5, <3>1, <3>2, <3>4, <3>5 DEF Proper, p
  <2>6. CASE f[x].what # "ok"
    BY <2>2, <2>4, <2>6 DEF Proper
  <2>7. QED
    BY <2>5, <2>6
<1>6. CASE c.rule = "term_rest"
  <2>1. Called(s, nr, f, c) = TermRest(s, f, c.val, p) /\ Called(s, nr, g, c) = TermRest(s, g, c.val, p)
    BY <1>6 DEF Called, p
  <2>2. CASE At(s, p) = "*"
    <3>2. p <= n
      BY <1>1, <1>2, <2>2
    <3>. DEFINE x == From("primary", p + 1)
    <3>3. x \in Calls /\ x.rule = "primary" /\ x.pos = p + 1
      BY <1>1, CallTypes DEF Rules
    <3>4. TermRest(s, f, c.val, p) = (IF f[x].what = "ok"
             THEN f[Behind("term_rest", c.val * f[x].val, f[x].pos)] ELSE f[x])
          /\ TermRest(s, g, c.val, p) = (IF g[x].what = "ok"
             THEN g[Behind("term_rest", c.val * g[x].val, g[x].pos)] ELSE g[x])
      BY <2>2 DEF TermRest
    <3>. HIDE DEF x
    <3>5. Weight(s, x) < Weight(s, c)
      BY <1>1, <1>6, <3>2, <3>3 DEF Weight, p, n
    <3>6. f[x] = g[x] /\ Proper(x, f[x])
      BY <1>3, <3>3, <3>5
    <3>7. CASE f[x].what = "ok"
      <4>. DEFINE y == Behind("term_rest", c.val * f[x].val, f[x].pos)
      <4>1. f[x].val \in Int /\ f[x].pos \in Nat /\ f[x].pos > p + 1
        BY <3>3, <3>6, <3>7 DEF Proper
      <4>2. c.val * f[x].val \in Int
        BY <1>1, <4>1
      <4>3. y \in Calls /\ y.rule = "term_rest" /\ y.pos = f[x].pos
        BY <1>1, <4>1, <4>2, CallTypes DEF Rules
      <4>4. TermRest(s, f, c.val, p) = f[y] /\ TermRest(s, g, c.val, p) = g[y]
        BY <3>4, <3>6, <3>7
      <4>. HIDE DEF y
      <4>5. Weight(s, y) < Weight(s, c)
        BY <1>1, <1>6, <3>2, <4>1, <4>3 DEF Weight, p, n
      <4>6. f[y] = g[y] /\ Proper(y, f[y])
        BY <1>3, <4>3, <4>5
      <4>7. QED
        BY <1>1, <1>6, <2>1, <4>1, <4>3, <4>4, <4>6 DEF Proper, p
    <3>8. CASE f[x].what # "ok"
      BY <2>1, <3>4, <3>6, <3>8 DEF Proper
    <3>9. QED
      BY <3>7, <3>8
  <2>3. CASE At(s, p) \in {"+", "-", ")", "NULL"}
    <3>1. TermRest(s, f, c.val, p) = Outcome("ok", c.val, p) /\ TermRest(s, g, c.val, p) = Outcome("ok", c.val, p)
      BY <2>3 DEF TermRest
    <3>2. QED
      BY <1>1, <1>6, <2>1, <3>1 DEF Proper, Outcome, p
  <2>4. CASE At(s, p) \notin {"*", "+", "-", ")", "NULL"}
    BY <2>1, <2>4 DEF TermRest, Proper, Fail, Abort, Outcome
  <2>5. QED
    BY <2>2, <2>3, <2>4
<1>7. CASE c.rule = "expression"
  <2>. DEFINE x == From("term", p)
  <2>1. x \in Calls /\ x.rule = "term" /\ x.pos = p
    BY <1>1, CallTypes DEF Rules
  <2>2. Called(s, nr, f, c) = (IF f[x].what = "ok" THEN f[Behind("expression_rest", f[x].val, f[x].pos)] ELSE f[x])
        /\ Called(s, nr, g, c) = (IF g[x].what = "ok" THEN g[Behind("expression_rest", g[x].val, g[x].pos)] ELSE g[x])
    BY <1>7 DEF Called, Expression, p
  <2>. HIDE DEF x
  <2>3. Weight(s, x) < Weight(s, c)
    BY <1>1, <1>7, <2>1 DEF Weight, p, n
  <2>4. f[x] = g[x] /\ Proper(x, f[x])
    BY <1>3, <2>1, <2>3
  <2>5. CASE f[x].what = "ok"
    <3>. DEFINE y == Behind("expression_rest", f[x].val, f[x].pos)
    <3>1. f[x].val \in Int /\ f[x].pos \in Nat /\ f[x].pos > p
      BY <2>1, <2>4, <2>5 DEF Proper
    <3>2. y \in Calls /\ y.rule = "expression_rest" /\ y.pos = f[x].pos
      BY <1>1, <3>1, CallTypes DEF Rules
    <3>. HIDE DEF y
    <3>3. Weight(s, y) < Weight(s, c)
      BY <1>1, <1>7, <3>1, <3>2 DEF Weight, p, n
    <3>4. f[y] = g[y] /\ Proper(y, f[y])
      BY <1>3, <3>2, <3>3
    <3>5. Called(s, nr, f, c) = f[y] /\ Called(s, nr, g, c) = g[y]
      BY <2>2, <2>4, <2>5 DEF y
    <3>6. QED
      BY <1>1, <1>7, <3>1, <3>2, <3>4, <3>5 DEF Proper, p
  <2>6. CASE f[x].what # "ok"
    BY <2>2, <2>4, <2>6 DEF Proper
  <2>7. QED
    BY <2>5, <2>6
<1>8. CASE c.rule = "expression_rest"
  <2>1. Called(s, nr, f, c) = ExpressionRest(s, f, c.val, p) /\ Called(s, nr, g, c) = ExpressionRest(s, g, c.val, p)
    BY <1>8 DEF Called, p
  <2>2. CASE At(s, p) \in {"+", "-"}
    <3>2. p <= n
      BY <1>1, <1>2, <2>2
    <3>. DEFINE x == From("term", p + 1)
                val == Applied(At(s, p), c.val, f[x].val)
    <3>3. x \in Calls /\ x.rule = "term" /\ x.pos = p + 1
      BY <1>1, CallTypes DEF Rules
    <3>4. ExpressionRest(s, f, c.val, p) = (IF f[x].what = "ok"
             THEN f[Behind("expression_rest", Applied(At(s, p), c.val, f[x].val), f[x].pos)] ELSE f[x])
          /\ ExpressionRest(s, g, c.val, p) = (IF g[x].what = "ok"
             THEN g[Behind("expression_rest", Applied(At(s, p), c.val, g[x].val), g[x].pos)] ELSE g[x])
      BY <2>2 DEF ExpressionRest
    <3>. HIDE DEF x
    <3>5. Weight(s, x) < Weight(s, c)
      BY <1>1, <1>8, <3>2, <3>3 DEF Weight, p, n
    <3>6. f[x] = g[x] /\ Proper(x, f[x])
      BY <1>3, <3>3, <3>5
    <3>7. CASE f[x].what = "ok"
      <4>. DEFINE y == Behind("expression_rest", val, f[x].pos)
      <4>1. f[x].val \in Int /\ f[x].pos \in Nat /\ f[x].pos > p + 1
        BY <3>3, <3>6, <3>7 DEF Proper
      <4>2. val \in Int
        BY <1>1, <4>1 DEF Applied
      <4>4. ExpressionRest(s, f, c.val, p) = f[y] /\ ExpressionRest(s, g, c.val, p) = g[y]
        BY <3>4, <3>6, <3>7
      <4>. HIDE DEF val
      <4>3. y \in Calls /\ y.rule = "expression_rest" /\ y.pos = f[x].pos
        BY <1>1, <4>1, <4>2 DEF Behind, Calls, Rules
      <4>. HIDE DEF y
      <4>5. Weight(s, y) < Weight(s, c)
        BY <1>1, <1>8, <3>2, <4>1, <4>3 DEF Weight, p, n
      <4>6. f[y] = g[y] /\ Proper(y, f[y])
        BY <1>3, <4>3, <4>5
      <4>7. QED
        BY <1>1, <1>8, <2>1, <4>1, <4>3, <4>4, <4>6 DEF Proper, p
    <3>8. CASE f[x].what # "ok"
      BY <2>1, <3>4, <3>6, <3>8 DEF Proper
    <3>9. QED
      BY <3>7, <3>8
  <2>3. CASE At(s, p) \in {"*", ")", "NULL"}
    <3>1. ExpressionRest(s, f, c.val, p) = Outcome("ok", c.val, p) /\ ExpressionRest(s, g, c.val, p) = Outcome("ok", c.val, p)
      BY <2>3 DEF ExpressionRest
    <3>2. QED
      BY <1>1, <1>8, <2>1, <3>1 DEF Proper, Outcome, p
  <2>4. CASE At(s, p) \notin {"*", "+", "-", ")", "NULL"}
    BY <2>1, <2>4 DEF ExpressionRest, Proper, Fail, Abort, Outcome
  <2>5. QED
    BY <2>2, <2>3, <2>4
<1>9. QED
  BY <1>1, <1>4, <1>5, <1>6, <1>7, <1>8 DEF Rules

(* What the rules return to each other.                                    *)
IsParseOf(s, nr, q) == q = [c \in Calls |-> Called(s, nr, q, c)]

(* Solve is what the call of the first rule at the start returns.          *)
LEMMA ParseExists ==
    ASSUME NEW s \in Seq(Elements), NEW nr, \A p \in 1 .. Len(s) : nr[p] \in Int
    PROVE  \E q : IsParseOf(s, nr, q) /\ Solve(s, nr) = q[From("expression", 1)]
<1>. DEFINE N == 3 * Len(s) + 3
            Good(g, k) == \A c \in Calls : Weight(s, c) < k =>
                              g[c] = Called(s, nr, g, c) /\ Proper(c, g[c])
            T == {k \in 0 .. N : \E g : Good(g, k)}
<1>0. N \in Nat /\ \A c \in Calls : Weight(s, c) \in Nat /\ Weight(s, c) < N
  <2>1. Len(s) \in Nat
    OBVIOUS
  <2>2. \A c \in Calls : c.pos \in Nat /\ c.pos # 0
    BY DEF Calls
  <2>3. QED
    BY <2>1, <2>2 DEF Weight
<1>. HIDE DEF N
<1>1. 0 \in T
  <2>1. Good(s, 0)
    BY <1>0
  <2>. HIDE DEF Good
  <2>2. \E g : Good(g, 0)
    BY <2>1
  <2>3. QED
    BY <1>0, <2>2
<1>2. ASSUME NEW k \in 0 .. N - 1, k \in T PROVE k + 1 \in T
  <2>1. PICK f : Good(f, k)
    BY <1>2
  <2>. DEFINE g == [c \in Calls |-> Called(s, nr, f, c)]
  <2>2. \A c \in Calls : g[c] = Called(s, nr, f, c)
    OBVIOUS
  <2>. HIDE DEF g
  <2>3. \A c \in Calls : Weight(s, c) < k => f[c] = g[c] /\ Proper(c, f[c])
    BY <2>1, <2>2
  <2>4. ASSUME NEW c \in Calls, Weight(s, c) < k + 1
        PROVE  g[c] = Called(s, nr, g, c) /\ Proper(c, g[c])
    <3>1. \A x \in Calls : Weight(s, x) < Weight(s, c) => Weight(s, x) < k
      BY <1>0, <2>4
    <3>2. AgreeOn(s, f, g, Weight(s, c))
      BY <2>3, <3>1 DEF AgreeOn
    <3>3. Called(s, nr, f, c) = Called(s, nr, g, c) /\ Proper(c, Called(s, nr, f, c))
      BY <3>2, CalledAgrees
    <3>4. QED
      BY <2>2, <3>3
  <2>5. Good(g, k + 1)
    BY <2>4
  <2>. HIDE DEF Good
  <2>6. \E h : Good(h, k + 1)
    BY <2>5
  <2>7. QED
    BY <1>0, <2>6
<1>3. N \in T
  <2>. HIDE DEF T
  <2>1. 0 .. N \subseteq T
    BY <1>0, <1>1, <1>2, UpTo
  <2>2. QED
    BY <1>0, <2>1
<1>4. PICK f : Good(f, N)
  BY <1>3
<1>. DEFINE g == [c \in Calls |-> Called(s, nr, f, c)]
<1>5. \A c \in Calls : g[c] = Called(s, nr, f, c)
  OBVIOUS
<1>a. g = [c \in Calls |-> g[c]]
  OBVIOUS
<1>. HIDE DEF g
<1>6. \A c \in Calls : f[c] = g[c] /\ Proper(c, f[c])
  BY <1>0, <1>4, <1>5
<1>7. \A c \in Calls : AgreeOn(s, f, g, Weight(s, c))
  BY <1>6 DEF AgreeOn
<1>8. \A c \in Calls : g[c] = Called(s, nr, g, c)
  <2>. SUFFICES ASSUME NEW c \in Calls PROVE g[c] = Called(s, nr, g, c)
    OBVIOUS
  <2>1. AgreeOn(s, f, g, Weight(s, c))
    BY <1>7
  <2>2. Called(s, nr, f, c) = Called(s, nr, g, c)
    BY <2>1, CalledAgrees
  <2>3. QED
    BY <1>5, <2>2
<1>9. g = [c \in Calls |-> Called(s, nr, g, c)]
  BY <1>a, <1>8
<1>. DEFINE parse[c \in Calls] == Called(s, nr, parse, c)
<1>10. parse = [c \in Calls |-> Called(s, nr, parse, c)]
  BY <1>9
<1>11. Solve(s, nr) = parse[From("expression", 1)]
  BY DEF Solve
<1>. HIDE DEF parse
<1>12. QED
  BY <1>10, <1>11 DEF IsParseOf

(* What a part that is an expression is worth, by its last operator.       *)

ValueBy(s, d, nr, v, a, b) ==
    \/ \E p \in a + 1 .. b - 1 :
          /\ s[p] \in {"+", "-"} /\ d[p] = d[a - 1]
          /\ \A i \in p + 1 .. b - 1 : s[i] \in {"+", "-"} => d[i] # d[a - 1]
          /\ v[<<a, b>>] = Applied(s[p], v[<<a, p - 1>>], v[<<p + 1, b>>])
    \/ /\ \A i \in a + 1 .. b - 1 : s[i] \in {"+", "-"} => d[i] # d[a - 1]
       /\ \E p \in a + 1 .. b - 1 :
             /\ s[p] = "*" /\ d[p] = d[a - 1]
             /\ \A i \in p + 1 .. b - 1 : s[i] = "*" => d[i] # d[a - 1]
             /\ v[<<a, b>>] = v[<<a, p - 1>>] * v[<<p + 1, b>>]
    \/ /\ \A i \in a + 1 .. b - 1 : s[i] \in OpTokens => d[i] # d[a - 1]
       /\ v[<<a, b>>] = IF a < b THEN v[<<a + 1, b - 1>>] ELSE nr[a]

(* The reference splits at the last + or -, else at the last *.            *)
LEMMA ValuesBy ==
    ASSUME NEW s \in Seq(Elements), NEW nr, NEW v, IsValueOf(s, nr, v),
           NEW d, \A p : Depth(s, p) = d[p],
           NEW a \in 1 .. Len(s), NEW b \in 1 .. Len(s)
    PROVE  ValueBy(s, d, nr, v, a, b)
<1>. DEFINE sums == Splits(s, a, b, {"+", "-"})
            products == Splits(s, a, b, {"*"})
<1>1. v[<<a, b>>] = ValueOfSpan(s, nr, v, a, b)
  <2>1. <<a, b>> \in Spans(s)
    BY DEF Spans
  <2>2. QED
    BY <2>1 DEF IsValueOf
<1>2. \A i, O : i \in Splits(s, a, b, O) <=> i \in a + 1 .. b - 1 /\ s[i] \in O /\ d[i] = d[a - 1]
  BY DEF Splits
<1>3. a \in Int /\ b \in Int
  OBVIOUS
<1>4. CASE sums # {}
  <2>. DEFINE p == LastOf(sums)
  <2>1. p \in sums /\ \A q \in sums : q <= p
    BY <1>3, <1>4, SplitsIn
  <2>2. v[<<a, b>>] = Applied(s[p], v[<<a, p - 1>>], v[<<p + 1, b>>])
    BY <1>1, <1>4 DEF ValueOfSpan
  <2>. HIDE DEF p
  <2>3. p \in a + 1 .. b - 1 /\ s[p] \in {"+", "-"} /\ d[p] = d[a - 1]
    BY <1>2, <2>1
  <2>4. ASSUME NEW i \in p + 1 .. b - 1, s[i] \in {"+", "-"}, d[i] = d[a - 1] PROVE FALSE
    <3>1. i \in a + 1 .. b - 1 /\ ~(i <= p)
      BY <2>3
    <3>2. i \in sums
      BY <1>2, <2>4, <3>1
    <3>3. QED
      BY <2>1, <3>1, <3>2
  <2>5. QED
    BY <2>2, <2>3, <2>4 DEF ValueBy
<1>5. CASE sums = {} /\ products # {}
  <2>. DEFINE p == LastOf(products)
  <2>1. p \in products /\ \A q \in products : q <= p
    BY <1>3, <1>5, SplitsIn
  <2>2. v[<<a, b>>] = v[<<a, p - 1>>] * v[<<p + 1, b>>]
    BY <1>1, <1>5 DEF ValueOfSpan
  <2>. HIDE DEF p
  <2>3. p \in a + 1 .. b - 1 /\ s[p] = "*" /\ d[p] = d[a - 1]
    BY <1>2, <2>1
  <2>4. ASSUME NEW i \in p + 1 .. b - 1, s[i] = "*", d[i] = d[a - 1] PROVE FALSE
    <3>1. i \in a + 1 .. b - 1 /\ ~(i <= p)
      BY <2>3
    <3>2. i \in products
      BY <1>2, <2>4, <3>1
    <3>3. QED
      BY <2>1, <3>1, <3>2
  <2>5. \A i \in a + 1 .. b - 1 : s[i] \in {"+", "-"} => d[i] # d[a - 1]
    BY <1>2, <1>5
  <2>6. QED
    BY <2>2, <2>3, <2>4, <2>5 DEF ValueBy
<1>6. CASE sums = {} /\ products = {}
  <2>1. \A i \in a + 1 .. b - 1 : s[i] \in OpTokens => d[i] # d[a - 1]
    BY <1>2, <1>6 DEF OpTokens
  <2>2. v[<<a, b>>] = IF a < b THEN v[<<a + 1, b - 1>>] ELSE nr[a]
    BY <1>1, <1>6 DEF ValueOfSpan
  <2>3. QED
    BY <2>1, <2>2 DEF ValueBy
<1>7. QED
  BY <1>4, <1>5, <1>6

(* What each rule makes of what it meets.                                  *)
LEMMA FirstCalls ==
    ASSUME NEW s, NEW nr, NEW q, IsParseOf(s, nr, q), NEW p \in Nat \ {0}
    PROVE  /\ q[From("primary", p)] = Primary(s, nr, q, p)
           /\ q[From("term", p)] = Term(q, p)
           /\ q[From("expression", p)] = Expression(q, p)
<1>1. \A c \in Calls : q[c] = Called(s, nr, q, c)
  BY DEF IsParseOf
<1>2. \A r \in Rules : From(r, p) \in Calls /\ From(r, p).rule = r /\ From(r, p).pos = p
  <2>1. 0 \in Int
    OBVIOUS
  <2>2. QED
    BY <2>1, CallTypes
<1>3. q[From("primary", p)] = Primary(s, nr, q, p)
  <2>1. From("primary", p) \in Calls /\ From("primary", p).rule = "primary" /\ From("primary", p).pos = p
    BY <1>2 DEF Rules
  <2>2. QED
    BY <1>1, <2>1 DEF Called
<1>4. q[From("term", p)] = Term(q, p)
  <2>1. From("term", p) \in Calls /\ From("term", p).rule = "term" /\ From("term", p).pos = p
    BY <1>2 DEF Rules
  <2>2. QED
    BY <1>1, <2>1 DEF Called
<1>5. q[From("expression", p)] = Expression(q, p)
  <2>1. From("expression", p) \in Calls /\ From("expression", p).rule = "expression"
        /\ From("expression", p).pos = p
    BY <1>2 DEF Rules
  <2>2. QED
    BY <1>1, <2>1 DEF Called
<1>6. QED
  BY <1>3, <1>4, <1>5

(* What the loops of the two rules make of what they meet.                 *)
LEMMA LoopCalls ==
    ASSUME NEW s, NEW nr, NEW q, IsParseOf(s, nr, q), NEW p \in Nat \ {0}, NEW x \in Int
    PROVE  /\ q[Behind("term_rest", x, p)] = TermRest(s, q, x, p)
           /\ q[Behind("expression_rest", x, p)] = ExpressionRest(s, q, x, p)
<1>1. \A c \in Calls : q[c] = Called(s, nr, q, c)
  BY DEF IsParseOf
<1>2. \A r \in Rules : Behind(r, x, p) \in Calls
  BY CallTypes
<1>3. q[Behind("term_rest", x, p)] = TermRest(s, q, x, p)
  <2>. DEFINE c == Behind("term_rest", x, p)
  <2>1. c \in Calls /\ c.rule = "term_rest" /\ c.val = x /\ c.pos = p
    BY <1>2 DEF Behind, Rules
  <2>. HIDE DEF c
  <2>2. q[c] = TermRest(s, q, x, p)
    BY <1>1, <2>1 DEF Called
  <2>3. QED
    BY <2>2 DEF c
<1>4. q[Behind("expression_rest", x, p)] = ExpressionRest(s, q, x, p)
  <2>. DEFINE c == Behind("expression_rest", x, p)
  <2>1. c \in Calls /\ c.rule = "expression_rest" /\ c.val = x /\ c.pos = p
    BY <1>2 DEF Behind, Rules
  <2>. HIDE DEF c
  <2>2. q[c] = ExpressionRest(s, q, x, p)
    BY <1>1, <2>1 DEF Called
  <2>3. QED
    BY <2>2 DEF c
<1>5. QED
  BY <1>3, <1>4

(* The fields of an outcome.                                               *)
LEMMA Outcomes3 ==
    ASSUME NEW y, NEW k
    PROVE  /\ Outcome("ok", y, k).what = "ok" /\ Outcome("ok", y, k).val = y
           /\ Outcome("ok", y, k).pos = k
BY DEF Outcome

(* A number is a primary.                                                  *)
LEMMA PrimaryNumber ==
    ASSUME NEW s, NEW nr, NEW q, IsParseOf(s, nr, q), NEW p \in Nat \ {0}, At(s, p) = "nr"
    PROVE  q[From("primary", p)] = Outcome("ok", nr[p], p + 1)
BY FirstCalls DEF Primary, IsNumber, OpTokens

(* A term begins with a primary.                                           *)
LEMMA TermStarts ==
    ASSUME NEW s, NEW nr, NEW q, IsParseOf(s, nr, q), NEW p \in Nat \ {0}, NEW y, NEW k,
           q[From("primary", p)] = Outcome("ok", y, k)
    PROVE  q[From("term", p)] = q[Behind("term_rest", y, k)]
BY FirstCalls, Outcomes3 DEF Term

(* It ends before +, - and the brace, and at the end of the chain.         *)
LEMMA TermEnds ==
    ASSUME NEW s, NEW nr, NEW q, IsParseOf(s, nr, q), NEW p \in Nat \ {0}, NEW x \in Int,
           At(s, p) \in {"+", "-", ")", "NULL"}
    PROVE  q[Behind("term_rest", x, p)] = Outcome("ok", x, p)
BY LoopCalls DEF TermRest

(* An expression begins with a term.                                       *)
LEMMA ExpressionStarts ==
    ASSUME NEW s, NEW nr, NEW q, IsParseOf(s, nr, q), NEW p \in Nat \ {0}, NEW y, NEW k,
           q[From("term", p)] = Outcome("ok", y, k)
    PROVE  q[From("expression", p)] = q[Behind("expression_rest", y, k)]
BY FirstCalls, Outcomes3 DEF Expression

(* It goes on with each + or -, to the left.                               *)
LEMMA ExpressionGoesOn ==
    ASSUME NEW s, NEW nr, NEW q, IsParseOf(s, nr, q), NEW p \in Nat \ {0}, NEW x \in Int,
           NEW y, NEW k, At(s, p) \in {"+", "-"}, q[From("term", p + 1)] = Outcome("ok", y, k)
    PROVE  q[Behind("expression_rest", x, p)]
              = q[Behind("expression_rest", Applied(At(s, p), x, y), k)]
BY LoopCalls, Outcomes3 DEF ExpressionRest

(* It ends before the brace and at the end of the chain.                   *)
LEMMA ExpressionEnds ==
    ASSUME NEW s, NEW nr, NEW q, IsParseOf(s, nr, q), NEW p \in Nat \ {0}, NEW x \in Int,
           At(s, p) \in {")", "NULL"}
    PROVE  q[Behind("expression_rest", x, p)] = Outcome("ok", x, p)
BY LoopCalls DEF ExpressionRest

(* What the three rules make of a part that is an expression: a primary is *)
(* one without operators outside braces, a term one without + and -; the   *)
(* loops go on behind it with its value.                                   *)
(* Between a and b no operator of O stands outside braces.                 *)
Flat(s, d, a, b, O) == \A i \in a + 1 .. b - 1 : s[i] \in O => d[i] # d[a - 1]

(* What the rules make of an expression at a .. b.                         *)
Parsed(s, d, v, q, a, b) ==
    /\ Flat(s, d, a, b, OpTokens) =>
          q[From("primary", a)] = Outcome("ok", v[<<a, b>>], b + 1)
    /\ Flat(s, d, a, b, {"+", "-"}) =>
          q[From("term", a)] = q[Behind("term_rest", v[<<a, b>>], b + 1)]
    /\ At(s, b + 1) \in {"+", "-", ")", "NULL"} =>
          q[From("expression", a)] = q[Behind("expression_rest", v[<<a, b>>], b + 1)]

(* By induction over the length of the part: the last operator outside     *)
(* braces is where the loops come last.                                    *)
LEMMA PartsParsed ==
    ASSUME NEW s \in Seq(Elements), NEW nr, NEW nv, NEW e, NEW d \in [0 .. Len(s) -> Int],
           NEW v \in [Spans(s) -> Int], NEW q,
           IsExpressionOf(s, e), IsDepth(s, d), \A p : Depth(s, p) = d[p],
           IsValueOf(s, nv, v), IsParseOf(s, nr, q),
           \A p \in 1 .. Len(s) : s[p] = "nr" => nr[p] = nv[p]
    PROVE  \A a, b \in 1 .. Len(s) : e[<<a, b>>] => Parsed(s, d, v, q, a, b)
<1>. DEFINE n == Len(s)
            T == {w \in (1 .. n) \X (1 .. n) : e[w] => Parsed(s, d, v, q, w[1], w[2])}
<1>1. n \in Nat /\ \A i \in 1 .. n : At(s, i) = s[i] /\ i \in Nat \ {0} /\ s[i] \in Elements
  BY ElementKinds
<1>2. \A i, j \in 1 .. n : v[<<i, j>>] \in Int
  BY DEF Spans
<1>3. ASSUME NEW a \in 1 .. n, NEW b \in 1 .. n,
             \A i, j \in 1 .. n : j - i < b - a => (e[<<i, j>>] => Parsed(s, d, v, q, i, j)),
             e[<<a, b>>]
      PROVE  Parsed(s, d, v, q, a, b)
  <2>1. ExpressionSpan(s, e, a, b) /\ SplitsAt(s, e, d, a, b) /\ Balanced(s, d, a, b)
    BY <1>3, Unfold, ExpressionsSplit, ExpressionsBalanced
  <2>2. ValueBy(s, d, nv, v, a, b)
    BY ValuesBy
  <2>3. b + 1 \in Nat \ {0} /\ a \in Nat \ {0} /\ v[<<a, b>>] \in Int
    BY <1>2
  <2>y. \A p \in a + 1 .. b - 1 : p \in 1 .. n /\ p - 1 \in 1 .. n /\ p + 1 \in 1 .. n
            /\ (p - 1) - a < b - a /\ b - (p + 1) < b - a /\ (p - 1) + 1 = p /\ (p + 1) - 1 = p
    BY <1>1
  <2>. HIDE DEF n
  (* Without a sum, an expression is a term. *)
  <2>4. ASSUME q[From("term", a)] = q[Behind("term_rest", v[<<a, b>>], b + 1)],
               At(s, b + 1) \in {"+", "-", ")", "NULL"}
        PROVE  q[From("expression", a)] = q[Behind("expression_rest", v[<<a, b>>], b + 1)]
    <3>1. q[Behind("term_rest", v[<<a, b>>], b + 1)] = Outcome("ok", v[<<a, b>>], b + 1)
      BY <2>3, <2>4, TermEnds
    <3>2. q[From("term", a)] = Outcome("ok", v[<<a, b>>], b + 1)
      BY <2>4, <3>1
    <3>3. QED
      BY <2>3, <3>2, ExpressionStarts
  <2>5. CASE \E p \in a + 1 .. b - 1 :
                /\ s[p] \in {"+", "-"} /\ d[p] = d[a - 1]
                /\ \A i \in p + 1 .. b - 1 : s[i] \in {"+", "-"} => d[i] # d[a - 1]
                /\ v[<<a, b>>] = Applied(s[p], v[<<a, p - 1>>], v[<<p + 1, b>>])
    <3>1. PICK p \in a + 1 .. b - 1 :
                /\ s[p] \in {"+", "-"} /\ d[p] = d[a - 1]
                /\ \A i \in p + 1 .. b - 1 : s[i] \in {"+", "-"} => d[i] # d[a - 1]
                /\ v[<<a, b>>] = Applied(s[p], v[<<a, p - 1>>], v[<<p + 1, b>>])
      BY <2>5
    <3>2. p \in 1 .. n /\ p - 1 \in 1 .. n /\ p + 1 \in 1 .. n
          /\ (p - 1) - a < b - a /\ b - (p + 1) < b - a /\ (p - 1) + 1 = p /\ (p + 1) - 1 = p
      BY <2>y
    <3>3. e[<<a, p - 1>>] /\ e[<<p + 1, b>>]
      BY <2>1, <3>1 DEF SplitsAt, OpTokens
    <3>4. Parsed(s, d, v, q, a, p - 1) /\ Parsed(s, d, v, q, p + 1, b)
      BY <1>3, <3>2, <3>3
    <3>5. At(s, p) = s[p] /\ p \in Nat \ {0} /\ v[<<a, p - 1>>] \in Int /\ v[<<p + 1, b>>] \in Int
      BY <1>1, <1>2, <3>2
    <3>6. q[From("expression", a)] = q[Behind("expression_rest", v[<<a, p - 1>>], p)]
      BY <3>1, <3>2, <3>4, <3>5 DEF Parsed
    <3>7. Flat(s, d, p + 1, b, {"+", "-"})
      <4>1. \A i \in (p + 1) + 1 .. b - 1 : i \in p + 1 .. b - 1
        OBVIOUS
      <4>2. QED
        BY <3>1, <3>2, <4>1 DEF Flat
    <3>8. q[From("term", p + 1)] = q[Behind("term_rest", v[<<p + 1, b>>], b + 1)]
      BY <3>4, <3>7 DEF Parsed
    <3>9. ~Flat(s, d, a, b, {"+", "-"}) /\ ~Flat(s, d, a, b, OpTokens)
      BY <3>1 DEF Flat, OpTokens
    <3>10. ASSUME At(s, b + 1) \in {"+", "-", ")", "NULL"}
           PROVE  q[From("expression", a)] = q[Behind("expression_rest", v[<<a, b>>], b + 1)]
      <4>1. q[Behind("term_rest", v[<<p + 1, b>>], b + 1)] = Outcome("ok", v[<<p + 1, b>>], b + 1)
        BY <2>3, <3>5, <3>10, TermEnds
      <4>2. q[From("term", p + 1)] = Outcome("ok", v[<<p + 1, b>>], b + 1)
        BY <3>8, <4>1
      <4>3. q[Behind("expression_rest", v[<<a, p - 1>>], p)]
              = q[Behind("expression_rest", Applied(s[p], v[<<a, p - 1>>], v[<<p + 1, b>>]), b + 1)]
        BY <3>1, <3>5, <4>2, ExpressionGoesOn
      <4>4. QED
        BY <3>1, <3>6, <4>3
    <3>11. QED
      BY <3>9, <3>10 DEF Parsed
  <2>6. CASE /\ \A i \in a + 1 .. b - 1 : s[i] \in {"+", "-"} => d[i] # d[a - 1]
             /\ \E p \in a + 1 .. b - 1 :
                   /\ s[p] = "*" /\ d[p] = d[a - 1]
                   /\ \A i \in p + 1 .. b - 1 : s[i] = "*" => d[i] # d[a - 1]
                   /\ v[<<a, b>>] = v[<<a, p - 1>>] * v[<<p + 1, b>>]
    <3>1. PICK p \in a + 1 .. b - 1 :
                   /\ s[p] = "*" /\ d[p] = d[a - 1]
                   /\ \A i \in p + 1 .. b - 1 : s[i] = "*" => d[i] # d[a - 1]
                   /\ v[<<a, b>>] = v[<<a, p - 1>>] * v[<<p + 1, b>>]
      BY <2>6
    <3>2. p \in 1 .. n /\ p - 1 \in 1 .. n /\ p + 1 \in 1 .. n
          /\ (p - 1) - a < b - a /\ b - (p + 1) < b - a /\ (p - 1) + 1 = p /\ (p + 1) - 1 = p
      BY <2>y
    <3>3. e[<<a, p - 1>>] /\ e[<<p + 1, b>>]
      BY <2>1, <3>1 DEF SplitsAt, OpTokens
    <3>4. Parsed(s, d, v, q, a, p - 1) /\ Parsed(s, d, v, q, p + 1, b)
      BY <1>3, <3>2, <3>3
    <3>5. At(s, p) = s[p] /\ p \in Nat \ {0} /\ v[<<a, p - 1>>] \in Int /\ v[<<p + 1, b>>] \in Int
      BY <1>1, <1>2, <3>2
    <3>6. Flat(s, d, a, p - 1, {"+", "-"})
      <4>1. \A i \in a + 1 .. (p - 1) - 1 : i \in a + 1 .. b - 1
        OBVIOUS
      <4>2. QED
        BY <2>6, <4>1 DEF Flat
    <3>7. q[From("term", a)] = q[Behind("term_rest", v[<<a, p - 1>>], p)]
      BY <3>2, <3>4, <3>6 DEF Parsed
    <3>8. Flat(s, d, p + 1, b, OpTokens)
      <4>1. \A i \in (p + 1) + 1 .. b - 1 : i \in p + 1 .. b - 1 /\ i \in a + 1 .. b - 1
        OBVIOUS
      <4>2. QED
        BY <2>6, <3>1, <3>2, <4>1 DEF Flat, OpTokens
    <3>9. q[From("primary", p + 1)] = Outcome("ok", v[<<p + 1, b>>], b + 1)
      BY <3>4, <3>8 DEF Parsed
    <3>10. q[Behind("term_rest", v[<<a, p - 1>>], p)]
              = q[Behind("term_rest", v[<<a, p - 1>>] * v[<<p + 1, b>>], b + 1)]
      <4>1. At(s, p) = "*" /\ p \in Nat \ {0}
        BY <3>1, <3>5
      <4>2. PICK x \in Int, y \in Int : x = v[<<a, p - 1>>] /\ y = v[<<p + 1, b>>]
        BY <3>5
      <4>3. q[From("primary", p + 1)] = Outcome("ok", y, b + 1)
        BY <3>9, <4>2
      <4>4. q[Behind("term_rest", x, p)] = TermRest(s, q, x, p)
        BY <4>1, LoopCalls
      <4>. DEFINE o == q[From("primary", p + 1)]
      <4>5. o.what = "ok" /\ o.val = y /\ o.pos = b + 1
        BY <4>3, Outcomes3
      <4>6. TermRest(s, q, x, p) = IF o.what = "ok" THEN q[Behind("term_rest", x * o.val, o.pos)]
                                   ELSE o
        BY <4>1 DEF TermRest
      <4>. HIDE DEF o
      <4>7. TermRest(s, q, x, p) = q[Behind("term_rest", x * y, b + 1)]
        BY <4>5, <4>6
      <4>8. QED
        BY <4>2, <4>4, <4>7
    <3>11. q[From("term", a)] = q[Behind("term_rest", v[<<a, b>>], b + 1)]
      BY <3>1, <3>7, <3>10
    <3>12. ~Flat(s, d, a, b, OpTokens)
      BY <3>1 DEF Flat, OpTokens
    <3>13. QED
      BY <2>4, <3>11, <3>12 DEF Parsed
  <2>7. CASE /\ \A i \in a + 1 .. b - 1 : s[i] \in OpTokens => d[i] # d[a - 1]
             /\ v[<<a, b>>] = IF a < b THEN v[<<a + 1, b - 1>>] ELSE nv[a]
    <3>1. q[From("primary", a)] = Outcome("ok", v[<<a, b>>], b + 1)
      <4>1. ~\E p \in a + 1 .. b - 1 : s[p] \in OpTokens /\ e[<<a, p - 1>>] /\ e[<<p + 1, b>>]
        <5>. SUFFICES ASSUME NEW p \in a + 1 .. b - 1, s[p] \in OpTokens, e[<<a, p - 1>>]
                      PROVE  FALSE
          OBVIOUS
        <5>1. p \in 1 .. n /\ p - 1 \in 1 .. n
          BY <2>y
        <5>2. d[p - 1] = d[a - 1]
          <6>1. Balanced(s, d, a, p - 1)
            BY <5>1, ExpressionsBalanced DEF n
          <6>2. QED
            BY <6>1 DEF Balanced
        <5>3. d[p] = d[p - 1] + Opens(s[p]) /\ d[p - 1] \in Int
          <6>1. p \in 0 .. Len(s) /\ p # 0 /\ p - 1 \in 0 .. Len(s)
            BY <1>1, <5>1 DEF n
          <6>2. QED
            BY <6>1 DEF IsDepth
        <5>4. Opens(s[p]) = 0
          BY DEF Opens, OpTokens
        <5>5. QED
          BY <2>7, <5>2, <5>3, <5>4
      <4>2. CASE a = b /\ IsNumber(s[a])
        <5>1. s[a] = "nr"
          BY <1>1, <4>2 DEF IsNumber, OpTokens, Elements
        <5>2. v[<<a, b>>] = nr[a]
          BY <2>7, <4>2, <5>1 DEF n
        <5>3. At(s, a) = "nr"
          BY <1>1, <5>1
        <5>4. QED
          BY <2>3, <4>2, <5>2, <5>3, PrimaryNumber
      <4>3. CASE a < b /\ s[a] = "(" /\ s[b] = ")" /\ e[<<a + 1, b - 1>>]
        <5>1. a + 1 \in 1 .. n /\ b - 1 \in 1 .. n /\ (b - 1) - (a + 1) < b - a /\ (b - 1) + 1 = b
          BY <1>1, <4>3
        <5>2. Parsed(s, d, v, q, a + 1, b - 1)
          BY <1>3, <4>3, <5>1
        <5>3. At(s, a) = "(" /\ At(s, b) = ")" /\ b \in Nat \ {0}
          BY <1>1, <4>3
        <5>4. q[From("expression", a + 1)] = q[Behind("expression_rest", v[<<a, b>>], b)]
          BY <2>7, <4>3, <5>1, <5>2, <5>3 DEF Parsed
        <5>5. q[From("expression", a + 1)] = Outcome("ok", v[<<a, b>>], b)
          BY <2>3, <5>3, <5>4, ExpressionEnds
        <5>6. q[From("primary", a)] = Primary(s, nr, q, a)
          BY <2>3, FirstCalls
        <5>. DEFINE o == q[From("expression", a + 1)]
        <5>7. o.what = "ok" /\ o.val = v[<<a, b>>] /\ o.pos = b
          BY <5>5, Outcomes3
        <5>8. ~IsNumber(At(s, a))
          BY <5>3 DEF IsNumber
        <5>. HIDE DEF o
        <5>9. Primary(s, nr, q, a) = Outcome("ok", o.val, o.pos + 1)
          BY <5>3, <5>7, <5>8 DEF Primary, o
        <5>10. QED
          BY <5>6, <5>7, <5>9
      <4>4. \/ a = b /\ IsNumber(s[a])
            \/ a < b /\ s[a] = "(" /\ s[b] = ")" /\ e[<<a + 1, b - 1>>]
        BY <2>1, <4>1, Zenon DEF ExpressionSpan
      <4>5. QED
        BY <4>2, <4>3, <4>4
    <3>2. q[From("term", a)] = q[Behind("term_rest", v[<<a, b>>], b + 1)]
      BY <2>3, <3>1, TermStarts
    <3>3. QED
      BY <2>4, <3>1, <3>2 DEF Parsed
  <2>8. QED
    BY <2>2, <2>5, <2>6, <2>7 DEF ValueBy
<1>4. ASSUME NEW a \in 1 .. n, NEW b \in 1 .. n,
             \A x, y \in 1 .. n : y - x < b - a => <<x, y>> \in T
      PROVE  <<a, b>> \in T
  <2>1. \A x, y \in 1 .. n : y - x < b - a => (e[<<x, y>>] => Parsed(s, d, v, q, x, y))
    BY <1>4
  <2>2. e[<<a, b>>] => Parsed(s, d, v, q, a, b)
    BY <1>3, <2>1
  <2>3. QED
    BY <2>2
<1>5. \A a, b \in 1 .. n : <<a, b>> \in T
  <2>. HIDE DEF T, n
  <2>1. QED
    BY <1>1, <1>4, SpanInduction
<1>6. QED
  BY <1>5

(* eq_solve finds the value of an expression that uses the whole chain.    *)
(* Where a chain has a number, nr and nv have the same.                    *)
SameNumbers(s, nr, nv) ==
    \A p \in 1 .. Len(s) : /\ nr[p] \in Int /\ nv[p] \in Int
                           /\ s[p] = "nr" => nr[p] = nv[p]

LEMMA SolvesExpressions ==
    ASSUME NEW s \in Seq(Elements), Len(s) > 0, WellFormed(s), NEW nr, NEW nv,
           SameNumbers(s, nr, nv)
    PROVE  Solve(s, nr) = Outcome("ok", ValueOf(s, nv), Len(s) + 1)
<1>0. /\ \A p \in 1 .. Len(s) : nr[p] \in Int
      /\ \A p \in 1 .. Len(s) : nv[p] \in Int
      /\ \A p \in 1 .. Len(s) : s[p] = "nr" => nr[p] = nv[p]
  BY DEF SameNumbers
<1>1. PICK d \in [0 .. Len(s) -> Int] : IsDepth(s, d) /\ \A p : Depth(s, p) = d[p]
  BY DepthExists
<1>2. PICK e : IsExpressionOf(s, e) /\ (WellFormed(s) = e[<<1, Len(s)>>])
  BY ExpressionsExist
<1>3. PICK v \in [Spans(s) -> Int] :
          IsValueOf(s, nv, v) /\ (Len(s) > 0 => ValueOf(s, nv) = v[<<1, Len(s)>>])
  BY <1>0, ValueExists
<1>4. PICK q : IsParseOf(s, nr, q) /\ Solve(s, nr) = q[From("expression", 1)]
  BY <1>0, ParseExists
<1>5. 1 \in 1 .. Len(s) /\ Len(s) \in 1 .. Len(s) /\ <<1, Len(s)>> \in Spans(s)
      /\ Len(s) + 1 \in Nat \ {0} /\ At(s, Len(s) + 1) = "NULL"
  BY DEF Spans, At
<1>6. e[<<1, Len(s)>>]
  BY <1>2
<1>7. Parsed(s, d, v, q, 1, Len(s))
  BY <1>0, <1>1, <1>2, <1>3, <1>4, <1>5, <1>6, PartsParsed
<1>8. q[From("expression", 1)] = q[Behind("expression_rest", v[<<1, Len(s)>>], Len(s) + 1)]
  BY <1>5, <1>7 DEF Parsed
<1>9. v[<<1, Len(s)>>] \in Int
  BY <1>5
<1>10. q[Behind("expression_rest", v[<<1, Len(s)>>], Len(s) + 1)]
          = Outcome("ok", v[<<1, Len(s)>>], Len(s) + 1)
  BY <1>4, <1>5, <1>9, ExpressionEnds
<1>11. QED
  BY <1>3, <1>4, <1>8, <1>10

-----------------------------------------------------------------------------
(* The text of a chain: numbers and their digits                           *)

DigitChars == {Digit[d] : d \in 1 .. 10}

(* A digit has one value.                                                  *)
LEMMA DigitsAreDigits ==
    /\ \A c : IsDigit(c) <=> c \in DigitChars
    /\ \A m \in 0 .. 9 : Digit[m + 1] \in DigitChars /\ ValueOfDigit(Digit[m + 1]) = m
    /\ \A c \in DigitChars : ValueOfDigit(c) \in 0 .. 9
<1>1. \A c : IsDigit(c) <=> c \in DigitChars
  BY DEF IsDigit, DigitChars
<1>2. \A d, e \in 1 .. 10 : Digit[d] = Digit[e] => d = e
  BY DEF Digit
<1>3. ASSUME NEW m \in 0 .. 9
      PROVE  Digit[m + 1] \in DigitChars /\ ValueOfDigit(Digit[m + 1]) = m
  <2>1. m + 1 \in 1 .. 10
    OBVIOUS
  <2>2. \A d \in 1 .. 10 : Digit[d] = Digit[m + 1] <=> d = m + 1
    BY <1>2, <2>1
  <2>. DEFINE c == Digit[m + 1]
  <2>3. c \in DigitChars
    BY <2>1 DEF DigitChars
  <2>. HIDE DEF c
  <2>4. \A d \in 1 .. 10 : Digit[d] = c <=> d = m + 1
    BY <2>2 DEF c
  <2>5. (CHOOSE d \in 1 .. 10 : Digit[d] = c) = m + 1
    BY <2>1, <2>4
  <2>6. ValueOfDigit(c) = (m + 1) - 1
    BY <2>5, Zenon DEF ValueOfDigit
  <2>7. QED
    BY <2>3, <2>6 DEF c
<1>4. ASSUME NEW c \in DigitChars PROVE ValueOfDigit(c) \in 0 .. 9
  <2>1. PICK d \in 1 .. 10 : c = Digit[d]
    BY DEF DigitChars
  <2>2. d - 1 \in 0 .. 9 /\ (d - 1) + 1 = d
    OBVIOUS
  <2>3. QED
    BY <1>3, <2>1, <2>2
<1>5. QED
  BY <1>1, <1>3, <1>4

(* Division by ten.                                                        *)
LEMMA Tenth ==
    ASSUME NEW m \in Nat
    PROVE  /\ m \div 10 \in Nat /\ m % 10 \in 0 .. 9 /\ 10 * (m \div 10) + (m % 10) = m
           /\ m # 0 => m \div 10 < m
           /\ m < 10 <=> m \div 10 = 0
OBVIOUS

(* The digits of a number are given by those of a tenth of it.             *)
IsDigitsTo(n, d) ==
    d = [m \in 0 .. n |-> IF m < 10 THEN <<Digit[m + 1]>>
                          ELSE Append(d[m \div 10], Digit[(m % 10) + 1])]

(* Digits has the values of such a function.                               *)
LEMMA DigitsExist ==
    ASSUME NEW n \in Nat
    PROVE  \E d : IsDigitsTo(n, d) /\ Digits(n) = d[n]
           /\ \A m \in 0 .. n : d[m] \in Seq(DigitChars) /\ d[m] # <<>>
<1>. DEFINE V == [0 .. n -> Seq(DigitChars)]
            Body(f, m) == IF m < 10 THEN <<Digit[m + 1]>>
                          ELSE Append(f[m \div 10], Digit[(m % 10) + 1])
            G == [f \in V |-> [m \in 0 .. n |-> Body(f, m)]]
<1>1. \A m \in 0 .. n : ~(m < 10) => m \div 10 \in 0 .. m - 1 /\ m \div 10 \in 0 .. n
  BY Tenth
<1>2. \A m \in 0 .. n : /\ m < 10 => Digit[m + 1] \in DigitChars
                        /\ Digit[(m % 10) + 1] \in DigitChars
  BY DigitsAreDigits, Tenth
<1>3. \A f \in V : \A m \in 0 .. n : Body(f, m) \in Seq(DigitChars)
  BY <1>1, <1>2
<1>4. \A f, g \in V : \A m \in 0 .. n :
         (\A j \in 0 .. m - 1 : f[j] = g[j]) => Body(f, m) = Body(g, m)
  BY <1>1
<1>. HIDE DEF Body
<1>6. G \in [V -> V]
  BY <1>3
<1>7. \A f \in V : G[f] = [m \in 0 .. n |-> Body(f, m)]
  OBVIOUS
<1>8. Causal(n, Seq(DigitChars), G)
  <2>1. <<>> \in Seq(DigitChars)
    OBVIOUS
  <2>2. QED
    BY <1>4, <1>6, <1>7, <2>1 DEF Causal
<1>9. \E f \in V : f = G[f]
  <2>. HIDE DEF G
  <2>1. QED
    BY <1>8, FixedPoint
<1>10. \E f : f = [m \in 0 .. n |-> Body(f, m)]
  BY <1>7, <1>9
<1>. DEFINE digits[m \in 0 .. n] == IF m < 10 THEN <<Digit[m + 1]>>
                                    ELSE Append(digits[m \div 10], Digit[(m % 10) + 1])
<1>11. digits = [m \in 0 .. n |-> Body(digits, m)]
  BY <1>10 DEF Body
<1>12. Digits(n) = digits[n]
  BY DEF Digits
<1>. HIDE DEF digits
<1>. DEFINE T == {m \in 0 .. n : digits[m] \in Seq(DigitChars) /\ digits[m] # <<>>}
<1>13. ASSUME NEW m \in 0 .. n, \A j \in 0 .. m - 1 : j \in T PROVE m \in T
  <2>1. digits[m] = Body(digits, m)
    BY <1>11
  <2>2. CASE m < 10
    <3>1. digits[m] = <<Digit[m + 1]>>
      BY <2>1, <2>2 DEF Body
    <3>2. Digit[m + 1] \in DigitChars
      BY <1>2, <2>2
    <3>3. <<Digit[m + 1]>> \in Seq(DigitChars) /\ <<Digit[m + 1]>> # <<>>
      BY <3>2
    <3>4. QED
      BY <3>1, <3>3
  <2>3. CASE ~(m < 10)
    <3>1. digits[m \div 10] \in Seq(DigitChars)
      BY <1>1, <1>13, <2>3
    <3>2. digits[m] = Append(digits[m \div 10], Digit[(m % 10) + 1])
      BY <2>1, <2>3 DEF Body
    <3>3. Digit[(m % 10) + 1] \in DigitChars
      BY <1>2
    <3>4. digits[m] \in Seq(DigitChars) /\ digits[m] # <<>>
      <4>. DEFINE x == digits[m \div 10]
                  y == Digit[(m % 10) + 1]
      <4>1. x \in Seq(DigitChars) /\ y \in DigitChars /\ digits[m] = Append(x, y)
        BY <3>1, <3>2, <3>3
      <4>. HIDE DEF x, y
      <4>2. QED
        BY <4>1
    <3>5. QED
      BY <3>4
  <2>4. QED
    BY <2>2, <2>3
<1>14. 0 .. n \subseteq T
  <2>. HIDE DEF T
  <2>1. QED
    BY <1>13, Below
<1>15. IsDigitsTo(n, digits)
  BY <1>11 DEF IsDigitsTo, Body
<1>16. QED
  BY <1>12, <1>14, <1>15

(* So is the number of divisions that int_len counts.                      *)
IsLengthTo(n, f) == f = [t \in 0 .. n |-> IF t = 0 THEN 0 ELSE f[t \div 10] + 1]

(* int_len has the values of such a function.                              *)
LEMMA LengthsExist ==
    ASSUME NEW n \in Nat
    PROVE  \E f : IsLengthTo(n, f) /\ (n # 0 => int_len(n) = f[n])
<1>. DEFINE V == [0 .. n -> Int]
            Body(f, t) == IF t = 0 THEN 0 ELSE f[t \div 10] + 1
            G == [f \in V |-> [t \in 0 .. n |-> Body(f, t)]]
<1>1. \A t \in 0 .. n : t # 0 => t \div 10 \in 0 .. t - 1 /\ t \div 10 \in 0 .. n
  BY Tenth
<1>2. \A f \in V : \A t \in 0 .. n : Body(f, t) \in Int
  BY <1>1
<1>3. \A f, g \in V : \A t \in 0 .. n :
         (\A j \in 0 .. t - 1 : f[j] = g[j]) => Body(f, t) = Body(g, t)
  BY <1>1
<1>. HIDE DEF Body
<1>4. G \in [V -> V] /\ \A f \in V : G[f] = [t \in 0 .. n |-> Body(f, t)]
  BY <1>2
<1>5. Causal(n, Int, G)
  <2>1. 0 \in Int
    OBVIOUS
  <2>2. QED
    BY <1>3, <1>4, <2>1 DEF Causal
<1>6. \E f \in V : f = G[f]
  <2>. HIDE DEF G
  <2>1. QED
    BY <1>5, FixedPoint
<1>7. \E f : f = [t \in 0 .. n |-> Body(f, t)]
  BY <1>4, <1>6
<1>. DEFINE divisions[t \in 0 .. n] == IF t = 0 THEN 0 ELSE divisions[t \div 10] + 1
<1>8. divisions = [t \in 0 .. n |-> Body(divisions, t)]
  BY <1>7 DEF Body
<1>9. n # 0 => int_len(n) = divisions[n]
  BY DEF int_len
<1>. HIDE DEF divisions
<1>10. IsLengthTo(n, divisions)
  BY <1>8 DEF IsLengthTo, Body
<1>11. QED
  BY <1>9, <1>10

(* eq_calc_str_size counts as many bytes for a number as it has digits.    *)
LEMMA LengthOfDigits ==
    ASSUME NEW n \in Nat
    PROVE  Digits(n) \in Seq(DigitChars) /\ int_len(n) = Len(Digits(n)) /\ Len(Digits(n)) \in Nat \ {0}
<1>1. PICK d : IsDigitsTo(n, d) /\ Digits(n) = d[n]
               /\ \A m \in 0 .. n : d[m] \in Seq(DigitChars) /\ d[m] # <<>>
  BY DigitsExist
<1>2. PICK f : IsLengthTo(n, f) /\ (n # 0 => int_len(n) = f[n])
  BY LengthsExist
<1>3. \A m \in 0 .. n :
         /\ m < 10 => d[m] = <<Digit[m + 1]>>
         /\ ~(m < 10) => d[m] = Append(d[m \div 10], Digit[(m % 10) + 1])
  BY <1>1 DEF IsDigitsTo
<1>4. \A m \in 0 .. n : f[m] = IF m = 0 THEN 0 ELSE f[m \div 10] + 1
  BY <1>2 DEF IsLengthTo
<1>5. \A m \in 0 .. n : Len(d[m]) \in Nat \ {0}
  BY <1>1
<1>. DEFINE T == {m \in 0 .. n : m # 0 => f[m] = Len(d[m])}
<1>6. ASSUME NEW m \in 0 .. n, \A j \in 0 .. m - 1 : j \in T PROVE m \in T
  <2>. SUFFICES ASSUME m # 0 PROVE f[m] = Len(d[m])
    OBVIOUS
  <2>1. m \in Nat /\ f[m] = f[m \div 10] + 1 /\ m \div 10 \in 0 .. n /\ m \div 10 \in 0 .. m - 1
    BY <1>4, Tenth
  <2>2. CASE m < 10
    <3>1. m \div 10 = 0 /\ 0 \in 0 .. n
      BY <2>1, <2>2, Tenth
    <3>2. f[0] = 0
      BY <1>4, <3>1
    <3>3. Len(d[m]) = 1
      <4>1. d[m] = <<Digit[m + 1]>>
        BY <1>3, <2>2
      <4>2. \A x : Len(<<x>>) = 1
        OBVIOUS
      <4>3. QED
        BY <4>1, <4>2
    <3>4. QED
      BY <2>1, <3>1, <3>2, <3>3
  <2>3. CASE ~(m < 10)
    <3>1. m \div 10 # 0
      BY <2>1, <2>3, Tenth
    <3>2. f[m \div 10] = Len(d[m \div 10])
      BY <1>6, <2>1, <3>1
    <3>3. d[m] = Append(d[m \div 10], Digit[(m % 10) + 1]) /\ d[m \div 10] \in Seq(DigitChars)
      BY <1>1, <1>3, <2>1, <2>3
    <3>4. Len(d[m]) = Len(d[m \div 10]) + 1
      BY <3>3
    <3>5. QED
      BY <2>1, <3>2, <3>4
  <2>4. QED
    BY <2>2, <2>3
<1>7. 0 .. n \subseteq T
  <2>. HIDE DEF T
  <2>1. QED
    BY <1>6, Below
<1>8. n \in 0 .. n
  OBVIOUS
<1>9. CASE n = 0
  <2>1. d[n] = <<Digit[n + 1]>>
    BY <1>3, <1>8, <1>9
  <2>2. int_len(n) = 1
    BY <1>9 DEF int_len
  <2>3. QED
    BY <1>1, <1>5, <1>8, <2>1, <2>2
<1>10. CASE n # 0
  <2>1. int_len(n) = Len(d[n])
    BY <1>2, <1>7, <1>8, <1>10
  <2>2. QED
    BY <1>1, <1>5, <1>8, <2>1
<1>11. QED
  BY <1>9, <1>10

(* The reader of a text                                                    *)

TextChars == DigitChars \cup Elements
Reading == [elems : Seq(TextChars), nr : Seq(Int)]

(* What the next character of a text makes of what is read before it.      *)
NextRead(text, r, i) ==
    IF ~IsDigit(text[i])
    THEN [elems |-> Append(r.elems, text[i]), nr |-> Append(r.nr, 0)]
    ELSE IF i > 1 /\ IsDigit(text[i - 1])
    THEN [r EXCEPT !.nr[Len(r.nr)] = 10 * @ + ValueOfDigit(text[i])]
    ELSE [elems |-> Append(r.elems, "nr"), nr |-> Append(r.nr, ValueOfDigit(text[i]))]

(* What is read of a text is given by what is read before.                 *)
IsReading(text, r) ==
    r = [i \in 0 .. Len(text) |-> IF i = 0 THEN [elems |-> <<>>, nr |-> <<>>]
                                  ELSE NextRead(text, r[i - 1], i)]

(* Whatever comes next, a reading stays one.                               *)
LEMMA NextReadType ==
    ASSUME NEW text \in Seq(TextChars), NEW r \in Reading, NEW i \in 1 .. Len(text)
    PROVE  NextRead(text, r, i) \in Reading
<1>1. text[i] \in TextChars /\ "nr" \in TextChars /\ 0 \in Int
      /\ r.elems \in Seq(TextChars) /\ r.nr \in Seq(Int) /\ r = [elems |-> r.elems, nr |-> r.nr]
  BY DEF Reading, TextChars, Elements
<1>2. IsDigit(text[i]) => ValueOfDigit(text[i]) \in Int
  BY DigitsAreDigits
<1>3. \A q \in Seq(Int), v \in Int : [q EXCEPT ![Len(q)] = 10 * @ + v] \in Seq(Int)
  <2>. SUFFICES ASSUME NEW q \in Seq(Int), NEW v \in Int
                PROVE  [q EXCEPT ![Len(q)] = 10 * @ + v] \in Seq(Int)
    OBVIOUS
  <2>1. Len(q) \in Nat /\ q \in [1 .. Len(q) -> Int]
    OBVIOUS
  <2>2. [q EXCEPT ![Len(q)] = 10 * @ + v] \in [1 .. Len(q) -> Int]
    <3>1. CASE Len(q) = 0
      <4>1. [q EXCEPT ![Len(q)] = 10 * @ + v] = q
        BY <2>1, <3>1
      <4>2. QED
        BY <2>1, <4>1
    <3>2. CASE Len(q) # 0
      <4>1. q[Len(q)] \in Int
        BY <2>1, <3>2
      <4>2. PICK x \in Int : x = 10 * q[Len(q)] + v
        BY <4>1
      <4>3. [q EXCEPT ![Len(q)] = x] \in [1 .. Len(q) -> Int]
        BY <2>1
      <4>4. QED
        BY <4>2, <4>3
    <3>3. QED
      BY <3>1, <3>2
  <2>3. QED
    BY <2>1, <2>2, SeqDef
<1>4. CASE ~IsDigit(text[i])
  BY <1>1, <1>4 DEF NextRead, Reading
<1>5. CASE IsDigit(text[i]) /\ i > 1 /\ IsDigit(text[i - 1])
  <2>1. [r.nr EXCEPT ![Len(r.nr)] = 10 * @ + ValueOfDigit(text[i])] \in Seq(Int)
    BY <1>1, <1>2, <1>3, <1>5
  <2>2. NextRead(text, r, i)
           = [r EXCEPT !.nr = [r.nr EXCEPT ![Len(r.nr)] = 10 * @ + ValueOfDigit(text[i])]]
    BY <1>5 DEF NextRead
  <2>3. QED
    BY <1>1, <2>1, <2>2 DEF Reading
<1>6. CASE IsDigit(text[i]) /\ ~(i > 1 /\ IsDigit(text[i - 1]))
  BY <1>1, <1>2, <1>6 DEF NextRead, Reading
<1>7. QED
  BY <1>4, <1>5, <1>6

(* AsRead is the value of such a function for the whole text.              *)
LEMMA ReadingExists ==
    ASSUME NEW text \in Seq(TextChars)
    PROVE  \E r : IsReading(text, r) /\ AsRead(text) = r[Len(text)]
<1>. DEFINE n == Len(text)
            V == [0 .. n -> Reading]
            Body(f, i) == IF i = 0 THEN [elems |-> <<>>, nr |-> <<>>]
                          ELSE NextRead(text, f[i - 1], i)
            G == [f \in V |-> [i \in 0 .. n |-> Body(f, i)]]
<1>1. n \in Nat /\ \A i \in 0 .. n : i # 0 => i - 1 \in 0 .. i - 1 /\ i - 1 \in 0 .. n /\ i \in 1 .. n
  OBVIOUS
<1>2. [elems |-> <<>>, nr |-> <<>>] \in Reading
  BY DEF Reading
<1>3. \A f \in V : \A i \in 0 .. n : Body(f, i) \in Reading
  BY <1>1, <1>2, NextReadType
<1>4. \A f, g \in V : \A i \in 0 .. n :
         (\A j \in 0 .. i - 1 : f[j] = g[j]) => Body(f, i) = Body(g, i)
  BY <1>1
<1>. HIDE DEF Body, n
<1>5. G \in [V -> V] /\ \A f \in V : G[f] = [i \in 0 .. n |-> Body(f, i)]
  BY <1>3
<1>6. Causal(n, Reading, G)
  BY <1>2, <1>4, <1>5 DEF Causal
<1>7. \E f \in V : f = G[f]
  <2>. HIDE DEF G
  <2>1. QED
    BY <1>1, <1>6, FixedPoint
<1>8. \E f : f = [i \in 0 .. n |-> Body(f, i)]
  BY <1>5, <1>7
<1>. DEFINE read[i \in 0 .. Len(text)] ==
                IF i = 0 THEN [elems |-> <<>>, nr |-> <<>>]
                ELSE LET r == read[i - 1]
                         last == Len(r.nr)
                     IN  IF ~IsDigit(text[i])
                         THEN [elems |-> Append(r.elems, text[i]), nr |-> Append(r.nr, 0)]
                         ELSE IF i > 1 /\ IsDigit(text[i - 1])
                         THEN [r EXCEPT !.nr[last] = 10 * @ + ValueOfDigit(text[i])]
                         ELSE [elems |-> Append(r.elems, "nr"),
                               nr |-> Append(r.nr, ValueOfDigit(text[i]))]
<1>9. read = [i \in 0 .. n |-> Body(read, i)]
  BY <1>8 DEF Body, NextRead, n
<1>10. AsRead(text) = read[Len(text)]
  BY DEF AsRead
<1>. HIDE DEF read
<1>11. IsReading(text, read)
  BY <1>9 DEF IsReading, Body, n
<1>12. QED
  BY <1>10, <1>11

(* The text w stands in text behind the first o characters.                *)
Holds(text, o, w) == o + Len(w) <= Len(text) /\ \A j \in 1 .. Len(w) : text[o + j] = w[j]

(* A number is read as itself, unless a digit stands before it.            *)
LEMMA NumberRead ==
    ASSUME NEW text \in Seq(TextChars), NEW r, IsReading(text, r),
           NEW o \in 0 .. Len(text), o = 0 \/ ~IsDigit(text[o]),
           r[o].nr \in Seq(Int), NEW n \in Nat, Holds(text, o, Digits(n))
    PROVE  r[o + Len(Digits(n))]
              = [elems |-> Append(r[o].elems, "nr"), nr |-> Append(r[o].nr, n)]
<1>0. PICK es, ns : es = r[o].elems /\ ns = r[o].nr /\ ns \in Seq(Int)
  OBVIOUS
<1>1. PICK d : IsDigitsTo(n, d) /\ Digits(n) = d[n]
               /\ \A m \in 0 .. n : d[m] \in Seq(DigitChars) /\ d[m] # <<>>
  BY DigitsExist
<1>2. \A m \in 0 .. n :
         /\ m < 10 => d[m] = <<Digit[m + 1]>>
         /\ ~(m < 10) => d[m] = Append(d[m \div 10], Digit[(m % 10) + 1])
  BY <1>1 DEF IsDigitsTo
<1>3. \A i \in 1 .. Len(text) : r[i] = NextRead(text, r[i - 1], i)
  <2>1. \A i \in 1 .. Len(text) : i \in 0 .. Len(text) /\ i # 0
    OBVIOUS
  <2>2. QED
    BY <2>1 DEF IsReading
<1>4. Len(text) \in Nat
  OBVIOUS
<1>. DEFINE T == {m \in 0 .. n : Holds(text, o, d[m]) =>
                     r[o + Len(d[m])] = [elems |-> Append(es, "nr"), nr |-> Append(ns, m)]}
<1>5. ASSUME NEW m \in 0 .. n, \A j \in 0 .. m - 1 : j \in T PROVE m \in T
  <2>. SUFFICES ASSUME Holds(text, o, d[m])
                PROVE  r[o + Len(d[m])] = [elems |-> Append(es, "nr"), nr |-> Append(ns, m)]
    OBVIOUS
  <2>1. CASE m < 10
    <3>1. Len(d[m]) = 1 /\ d[m][1] = Digit[m + 1]
      <4>1. d[m] = <<Digit[m + 1]>>
        BY <1>2, <2>1
      <4>2. \A x : Len(<<x>>) = 1 /\ <<x>>[1] = x
        OBVIOUS
      <4>3. QED
        BY <4>1, <4>2
    <3>2. o + 1 \in 1 .. Len(text) /\ text[o + 1] = Digit[m + 1] /\ (o + 1) - 1 = o
      BY <1>4, <3>1 DEF Holds
    <3>3. IsDigit(text[o + 1]) /\ ValueOfDigit(text[o + 1]) = m
      <4>1. m \in 0 .. 9
        BY <2>1
      <4>2. Digit[m + 1] \in DigitChars /\ ValueOfDigit(Digit[m + 1]) = m
        BY <4>1, DigitsAreDigits
      <4>3. QED
        BY <3>2, <4>2, DigitsAreDigits
    <3>4. ~(o + 1 > 1 /\ IsDigit(text[(o + 1) - 1]))
      BY <3>2
    <3>5. r[o + 1] = NextRead(text, r[o], o + 1)
      BY <1>3, <3>2
    <3>6. r[o + 1] = [elems |-> Append(es, "nr"), nr |-> Append(ns, m)]
      BY <1>0, <3>3, <3>4, <3>5 DEF NextRead
    <3>7. QED
      BY <3>1, <3>6
  <2>2. CASE ~(m < 10)
    <3>1. PICK k \in 0 .. n : k = m \div 10 /\ k \in 0 .. m - 1 /\ m = 10 * k + (m % 10) /\ m % 10 \in 0 .. 9
      BY <2>2, Tenth
    <3>2. PICK c : c = Digit[(m % 10) + 1]
      OBVIOUS
    <3>3. d[m] = Append(d[k], c) /\ d[k] \in Seq(DigitChars) /\ d[k] # <<>>
      BY <1>1, <1>2, <2>2, <3>1, <3>2
    <3>4. c \in DigitChars /\ ValueOfDigit(c) = m % 10
      BY <3>1, <3>2, DigitsAreDigits
    <3>5. PICK l \in Nat \ {0} : l = Len(d[k])
      BY <3>3
    <3>6. Len(d[m]) = l + 1 /\ d[m][l + 1] = c /\ \A j \in 1 .. l : d[m][j] = d[k][j]
      BY <3>3, <3>4, <3>5
    <3>7. /\ o + l + 1 \in 1 .. Len(text) /\ text[o + l + 1] = c
          /\ (o + l + 1) - 1 = o + l /\ o + l + 1 > 1
          /\ \A j \in 1 .. l : text[o + j] = d[k][j]
      BY <1>4, <3>6 DEF Holds
    <3>8. Holds(text, o, d[k])
      BY <1>4, <3>5, <3>7 DEF Holds
    <3>9. r[o + l] = [elems |-> Append(es, "nr"), nr |-> Append(ns, k)]
      BY <1>5, <3>1, <3>5, <3>8
    <3>10. IsDigit(text[o + l + 1]) /\ ValueOfDigit(text[o + l + 1]) = m % 10
      BY <3>4, <3>7, DigitsAreDigits
    <3>11. IsDigit(text[o + l])
      <4>1. l \in 1 .. l /\ d[k][l] \in DigitChars
        BY <3>3, <3>5
      <4>2. QED
        BY <3>7, <4>1, DigitsAreDigits
    <3>12. r[o + l + 1] = NextRead(text, r[o + l], o + l + 1)
      BY <1>3, <3>7
    <3>13. r[o + l + 1] = [r[o + l] EXCEPT !.nr[Len(r[o + l].nr)] = 10 * @ + (m % 10)]
      BY <3>7, <3>10, <3>11, <3>12 DEF NextRead
    <3>14. [Append(ns, k) EXCEPT ![Len(Append(ns, k))] = 10 * @ + (m % 10)] = Append(ns, m)
      <4>1. PICK q : q = Append(ns, k)
        OBVIOUS
      <4>2. q \in Seq(Int) /\ Len(q) = Len(ns) + 1 /\ Len(ns) \in Nat /\ q[Len(q)] = k
            /\ \A i \in 1 .. Len(ns) : q[i] = ns[i]
        BY <1>0, <3>1, <4>1
      <4>3. PICK p : p = [q EXCEPT ![Len(q)] = m]
        OBVIOUS
      <4>4. p \in Seq(Int) /\ Len(p) = Len(ns) + 1 /\ p[Len(ns) + 1] = m
            /\ \A i \in 1 .. Len(ns) : p[i] = ns[i]
        <5>1. q \in [1 .. Len(ns) + 1 -> Int] /\ Len(q) = Len(ns) + 1 /\ m \in Int
          BY <4>2
        <5>2. p \in [1 .. Len(ns) + 1 -> Int] /\ p[Len(ns) + 1] = m
              /\ \A i \in 1 .. Len(ns) : p[i] = q[i]
          BY <4>2, <4>3, <5>1
        <5>3. p \in Seq(Int) /\ Len(p) = Len(ns) + 1
          <6>1. Len(ns) + 1 \in Nat /\ DOMAIN p = 1 .. Len(ns) + 1
            BY <4>2, <5>2
          <6>2. p \in Seq(Int)
            <7>1. PICK L \in Nat : L = Len(ns) + 1
              BY <6>1
            <7>2. p \in [1 .. L -> Int]
              BY <5>2, <7>1
            <7>3. QED
              BY <7>2, SeqDef
          <6>3. QED
            BY <6>1, <6>2, LenProperties
        <5>4. QED
          BY <4>2, <5>2, <5>3
      <4>5. p = Append(ns, m)
        BY <4>4
      <4>6. 10 * q[Len(q)] + (m % 10) = m
        BY <3>1, <4>2
      <4>7. QED
        BY <4>1, <4>3, <4>5, <4>6
    <3>15. r[o + l + 1] = [elems |-> Append(es, "nr"), nr |-> Append(ns, m)]
      <4>1. PICK R : R = r[o + l]
        OBVIOUS
      <4>2. PICK Q : Q = Append(ns, k)
        OBVIOUS
      <4>3. PICK E : E = Append(es, "nr")
        OBVIOUS
      <4>4. R = [elems |-> E, nr |-> Q]
        BY <3>9, <4>1, <4>2, <4>3
      <4>5. [R EXCEPT !.nr[Len(R.nr)] = 10 * @ + (m % 10)]
               = [elems |-> E, nr |-> [Q EXCEPT ![Len(Q)] = 10 * @ + (m % 10)]]
        <5>1. [R EXCEPT !.nr[Len(R.nr)] = 10 * @ + (m % 10)]
                 = [R EXCEPT !.nr = [R.nr EXCEPT ![Len(R.nr)] = 10 * @ + (m % 10)]]
          OBVIOUS
        <5>2. PICK P : P = [R.nr EXCEPT ![Len(R.nr)] = 10 * @ + (m % 10)]
          OBVIOUS
        <5>3. [R EXCEPT !.nr = P] = [elems |-> E, nr |-> P]
          BY <4>4
        <5>4. R.nr = Q
          BY <4>4
        <5>5. QED
          BY <5>1, <5>2, <5>3, <5>4
      <4>6. QED
        BY <3>13, <3>14, <4>1, <4>2, <4>3, <4>5
    <3>16. QED
      BY <3>6, <3>15
  <2>3. QED
    BY <2>1, <2>2
<1>6. 0 .. n \subseteq T
  <2>. HIDE DEF T
  <2>1. QED
    BY <1>5, Below
<1>7. n \in 0 .. n
  OBVIOUS
<1>8. QED
  BY <1>0, <1>1, <1>6, <1>7

(* The text of a chain *)

(* The buffer is given by what is printed before.                          *)
IsBuffer(s, nr, b) ==
    b = [i \in 0 .. Len(s) |-> IF i = 0 THEN <<>>
                               ELSE b[i - 1] \o eq_elem_print(s[i], nr[i])]

(* Something is printed of every element.                                  *)
LEMMA ElementPrinted ==
    ASSUME NEW x \in Elements, NEW m \in Nat
    PROVE  eq_elem_print(x, m) \in Seq(TextChars) /\ Len(eq_elem_print(x, m)) \in Nat \ {0}
<1>1. CASE x = "nr"
  <2>1. Digits(m) \in Seq(DigitChars) /\ Len(Digits(m)) \in Nat \ {0}
    BY LengthOfDigits
  <2>2. Digits(m) \in Seq(TextChars)
    BY <2>1 DEF TextChars
  <2>3. QED
    BY <1>1, <2>1, <2>2 DEF eq_elem_print
<1>2. CASE x # "nr"
  <2>1. x \in TextChars
    BY DEF TextChars
  <2>2. <<x>> \in Seq(TextChars) /\ Len(<<x>>) = 1
    BY <2>1
  <2>3. QED
    BY <1>2, <2>2 DEF eq_elem_print
<1>3. QED
  BY <1>1, <1>2

(* eq_print is the value of such a function for the whole chain.           *)
LEMMA BufferExists ==
    ASSUME NEW s \in Seq(Elements), NEW nr, \A p \in 1 .. Len(s) : nr[p] \in Nat
    PROVE  \E b \in [0 .. Len(s) -> Seq(TextChars)] :
              IsBuffer(s, nr, b) /\ eq_print(s, nr) = b[Len(s)]
<1>. DEFINE n == Len(s)
            V == [0 .. n -> Seq(TextChars)]
            Body(f, i) == IF i = 0 THEN <<>> ELSE f[i - 1] \o eq_elem_print(s[i], nr[i])
            G == [f \in V |-> [i \in 0 .. n |-> Body(f, i)]]
<1>1. n \in Nat /\ \A i \in 0 .. n : i # 0 => i - 1 \in 0 .. i - 1 /\ i - 1 \in 0 .. n /\ i \in 1 .. n
  OBVIOUS
<1>2. \A i \in 1 .. n : eq_elem_print(s[i], nr[i]) \in Seq(TextChars)
  BY ElementPrinted
<1>y. \A u, w \in Seq(TextChars) : u \o w \in Seq(TextChars)
  BY ConcatProperties
<1>z. <<>> \in Seq(TextChars)
  OBVIOUS
<1>3. \A f \in V : \A i \in 0 .. n : Body(f, i) \in Seq(TextChars)
  <2>. SUFFICES ASSUME NEW f \in V, NEW i \in 0 .. n PROVE Body(f, i) \in Seq(TextChars)
    OBVIOUS
  <2>1. CASE i = 0
    BY <1>z, <2>1
  <2>2. CASE i # 0
    <3>1. f[i - 1] \in Seq(TextChars)
      BY <1>1, <2>2
    <3>2. f[i - 1] \o eq_elem_print(s[i], nr[i]) \in Seq(TextChars)
      BY <1>1, <1>2, <1>y, <2>2, <3>1
    <3>3. QED
      BY <2>2, <3>2
  <2>3. QED
    BY <2>1, <2>2
<1>4. \A f, g \in V : \A i \in 0 .. n :
         (\A j \in 0 .. i - 1 : f[j] = g[j]) => Body(f, i) = Body(g, i)
  BY <1>1
<1>. HIDE DEF Body, n
<1>5. G \in [V -> V] /\ \A f \in V : G[f] = [i \in 0 .. n |-> Body(f, i)]
  BY <1>3
<1>6. Causal(n, Seq(TextChars), G)
  <2>1. <<>> \in Seq(TextChars)
    OBVIOUS
  <2>2. QED
    BY <1>4, <1>5, <2>1 DEF Causal
<1>7. \E f \in V : f = G[f]
  <2>. HIDE DEF G
  <2>1. QED
    BY <1>1, <1>6, FixedPoint
<1>8. \E f : f = [i \in 0 .. n |-> Body(f, i)]
  BY <1>5, <1>7
<1>. DEFINE buffer[i \in 0 .. Len(s)] ==
                IF i = 0 THEN <<>> ELSE buffer[i - 1] \o eq_elem_print(s[i], nr[i])
<1>9. buffer = [i \in 0 .. n |-> Body(buffer, i)]
  BY <1>8 DEF Body, n
<1>10. eq_print(s, nr) = buffer[Len(s)]
  BY DEF eq_print
<1>. HIDE DEF buffer
<1>. DEFINE T == {i \in 0 .. n : buffer[i] \in Seq(TextChars)}
<1>11. ASSUME NEW i \in 0 .. n, \A j \in 0 .. i - 1 : j \in T PROVE i \in T
  <2>1. buffer[i] = Body(buffer, i)
    BY <1>9
  <2>2. CASE i = 0
    <3>1. buffer[i] = <<>>
      BY <2>1, <2>2 DEF Body
    <3>2. QED
      BY <1>z, <3>1
  <2>3. CASE i # 0
    <3>1. buffer[i] = buffer[i - 1] \o eq_elem_print(s[i], nr[i])
      BY <2>1, <2>3 DEF Body
    <3>2. buffer[i - 1] \in Seq(TextChars)
      BY <1>1, <1>11, <2>3
    <3>3. eq_elem_print(s[i], nr[i]) \in Seq(TextChars)
      BY <1>1, <1>2, <2>3
    <3>4. buffer[i] \in Seq(TextChars)
      BY <1>y, <3>1, <3>2, <3>3
    <3>5. QED
      BY <3>4
  <2>4. QED
    BY <2>2, <2>3
<1>12. 0 .. n \subseteq T
  <2>. HIDE DEF T
  <2>1. QED
    BY <1>1, <1>11, Below
<1>13. buffer \in [0 .. n -> Seq(TextChars)]
  BY <1>9, <1>12
<1>14. IsBuffer(s, nr, buffer)
  BY <1>9 DEF IsBuffer, Body, n
<1>15. QED
  BY <1>10, <1>13, <1>14 DEF n

(* A prefix and the next element.                                          *)
LEMMA OneMore ==
    ASSUME NEW S, NEW s \in Seq(S), NEW i \in 0 .. Len(s) - 1
    PROVE  /\ SubSeq(s, 1, i) \in Seq(S)
           /\ SubSeq(s, 1, i + 1) = Append(SubSeq(s, 1, i), s[i + 1])
<1>1. SubSeq(s, 1, i) \in Seq(S) /\ Len(SubSeq(s, 1, i)) = i
      /\ SubSeq(s, 1, i + 1) \in Seq(S) /\ Len(SubSeq(s, 1, i + 1)) = i + 1
  BY SubSeqProperties
<1>2. \A j \in 1 .. i : SubSeq(s, 1, i)[j] = s[j] /\ SubSeq(s, 1, i + 1)[j] = s[j]
  BY SubSeqProperties
<1>3. SubSeq(s, 1, i + 1)[i + 1] = s[i + 1] /\ s[i + 1] \in S
  BY SubSeqProperties
<1>. DEFINE p == SubSeq(s, 1, i)
            q == SubSeq(s, 1, i + 1)
            x == s[i + 1]
<1>4. p \in Seq(S) /\ Len(p) = i /\ q \in Seq(S) /\ Len(q) = i + 1 /\ q[i + 1] = x /\ x \in S
      /\ \A j \in 1 .. i : q[j] = p[j]
  BY <1>1, <1>2, <1>3
<1>. HIDE DEF p, q, x
<1>5. q = Append(p, x)
  BY <1>4
<1>6. QED
  BY <1>4, <1>5 DEF p, q, x

(* Where the elements of a chain stand in its text.                        *)
LEMMA PrintedAt ==
    ASSUME NEW s \in Seq(Elements), NEW nr, \A p \in 1 .. Len(s) : nr[p] \in Nat,
           NEW b \in [0 .. Len(s) -> Seq(TextChars)], IsBuffer(s, nr, b)
    PROVE  /\ Len(b[0]) = 0
           /\ \A i \in 1 .. Len(s) :
                 /\ Len(b[i]) = Len(b[i - 1]) + Len(eq_elem_print(s[i], nr[i]))
                 /\ Holds(b[Len(s)], Len(b[i - 1]), eq_elem_print(s[i], nr[i]))
<1>. DEFINE n == Len(s)
            w(i) == eq_elem_print(s[i], nr[i])
            Prefix(x, y) == Len(x) <= Len(y) /\ \A j \in 1 .. Len(x) : x[j] = y[j]
            T == {k \in 0 .. n : \A i \in 0 .. k : Prefix(b[i], b[k])}
<1>1. n \in Nat
  OBVIOUS
<1>2. \A i \in 1 .. n : w(i) \in Seq(TextChars) /\ Len(w(i)) \in Nat \ {0}
  BY ElementPrinted
<1>3. b[0] = <<>> /\ \A i \in 1 .. n : b[i] = b[i - 1] \o w(i)
  BY DEF IsBuffer
<1>4. \A i \in 0 .. n : b[i] \in Seq(TextChars) /\ Len(b[i]) \in Nat
  OBVIOUS
<1>. HIDE DEF n, w
<1>5. ASSUME NEW i \in 1 .. n
      PROVE  /\ Len(b[i]) = Len(b[i - 1]) + Len(w(i))
             /\ \A j \in 1 .. Len(b[i - 1]) : b[i - 1][j] = b[i][j]
             /\ \A j \in 1 .. Len(w(i)) : b[i][Len(b[i - 1]) + j] = w(i)[j]
  <2>. DEFINE x == b[i - 1]
              y == w(i)
              z == b[i]
  <2>1. x \in Seq(TextChars) /\ y \in Seq(TextChars) /\ z = x \o y
    <3>1. i - 1 \in 0 .. n /\ i \in 0 .. n
      BY <1>1
    <3>2. x \in Seq(TextChars)
      BY <1>4, <3>1
    <3>3. y \in Seq(TextChars)
      BY <1>2
    <3>4. z = x \o y
      BY <1>3
    <3>5. QED
      BY <3>2, <3>3, <3>4
  <2>. HIDE DEF x, y, z
  <2>2. /\ Len(z) = Len(x) + Len(y)
        /\ \A j \in 1 .. Len(x) : x[j] = z[j]
        /\ \A j \in 1 .. Len(y) : z[Len(x) + j] = y[j]
    BY <2>1
  <2>3. QED
    BY <2>2 DEF x, y, z
<1>6. 0 \in T
  BY <1>1
<1>7. ASSUME NEW k \in 0 .. n - 1, k \in T PROVE k + 1 \in T
  <2>1. k + 1 \in 1 .. n /\ (k + 1) - 1 = k /\ k \in 0 .. n
    BY <1>1
  <2>2. Prefix(b[k], b[k + 1])
    <3>1. Len(b[k + 1]) = Len(b[k]) + Len(w(k + 1))
          /\ \A j \in 1 .. Len(b[k]) : b[k][j] = b[k + 1][j]
      BY <1>5, <2>1
    <3>2. Len(w(k + 1)) \in Nat /\ Len(b[k]) \in Nat
      BY <1>2, <1>4, <2>1
    <3>3. PICK m \in Nat, l \in Nat : m = Len(b[k]) /\ l = Len(w(k + 1))
      BY <3>2
    <3>4. Len(b[k + 1]) = m + l
      BY <3>1, <3>3
    <3>5. Len(b[k]) <= Len(b[k + 1])
      <4>1. m <= m + l
        OBVIOUS
      <4>2. QED
        BY <3>3, <3>4, <4>1, Zenon
    <3>6. QED
      BY <3>1, <3>5
  <2>3. \A i \in 0 .. k : Prefix(b[i], b[k])
    BY <1>7
  <2>4. \A i \in 0 .. k : Prefix(b[i], b[k + 1])
    <3>. SUFFICES ASSUME NEW i \in 0 .. k PROVE Prefix(b[i], b[k + 1])
      OBVIOUS
    <3>1. Len(b[i]) \in Nat /\ Len(b[k]) \in Nat /\ Len(b[k + 1]) \in Nat
      BY <1>1, <1>4, <2>1
    <3>2. Prefix(b[i], b[k])
      BY <2>3
    <3>3. QED
      BY <2>2, <3>1, <3>2
  <2>5. Prefix(b[k + 1], b[k + 1])
    BY <1>4, <2>1
  <2>6. \A i \in 0 .. k + 1 : i \in 0 .. k \/ i = k + 1
    OBVIOUS
  <2>. HIDE DEF Prefix
  <2>7. \A i \in 0 .. k + 1 : Prefix(b[i], b[k + 1])
    BY <2>4, <2>5, <2>6
  <2>8. QED
    BY <2>1, <2>7
<1>8. \A i \in 0 .. n : Prefix(b[i], b[n])
  <2>1. 0 .. n \subseteq T
    <3>. HIDE DEF T
    <3>1. QED
      BY <1>1, <1>6, <1>7, UpTo
  <2>2. QED
    BY <1>1, <2>1
<1>9. ASSUME NEW i \in 1 .. n PROVE Holds(b[n], Len(b[i - 1]), w(i))
  <2>1. i \in 0 .. n /\ i - 1 \in 0 .. n
    BY <1>1
  <2>2. Len(b[i]) \in Nat /\ Len(b[i - 1]) \in Nat /\ Len(w(i)) \in Nat
    BY <1>2, <1>4, <2>1
  <2>3. Prefix(b[i], b[n])
    BY <1>8, <2>1
  <2>4. Len(b[i - 1]) + Len(w(i)) <= Len(b[n])
    BY <1>5, <2>3
  <2>5. ASSUME NEW j \in 1 .. Len(w(i)) PROVE b[n][Len(b[i - 1]) + j] = w(i)[j]
    <3>1. Len(b[i - 1]) + j \in 1 .. Len(b[i])
      BY <1>5, <2>2
    <3>2. QED
      BY <1>5, <2>3, <3>1
  <2>6. QED
    BY <2>4, <2>5 DEF Holds
<1>10. Len(b[0]) = 0
  BY <1>3
<1>11. QED
  BY <1>5, <1>9, <1>10 DEF n, w

(* The numbers that a text shows.                                          *)
Shown(s, nr) == [p \in 1 .. Len(s) |-> IF s[p] = "nr" THEN nr[p] ELSE 0]

(* What is read is the chain that was printed: no two numbers are side by  *)
(* side in it.                                                             *)
LEMMA ReadAsPrinted ==
    ASSUME NEW s \in Seq(Elements), NEW nr, \A p \in 1 .. Len(s) : nr[p] \in Nat, Adjacent(s)
    PROVE  AsRead(eq_print(s, nr)) = [elems |-> s, nr |-> Shown(s, nr)]
<1>. DEFINE n == Len(s)
            nv == Shown(s, nr)
<1>1. PICK b \in [0 .. n -> Seq(TextChars)] : IsBuffer(s, nr, b) /\ eq_print(s, nr) = b[n]
  BY BufferExists
<1>2. PICK text \in Seq(TextChars) : text = b[n] /\ n \in Nat /\ Len(text) \in Nat
  BY <1>1
<1>3. PICK r : IsReading(text, r) /\ AsRead(text) = r[Len(text)]
  BY ReadingExists
<1>4. /\ Len(b[0]) = 0
      /\ \A i \in 1 .. n : /\ Len(b[i]) = Len(b[i - 1]) + Len(eq_elem_print(s[i], nr[i]))
                           /\ Holds(text, Len(b[i - 1]), eq_elem_print(s[i], nr[i]))
  BY <1>1, <1>2, PrintedAt
<1>5. \A i \in 0 .. n : Len(b[i]) \in Nat
  BY <1>1
<1>6. nv \in Seq(Int) /\ Len(nv) = n
      /\ \A i \in 1 .. n : nv[i] = IF s[i] = "nr" THEN nr[i] ELSE 0
  <2>1. nv \in [1 .. n -> Int]
    BY DEF Shown
  <2>. HIDE DEF nv, n
  <2>2. nv \in Seq(Int)
    BY <1>2, <2>1, SeqDef
  <2>3. Len(nv) = n
    BY <1>2, <2>1, <2>2, LenProperties
  <2>4. QED
    BY <2>2, <2>3 DEF nv, n, Shown
<1>7. /\ r[0] = [elems |-> <<>>, nr |-> <<>>]
      /\ \A i \in 1 .. Len(text) : r[i] = NextRead(text, r[i - 1], i)
  <2>1. \A i \in 1 .. Len(text) : i \in 0 .. Len(text) /\ i # 0
    OBVIOUS
  <2>2. 0 \in 0 .. Len(text)
    BY <1>2
  <2>3. QED
    BY <1>3, <2>1, <2>2 DEF IsReading
<1>. HIDE DEF nv
(* An element that is no number is a character, and no digit. *)
<1>8. ASSUME NEW i \in 1 .. n, s[i] # "nr"
      PROVE  /\ Len(b[i]) = Len(b[i - 1]) + 1 /\ Len(b[i]) \in 1 .. Len(text)
             /\ text[Len(b[i])] = s[i] /\ ~IsDigit(text[Len(b[i])])
  <2>1. \A x : Len(<<x>>) = 1 /\ <<x>>[1] = x
    OBVIOUS
  <2>2. eq_elem_print(s[i], nr[i]) = <<s[i]>>
    BY <1>8 DEF eq_elem_print
  <2>3. Len(b[i]) = Len(b[i - 1]) + 1 /\ Holds(text, Len(b[i - 1]), <<s[i]>>) /\ Len(b[i - 1]) \in Nat
    <3>1. i - 1 \in 0 .. n
      BY <1>2
    <3>2. /\ Len(b[i]) = Len(b[i - 1]) + Len(eq_elem_print(s[i], nr[i]))
          /\ Holds(text, Len(b[i - 1]), eq_elem_print(s[i], nr[i]))
      BY <1>4
    <3>3. Len(b[i]) = Len(b[i - 1]) + Len(<<s[i]>>) /\ Holds(text, Len(b[i - 1]), <<s[i]>>)
      BY <2>2, <3>2
    <3>4. Len(b[i - 1]) \in Nat
      BY <1>5, <3>1
    <3>5. QED
      BY <2>1, <3>3, <3>4
  <2>4. Len(b[i]) \in 1 .. Len(text) /\ text[Len(b[i])] = s[i]
    BY <1>2, <2>1, <2>3 DEF Holds
  <2>5. s[i] \in Elements
    OBVIOUS
  <2>6. s[i] \notin DigitChars
    BY <1>8, <2>5 DEF Elements, DigitChars, Digit
  <2>7. QED
    BY <2>3, <2>4, <2>6, DigitsAreDigits
<1>. DEFINE Here(i) == r[Len(b[i])] = [elems |-> SubSeq(s, 1, i), nr |-> SubSeq(nv, 1, i)]
            T == {i \in 0 .. n : Here(i)}
<1>9. 0 \in T
  <2>1. SubSeq(s, 1, 0) = <<>> /\ SubSeq(nv, 1, 0) = <<>>
    BY <1>6
  <2>2. QED
    BY <1>2, <1>4, <1>7, <2>1
<1>10. ASSUME NEW i \in 0 .. n - 1, i \in T PROVE i + 1 \in T
  <2>1. i + 1 \in 1 .. n /\ (i + 1) - 1 = i /\ i \in 0 .. n
    BY <1>2
  <2>2. PICK o \in Nat : o = Len(b[i])
    BY <1>5, <2>1
  <2>3. PICK es \in Seq(Elements), ns \in Seq(Int) :
           /\ es = SubSeq(s, 1, i) /\ ns = SubSeq(nv, 1, i)
           /\ SubSeq(s, 1, i + 1) = Append(es, s[i + 1])
           /\ SubSeq(nv, 1, i + 1) = Append(ns, nv[i + 1])
    BY <1>6, OneMore
  <2>4. r[o] = [elems |-> es, nr |-> ns]
    BY <1>10, <2>2, <2>3
  <2>. HIDE DEF n
  <2>5. CASE s[i + 1] # "nr"
    <3>1. Len(b[i + 1]) = o + 1 /\ o + 1 \in 1 .. Len(text) /\ text[o + 1] = s[i + 1]
          /\ ~IsDigit(text[o + 1])
      BY <1>8, <2>1, <2>2, <2>5
    <3>2. r[o + 1] = NextRead(text, r[o], o + 1)
      BY <1>7, <3>1
    <3>3. r[o + 1] = [elems |-> Append(es, s[i + 1]), nr |-> Append(ns, 0)]
      BY <2>4, <3>1, <3>2 DEF NextRead
    <3>4. nv[i + 1] = 0
      BY <1>6, <2>1, <2>5
    <3>5. Here(i + 1)
      BY <2>3, <3>1, <3>3, <3>4
    <3>6. QED
      BY <1>2, <2>1, <3>5
  <2>6. CASE s[i + 1] = "nr"
    <3>1. eq_elem_print(s[i + 1], nr[i + 1]) = Digits(nr[i + 1]) /\ nr[i + 1] \in Nat
      BY <2>1, <2>6 DEF eq_elem_print, n
    <3>2. Len(b[i + 1]) = o + Len(Digits(nr[i + 1])) /\ Holds(text, o, Digits(nr[i + 1]))
      BY <1>4, <2>1, <2>2, <3>1
    <3>3. o \in 0 .. Len(text)
      <4>1. Len(Digits(nr[i + 1])) \in Nat
        BY <3>1, LengthOfDigits
      <4>2. QED
        <5>1. o + Len(Digits(nr[i + 1])) <= Len(text)
          BY <3>2 DEF Holds
        <5>2. PICK l \in Nat, m \in Nat : l = Len(Digits(nr[i + 1])) /\ m = Len(text)
          BY <1>2, <4>1
        <5>3. o + l <= m
          BY <5>1, <5>2
        <5>4. o \in 0 .. m
          BY <5>3
        <5>5. QED
          BY <5>2, <5>4
    <3>4. o = 0 \/ ~IsDigit(text[o])
      <4>1. CASE i = 0
        BY <1>4, <2>2, <4>1
      <4>2. CASE i # 0
        <5>1. i \in 1 .. n
          BY <1>2, <4>2
        <5>2. s[i] # "nr"
          <6>1. s[i + 1] \in IF i + 1 = 1 \/ s[(i + 1) - 1] \in Opening
                             THEN {"nr", "("} ELSE {"+", "-", "*", ")"}
            BY <2>1 DEF Adjacent, n
          <6>2. i + 1 # 1 /\ s[(i + 1) - 1] = s[i]
            BY <2>1, <4>2
          <6>3. QED
            BY <2>6, <6>1, <6>2 DEF Opening
        <5>3. QED
          BY <1>8, <2>2, <5>1, <5>2
      <4>3. QED
        BY <4>1, <4>2
    <3>5. r[o + Len(Digits(nr[i + 1]))]
             = [elems |-> Append(es, "nr"), nr |-> Append(ns, nr[i + 1])]
      <4>1. r[o].elems = es /\ r[o].nr = ns
        BY <2>4
      <4>2. PICK m \in Nat : m = nr[i + 1]
        BY <3>1
      <4>3. r[o].nr \in Seq(Int) /\ Holds(text, o, Digits(m))
        BY <2>3, <3>2, <4>1, <4>2
      <4>4. r[o + Len(Digits(m))]
               = [elems |-> Append(r[o].elems, "nr"), nr |-> Append(r[o].nr, m)]
        BY <1>3, <3>3, <3>4, <4>3, NumberRead
      <4>5. QED
        BY <4>1, <4>2, <4>4
    <3>6. nv[i + 1] = nr[i + 1]
      BY <1>6, <2>1, <2>6
    <3>7. Here(i + 1)
      BY <2>3, <2>6, <3>2, <3>5, <3>6
    <3>8. QED
      BY <1>2, <2>1, <3>7
  <2>7. QED
    BY <2>5, <2>6
<1>11. Here(n)
  <2>. HIDE DEF Here, n
  <2>1. 0 .. n \subseteq T
    <3>. HIDE DEF T
    <3>1. QED
      BY <1>2, <1>9, <1>10, UpTo
  <2>2. QED
    BY <1>2, <2>1
<1>12. SubSeq(s, 1, n) = s /\ SubSeq(nv, 1, n) = nv
  BY <1>6
<1>13. QED
  BY <1>1, <1>2, <1>3, <1>11, <1>12 DEF nv

(* The buffer is filled to its end.                                        *)
LEMMA SizeOfText ==
    ASSUME NEW s \in Seq(Elements), NEW nr, \A p \in 1 .. Len(s) : nr[p] \in Nat
    PROVE  eq_calc_str_size(s, nr) = Len(eq_print(s, nr)) + 1
<1>. DEFINE n == Len(s)
            V == [0 .. n -> Int]
            Body(f, i) == IF i = 0 THEN 1
                          ELSE f[i - 1] + IF s[i] = "nr" THEN int_len(nr[i]) ELSE 1
            G == [f \in V |-> [i \in 0 .. n |-> Body(f, i)]]
<1>1. n \in Nat /\ \A i \in 0 .. n : i # 0 => i - 1 \in 0 .. i - 1 /\ i - 1 \in 0 .. n /\ i \in 1 .. n
  OBVIOUS
<1>2. ASSUME NEW i \in 1 .. n
      PROVE  (IF s[i] = "nr" THEN int_len(nr[i]) ELSE 1) = Len(eq_elem_print(s[i], nr[i]))
             /\ Len(eq_elem_print(s[i], nr[i])) \in Nat
  <2>1. CASE s[i] = "nr"
    <3>1. int_len(nr[i]) = Len(Digits(nr[i])) /\ Len(Digits(nr[i])) \in Nat
      BY <2>1, LengthOfDigits
    <3>2. QED
      BY <2>1, <3>1 DEF eq_elem_print
  <2>2. CASE s[i] # "nr"
    <3>1. \A x : Len(<<x>>) = 1
      OBVIOUS
    <3>2. eq_elem_print(s[i], nr[i]) = <<s[i]>>
      BY <2>2 DEF eq_elem_print
    <3>3. QED
      BY <2>2, <3>1, <3>2
  <2>3. QED
    BY <2>1, <2>2
<1>3. \A f \in V : \A i \in 0 .. n : Body(f, i) \in Int
  <2>. SUFFICES ASSUME NEW f \in V, NEW i \in 0 .. n PROVE Body(f, i) \in Int
    OBVIOUS
  <2>1. CASE i = 0
    BY <2>1
  <2>2. CASE i # 0
    <3>1. (IF s[i] = "nr" THEN int_len(nr[i]) ELSE 1) \in Int /\ f[i - 1] \in Int
      <4>1. i \in 1 .. n /\ i - 1 \in 0 .. n
        BY <1>1, <2>2
      <4>2. PICK x : x = IF s[i] = "nr" THEN int_len(nr[i]) ELSE 1
        OBVIOUS
      <4>3. x \in Int
        BY <1>2, <4>1, <4>2
      <4>4. QED
        BY <4>1, <4>2, <4>3
    <3>2. QED
      BY <2>2, <3>1
  <2>3. QED
    BY <2>1, <2>2
<1>4. \A f, g \in V : \A i \in 0 .. n :
         (\A j \in 0 .. i - 1 : f[j] = g[j]) => Body(f, i) = Body(g, i)
  BY <1>1
<1>. HIDE DEF Body, n
<1>5. G \in [V -> V] /\ \A f \in V : G[f] = [i \in 0 .. n |-> Body(f, i)]
  BY <1>3
<1>6. Causal(n, Int, G)
  <2>1. 0 \in Int
    OBVIOUS
  <2>2. QED
    BY <1>4, <1>5, <2>1 DEF Causal
<1>7. \E f \in V : f = G[f]
  <2>. HIDE DEF G
  <2>1. QED
    BY <1>1, <1>6, FixedPoint
<1>8. \E f : f = [i \in 0 .. n |-> Body(f, i)]
  BY <1>5, <1>7
<1>. DEFINE res[i \in 0 .. Len(s)] ==
                IF i = 0 THEN 1
                ELSE res[i - 1] + IF s[i] = "nr" THEN int_len(nr[i]) ELSE 1
<1>9. res = [i \in 0 .. n |-> Body(res, i)]
  BY <1>8 DEF Body, n
<1>10. eq_calc_str_size(s, nr) = res[Len(s)]
  BY DEF eq_calc_str_size
<1>. HIDE DEF res
<1>11. PICK b \in [0 .. n -> Seq(TextChars)] : IsBuffer(s, nr, b) /\ eq_print(s, nr) = b[n]
  BY BufferExists DEF n
<1>12. /\ Len(b[0]) = 0
       /\ \A i \in 1 .. n : Len(b[i]) = Len(b[i - 1]) + Len(eq_elem_print(s[i], nr[i]))
  BY <1>11, PrintedAt DEF n
<1>13. res[0] = 1 /\ \A i \in 1 .. n : res[i] = res[i - 1] + Len(eq_elem_print(s[i], nr[i]))
  <2>1. \A i \in 1 .. n : i \in 0 .. n /\ i # 0
    OBVIOUS
  <2>2. 0 \in 0 .. n
    BY <1>1
  <2>3. QED
    BY <1>2, <1>9, <2>1, <2>2 DEF Body
<1>14. \A i \in 0 .. n : Len(b[i]) \in Nat
  BY <1>11
<1>. DEFINE T == {i \in 0 .. n : res[i] = Len(b[i]) + 1}
<1>15. 0 \in T
  BY <1>1, <1>12, <1>13
<1>16. ASSUME NEW i \in 0 .. n - 1, i \in T PROVE i + 1 \in T
  <2>1. i + 1 \in 1 .. n /\ (i + 1) - 1 = i /\ i \in 0 .. n /\ i + 1 \in 0 .. n
    BY <1>1
  <2>2. PICK l \in Nat : l = Len(eq_elem_print(s[i + 1], nr[i + 1]))
    BY <1>2, <2>1
  <2>3. res[i + 1] = res[i] + l /\ Len(b[i + 1]) = Len(b[i]) + l /\ Len(b[i]) \in Nat
    BY <1>12, <1>13, <1>14, <2>1, <2>2
  <2>4. QED
    <3>1. res[i] = Len(b[i]) + 1
      BY <1>16
    <3>2. res[i + 1] = Len(b[i + 1]) + 1
      <4>1. PICK m \in Nat : m = Len(b[i])
        BY <2>3
      <4>2. res[i] = m + 1 /\ res[i + 1] = res[i] + l /\ Len(b[i + 1]) = m + l
        BY <2>3, <3>1, <4>1
      <4>3. res[i + 1] = (m + 1) + l
        BY <4>2
      <4>4. QED
        BY <2>2, <4>2, <4>3
    <3>3. QED
      BY <2>1, <3>2
<1>17. 0 .. n \subseteq T
  <2>. HIDE DEF T
  <2>1. QED
    BY <1>1, <1>15, <1>16, UpTo
<1>18. res[n] = Len(b[n]) + 1
  BY <1>1, <1>17
<1>19. QED
  BY <1>10, <1>11, <1>18 DEF n

(* The core of the theorem below, for any natural numbers in a chain.      *)
LEMMA SolvedWhenDone ==
    ASSUME EqInv, ChainInv, state = "done", NEW nr \in [1 .. chain_len -> Nat]
    PROVE  SolvedFor(nr)
<1>1. elems \in Seq(Elements) /\ Len(elems) = chain_len /\ chain_len \in Nat \ {0} /\ Adjacent(elems)
  BY CompleteChainBalanced
<1>2. WellFormed(elems)
  BY WellFormedWhenDone DEF ChainsWellFormed
<1>3. \A p \in 1 .. Len(elems) : nr[p] \in Nat
  BY <1>1
<1>4. eq_calc_str_size(elems, nr) = Len(eq_print(elems, nr)) + 1
  BY <1>1, <1>3, SizeOfText
<1>. DEFINE nv == Shown(elems, nr)
<1>5. AsRead(eq_print(elems, nr)) = [elems |-> elems, nr |-> nv]
  BY <1>1, <1>3, ReadAsPrinted
<1>6. AnswerOf(eq_print(elems, nr)) = ValueOf(elems, nv)
  BY <1>5 DEF AnswerOf
<1>7. SameNumbers(elems, nr, nv)
  BY <1>3 DEF Shown, SameNumbers
<1>. HIDE DEF nv
<1>8. Solve(elems, nr) = Outcome("ok", ValueOf(elems, nv), Len(elems) + 1)
  BY <1>1, <1>2, <1>7, SolvesExpressions
<1>9. QED
  BY <1>1, <1>4, <1>6, <1>8 DEF SolvedFor

(* The numberings of the runs are of natural numbers.                      *)
LEMMA NumberingsNatural ==
    ASSUME chain_len \in Nat, NEW nr \in Numberings
    PROVE  nr \in [1 .. chain_len -> Nat]
<1>1. \A p \in Nat : p * p \in Nat
  OBVIOUS
<1>2. \A q \in Nat : q % 7 \in Nat
  OBVIOUS
<1>3. [p \in 1 .. chain_len |-> (p * p) % 7] \in [1 .. chain_len -> Nat]
  BY <1>1, <1>2
<1>4. [p \in 1 .. chain_len |-> p + 7] \in [1 .. chain_len -> Nat]
  OBVIOUS
<1>5. QED
  BY <1>3, <1>4 DEF Numberings

(* The text of every equation fills its buffer exactly, and eq_solve finds *)
(* the value that a reader of the text finds, with any natural numbers in  *)
(* the chain; in particular with those of SolvedAsWritten (eq.c:280-514,   *)
(* eq_gen.c:31-92).                                                        *)
THEOREM EquationsSolvedAsWritten ==
    Spec => /\ [](state = "done" => \A nr \in [1 .. chain_len -> Nat] : SolvedFor(nr))
            /\ []SolvedAsWritten
<1>. DEFINE SolvedForAll == state = "done" => \A nr \in [1 .. chain_len -> Nat] : SolvedFor(nr)
<1>1. EqInv /\ ChainInv => SolvedForAll
  BY SolvedWhenDone
<1>2. EqInv /\ SolvedForAll => SolvedAsWritten
  BY NumberingsNatural DEF SolvedAsWritten, EqInv, TypeOK
<1>. HIDE DEF SolvedForAll
<1>3. Spec => [](SolvedForAll /\ SolvedAsWritten)
  BY <1>1, <1>2, InitEqInv, NextEqInv, InitChainInv, NextChainInv, PTL DEF Spec
<1>4. Spec => []SolvedForAll /\ []SolvedAsWritten
  BY <1>3, PTL
<1>5. QED
  BY <1>4 DEF SolvedForAll

-----------------------------------------------------------------------------
(* Tasks and their answers                                                 *)

(* What a peer may send.                                                   *)
AnswerChars == Chars \cup DigitChars \cup {"-", "\n"}

(* What the checks rely on while there is no verdict, and what is left of  *)
(* it then.                                                                *)
AnswersInv ==
    /\ kind \in {"eq", "shellcode", "echo"}
    /\ script \in Seq(AnswerChars)
    /\ arrived \in 0 .. Len(script)
    /\ verdict \in {"none", "RIGHT", "WRONG", "unread"}
    /\ kind = "shellcode" => answer \in AllAnswers
    /\ verdict = "none" => taken \in 0 .. arrived
    /\ verdict = "none" /\ kind = "eq" => taken = 0
    /\ verdict # "none" /\ kind = "eq" => state = "done"
    /\ verdict = "none" /\ kind = "shellcode" => user_answer_len < AnswerLen
    /\ JudgedAsSent

AllInv == EqInv /\ ChainInv /\ AnswersInv

(* The numbers of the equation of a task are natural numbers.              *)
LEMMA NumbersNatural == chain_len \in Nat => Numbers \in [1 .. chain_len -> Nat]
BY DEF Numbers

(* What the author takes for the right value is the one that is shown.     *)
LEMMA RightValue ==
    ASSUME EqInv, ChainInv, state = "done"
    PROVE  Solve(elems, Numbers).val = EqValue /\ EqValue \in Int
<1>1. Numbers \in [1 .. chain_len -> Nat]
  BY NumbersNatural DEF EqInv, TypeOK
<1>2. Solve(elems, Numbers) = Outcome("ok", EqValue, chain_len + 1)
  BY <1>1, SolvedWhenDone DEF SolvedFor, EqValue
<1>3. Solve(elems, Numbers).val = EqValue
  BY <1>2 DEF Outcome
<1>4. EqValue \in Int
  <2>1. elems \in Seq(Elements) /\ Len(elems) = chain_len /\ Adjacent(elems) /\ chain_len \in Nat \ {0}
    BY CompleteChainBalanced
  <2>2. \A p \in 1 .. Len(elems) : Numbers[p] \in Nat
    BY <1>1, <2>1
  <2>. DEFINE nv == Shown(elems, Numbers)
  <2>3. EqValue = ValueOf(elems, nv)
    <3>1. AsRead(eq_print(elems, Numbers)) = [elems |-> elems, nr |-> nv]
      BY <2>1, <2>2, ReadAsPrinted
    <3>2. QED
      BY <3>1 DEF EqValue, AnswerOf
  <2>4. \A p \in 1 .. Len(elems) : nv[p] \in Int
    BY <2>2 DEF Shown
  <2>. HIDE DEF nv
  <2>5. PICK v \in [Spans(elems) -> Int] : Len(elems) > 0 => ValueOf(elems, nv) = v[<<1, Len(elems)>>]
    BY <2>1, <2>4, ValueExists
  <2>6. <<1, Len(elems)>> \in Spans(elems) /\ Len(elems) > 0
    BY <2>1 DEF Spans
  <2>7. QED
    BY <2>3, <2>5, <2>6
<1>5. QED
  BY <1>3, <1>4

(* A number can be sent.                                                   *)
LEMMA NumberTextIsAnswer ==
    ASSUME NEW n \in Int PROVE NumberText(n) \in Seq(AnswerChars)
<1>1. CASE n < 0
  <2>1. -n \in Nat
    BY <1>1
  <2>2. Digits(-n) \in Seq(DigitChars)
    BY <2>1, LengthOfDigits
  <2>3. Digits(-n) \in Seq(AnswerChars) /\ <<"-">> \in Seq(AnswerChars)
    BY <2>2 DEF AnswerChars
  <2>4. QED
    BY <1>1, <2>3, ConcatProperties DEF NumberText
<1>2. CASE ~(n < 0)
  <2>1. Digits(n) \in Seq(DigitChars)
    BY <1>2, LengthOfDigits
  <2>2. Digits(n) \in Seq(AnswerChars)
    BY <2>1 DEF AnswerChars
  <2>3. QED
    BY <1>2, <2>2 DEF NumberText
<1>3. QED
  BY <1>1, <1>2

(* So can all that a peer may choose.                                      *)
LEMMA ScriptsAreAnswers ==
    ASSUME EqInv, ChainInv, Asked, NEW s \in Scripts
    PROVE  s \in Seq(AnswerChars)
<1>1. CASE kind = "eq"
  <2>1. EqValue \in Int
    BY <1>1, RightValue DEF Asked
  <2>2. PICK right \in Seq(AnswerChars) : right = NumberText(EqValue)
    BY <2>1, NumberTextIsAnswer
  <2>3. "1" \in AnswerChars /\ "\n" \in AnswerChars
    BY DEF AnswerChars, DigitChars, Digit
  <2>4. <<"\n">> \in Seq(AnswerChars) /\ <<"1", "\n">> \in Seq(AnswerChars)
    BY <2>3
  <2>5. \A u, w \in Seq(AnswerChars) : u \o w \in Seq(AnswerChars)
    BY ConcatProperties
  <2>6. s \in {right, right \o <<"\n">>, <<"\n">> \o right, right \o <<"1", "\n">>, <<"\n">>}
    BY <1>1, <2>2 DEF Scripts, EqScripts
  <2>7. QED
    BY <2>2, <2>4, <2>5, <2>6
<1>2. CASE kind # "eq"
  <2>1. PICK n \in 1 .. MaxBytes : s \in [1 .. n -> Chars]
    BY <1>2 DEF Scripts
  <2>2. s \in [1 .. n -> AnswerChars] /\ n \in Nat
    BY <2>1, AnswersAssumption DEF AnswerChars
  <2>3. QED
    BY <2>2, SeqDef
<1>3. QED
  BY <1>1, <1>2

(* A fresh task has neither input nor verdict.                             *)
LEMMA AnswersStart == AnswersInit => AllInv
<1>. SUFFICES ASSUME AnswersInit PROVE AllInv
  OBVIOUS
<1>1. Init /\ EqInv /\ ChainInv
  BY InitEqInv, InitChainInv DEF AnswersInit
<1>2. /\ kind \in {"eq", "shellcode", "echo"}
      /\ kind = "shellcode" => answer \in AllAnswers
      /\ user_answer_len = 0 /\ script = <<>> /\ arrived = 0 /\ taken = 0 /\ verdict = "none"
  BY DEF AnswersInit
<1>3. script \in Seq(AnswerChars) /\ Len(script) = 0
  BY <1>2
<1>4. JudgedAsSent
  BY <1>2 DEF JudgedAsSent, Judged
<1>5. QED
  BY <1>1, <1>2, <1>3, <1>4, AnswersAssumption DEF AllInv, AnswersInv

(* The bytes that wait are those behind the ones taken.                    *)
LEMMA BytesWaiting ==
    ASSUME AnswersInv, verdict = "none"
    PROVE  /\ Waiting \in Seq(AnswerChars)
           /\ Len(Waiting) = arrived - taken /\ arrived - taken \in Nat
           /\ \A i \in 1 .. arrived - taken : Waiting[i] = script[taken + i]
<1>1. /\ script \in Seq(AnswerChars) /\ Len(script) \in Nat
      /\ taken \in Nat /\ arrived \in Nat /\ taken <= arrived /\ arrived <= Len(script)
  BY DEF AnswersInv
<1>2. /\ SubSeq(script, taken + 1, arrived) \in Seq(AnswerChars)
      /\ Len(SubSeq(script, taken + 1, arrived)) = arrived - taken
      /\ \A i \in 1 .. arrived - taken : SubSeq(script, taken + 1, arrived)[i] = script[taken + i]
  BY <1>1, SubSeqProperties
<1>3. QED
  BY <1>1, <1>2 DEF Waiting

(* The generator's invariants hold of a task, too.                         *)
LEMMA TaskKeepsChains == AllInv /\ [AnswersNext]_allVars => EqInv' /\ ChainInv' /\ [Next]_vars
<1>. SUFFICES ASSUME AllInv, [AnswersNext]_allVars PROVE EqInv' /\ ChainInv' /\ [Next]_vars
  OBVIOUS
<1>1. [Next]_vars
  BY DEF AnswersNext, allVars, Generate, PeerSends, eq_check, ShellcodeMore, ShellcodeJudge,
         echo_gen_check, CheckFails
<1>2. QED
  BY <1>1, NextEqInv, NextChainInv DEF AllInv

(* An equation is generated before it is judged.                           *)
LEMMA GenerateKeeps == AllInv /\ Generate => AnswersInv'
<1>. SUFFICES ASSUME AllInv, Generate PROVE AnswersInv'
  OBVIOUS
<1>. USE DEF AllInv
<1>1. kind = "eq" /\ state = "generating" /\ UNCHANGED <<task, peer, checked>>
  BY DEF Generate, Next, EmitOp, EmitLeft, EmitRight, EmitNumber, EmitFails, Generating
<1>2. verdict = "none"
  BY <1>1 DEF AnswersInv
<1>3. /\ kind' = kind /\ answer' = answer /\ script' = script /\ arrived' = arrived
      /\ taken' = taken /\ verdict' = verdict /\ user_answer_len' = user_answer_len
  BY <1>1 DEF task, peer, checked
<1>4. JudgedAsSent'
  BY <1>1, <1>2, <1>3 DEF JudgedAsSent, Judged
<1>5. QED
  BY <1>1, <1>2, <1>3, <1>4 DEF AnswersInv, AllAnswers

(* What arrives does not change what has arrived before.                   *)
LEMMA PeerSendsKeeps == AllInv /\ PeerSends => AnswersInv'
<1>. SUFFICES ASSUME AllInv, PeerSends PROVE AnswersInv'
  OBVIOUS
<1>. USE DEF AllInv
<1>1. /\ verdict = "none" /\ kind' = kind /\ answer' = answer
      /\ taken' = taken /\ verdict' = verdict
      /\ user_answer' = user_answer /\ user_answer_len' = user_answer_len
      /\ state' = state
  BY DEF PeerSends, Asked, task, checked, vars
<1>2. /\ script \in Seq(AnswerChars) /\ arrived \in Nat /\ arrived <= Len(script) /\ Len(script) \in Nat
      /\ taken \in Nat /\ taken <= arrived
  BY <1>1 DEF AnswersInv
<1>3. /\ script' \in IF script = <<>> THEN Scripts ELSE {script}
      /\ arrived' \in arrived + 1 .. Len(script')
  BY DEF PeerSends
<1>4. script' \in Seq(AnswerChars)
  BY <1>2, <1>3, ScriptsAreAnswers DEF PeerSends
<1>5. arrived' \in 0 .. Len(script') /\ taken \in 0 .. arrived'
  <2>1. Len(script') \in Nat
    BY <1>4
  <2>2. QED
    BY <1>2, <1>3, <2>1
<1>6. script = <<>> => taken = 0
  BY <1>2
<1>7. script # <<>> => script' = script
  BY <1>3
<1>8. JudgedAsSent'
  <2>1. ~Judged'
    BY <1>1 DEF Judged
  <2>2. ASSUME kind = "shellcode"
        PROVE  user_answer_len = taken /\ \A i \in 1 .. taken : user_answer[i] = script'[i]
    <3>1. user_answer_len = taken /\ \A i \in 1 .. taken : user_answer[i] = script[i]
      BY <1>1, <2>2 DEF AnswersInv, JudgedAsSent
    <3>2. QED
      BY <1>6, <1>7, <3>1
  <2>3. QED
    BY <1>1, <2>1, <2>2 DEF JudgedAsSent
<1>9. QED
  BY <1>1, <1>4, <1>5, <1>8 DEF AnswersInv, AllAnswers

(* An equation is judged by what has arrived, and by its value.            *)
LEMMA EqCheckKeeps == AllInv /\ eq_check => AnswersInv'
<1>. SUFFICES ASSUME AllInv, eq_check PROVE AnswersInv'
  OBVIOUS
<1>. USE DEF AllInv
<1>1. /\ kind = "eq" /\ verdict = "none" /\ state = "done" /\ taken = 0
      /\ verdict' = IF HasNumber(Waiting) /\ NumberIn(Waiting) = Solve(elems, Numbers).val
                    THEN "RIGHT" ELSE "WRONG"
      /\ UNCHANGED <<vars, task, peer>>
  BY DEF eq_check, Asked, AnswersInv
<1>2. /\ kind' = kind /\ script' = script /\ arrived' = arrived /\ state' = state
      /\ elems' = elems /\ chain_len' = chain_len
  BY <1>1 DEF vars, task, peer
<1>3. Solve(elems, Numbers).val = EqValue
  BY <1>1, RightValue
<1>4. EqValue' = EqValue
  BY <1>2 DEF EqValue, Numbers
<1>5. SubSeq(script, 1, arrived) = Waiting
  BY <1>1 DEF Waiting
<1>6. PICK s : s = SubSeq(script, 1, arrived)
  OBVIOUS
<1>7. verdict' = "RIGHT" <=> HasNumber(s) /\ NumberIn(s) = EqValue
  BY <1>1, <1>3, <1>5, <1>6
<1>8. JudgedAsSent'
  BY <1>1, <1>2, <1>4, <1>6, <1>7 DEF JudgedAsSent
<1>9. verdict' \in {"RIGHT", "WRONG"}
  BY <1>1
<1>10. QED
  BY <1>1, <1>2, <1>8, <1>9 DEF AnswersInv

(* The state of a shellcode task that is not judged yet.                   *)
LEMMA CollectedSoFar ==
    ASSUME AnswersInv, kind = "shellcode", Asked
    PROVE  /\ verdict = "none" /\ user_answer_len = taken /\ taken \in Nat /\ taken < AnswerLen
           /\ arrived \in Nat /\ Len(Waiting) = arrived - taken /\ taken <= arrived
           /\ AnswerLen \in Nat /\ needed = AnswerLen - taken
           /\ readen = IF arrived - taken < needed THEN arrived - taken ELSE needed
           /\ \A i \in 1 .. taken : user_answer[i] = script[i]
           /\ \A i \in 1 .. arrived - taken : Waiting[i] = script[taken + i]
<1>1. verdict = "none"
  BY DEF Asked
<1>2. taken \in 0 .. arrived /\ user_answer_len < AnswerLen /\ arrived \in Nat
  BY <1>1 DEF AnswersInv
<1>3. user_answer_len = taken /\ \A i \in 1 .. taken : user_answer[i] = script[i]
  BY <1>1 DEF AnswersInv, JudgedAsSent
<1>4. /\ Len(Waiting) = arrived - taken
      /\ \A i \in 1 .. arrived - taken : Waiting[i] = script[taken + i]
  BY <1>1, BytesWaiting
<1>5. QED
  BY <1>1, <1>2, <1>3, <1>4, AnswersAssumption DEF needed, readen

(* What is there fills the answer from where it was left.                  *)
LEMMA FilledInOrder ==
    ASSUME AnswersInv, kind = "shellcode", Asked
    PROVE  \A i \in 1 .. taken + readen : i \in 1 .. AnswerLen /\ Filled[i] = script[i]
<1>. SUFFICES ASSUME NEW i \in 1 .. taken + readen
              PROVE  i \in 1 .. AnswerLen /\ Filled[i] = script[i]
  OBVIOUS
<1>1. /\ user_answer_len = taken /\ taken \in Nat /\ taken < AnswerLen
      /\ AnswerLen \in Nat /\ arrived \in Nat /\ taken <= arrived
      /\ readen \in Nat /\ readen <= AnswerLen - taken /\ readen <= arrived - taken
      /\ \A j \in 1 .. taken : user_answer[j] = script[j]
      /\ \A j \in 1 .. arrived - taken : Waiting[j] = script[taken + j]
  BY CollectedSoFar
<1>2. i \in 1 .. AnswerLen /\ i \in Nat
  BY <1>1
<1>3. Filled[i] = IF i \in taken + 1 .. taken + readen THEN Waiting[i - taken] ELSE user_answer[i]
  BY <1>1, <1>2 DEF Filled
<1>4. CASE i <= taken
  BY <1>1, <1>2, <1>3, <1>4
<1>5. CASE ~(i <= taken)
  <2>1. i - taken \in 1 .. arrived - taken /\ taken + (i - taken) = i /\ i \in taken + 1 .. taken + readen
    BY <1>1, <1>2, <1>5
  <2>2. QED
    BY <1>1, <1>2, <1>3, <2>1
<1>6. QED
  BY <1>4, <1>5

(* A short read extends the answer without a gap.                          *)
LEMMA ShellcodeMoreKeeps == AllInv /\ ShellcodeMore => AnswersInv'
<1>. SUFFICES ASSUME AllInv, ShellcodeMore PROVE AnswersInv'
  OBVIOUS
<1>. USE DEF AllInv
<1>1. /\ kind = "shellcode" /\ Asked /\ readen < needed
      /\ user_answer' = Filled /\ user_answer_len' = user_answer_len + readen
      /\ taken' = arrived /\ UNCHANGED <<vars, task, peer, verdict>>
  BY DEF ShellcodeMore
<1>2. /\ kind' = kind /\ answer' = answer /\ script' = script /\ arrived' = arrived
      /\ verdict' = verdict
  BY <1>1 DEF task, peer
<1>3. /\ verdict = "none" /\ user_answer_len = taken /\ taken \in Nat /\ arrived \in Nat
      /\ AnswerLen \in Nat /\ taken + readen = arrived /\ taken + readen < AnswerLen
  BY <1>1, CollectedSoFar
<1>4. \A i \in 1 .. arrived : Filled[i] = script[i]
  BY <1>1, <1>3, FilledInOrder
<1>5. JudgedAsSent'
  BY <1>1, <1>2, <1>3, <1>4 DEF JudgedAsSent, Judged
<1>6. QED
  BY <1>1, <1>2, <1>3, <1>5 DEF AnswersInv, AllAnswers

(* The read that completes the answer makes it the one that was sent.      *)
LEMMA ShellcodeJudgeKeeps == AllInv /\ ShellcodeJudge => AnswersInv'
<1>. SUFFICES ASSUME AllInv, ShellcodeJudge PROVE AnswersInv'
  OBVIOUS
<1>. USE DEF AllInv
<1>1. /\ kind = "shellcode" /\ Asked /\ readen = needed
      /\ verdict' = IF Filled = answer THEN "RIGHT" ELSE "WRONG"
      /\ UNCHANGED <<vars, task, peer>>
  BY DEF ShellcodeJudge
<1>2. /\ kind' = kind /\ answer' = answer /\ script' = script /\ arrived' = arrived
      /\ verdict' \in {"RIGHT", "WRONG"}
  BY <1>1 DEF task, peer
<1>3. /\ AnswerLen \in Nat /\ arrived \in Nat /\ taken + readen = AnswerLen /\ AnswerLen <= arrived
  <2>1. /\ taken \in Nat /\ arrived \in Nat /\ AnswerLen \in Nat /\ taken <= arrived
        /\ needed = AnswerLen - taken
        /\ readen = IF arrived - taken < needed THEN arrived - taken ELSE needed
    BY <1>1, CollectedSoFar
  <2>2. readen = AnswerLen - taken
    BY <1>1, <2>1
  <2>3. ~(arrived - taken < AnswerLen - taken)
    BY <2>1, <2>2
  <2>4. QED
    BY <2>1, <2>2, <2>3
<1>4. Filled = SubSeq(script, 1, AnswerLen)
  <2>1. \A i \in 1 .. AnswerLen : Filled[i] = script[i]
    BY <1>1, <1>3, FilledInOrder
  <2>2. script \in Seq(AnswerChars) /\ AnswerLen <= Len(script) /\ Len(script) \in Nat
    BY <1>3 DEF AnswersInv
  <2>3. SubSeq(script, 1, AnswerLen) = [i \in 1 .. AnswerLen |-> script[i]]
    BY <1>3, <2>2
  <2>4. DOMAIN Filled = 1 .. AnswerLen /\ Filled = [i \in DOMAIN Filled |-> Filled[i]]
    BY DEF Filled
  <2>5. QED
    BY <2>1, <2>3, <2>4
<1>5. JudgedAsSent'
  <2>1. verdict' = "RIGHT" <=> SubSeq(script, 1, AnswerLen) = answer
    BY <1>1, <1>4
  <2>2. QED
    BY <1>1, <1>2, <1>3, <2>1 DEF JudgedAsSent
<1>6. QED
  BY <1>1, <1>2, <1>5 DEF AnswersInv, AllAnswers

(* Every step of a task keeps the invariant.                               *)
LEMMA AnswersStep == AllInv /\ [AnswersNext]_allVars => AllInv'
<1>. SUFFICES ASSUME AllInv, [AnswersNext]_allVars PROVE AnswersInv'
  BY TaskKeepsChains DEF AllInv
<1>1. CASE echo_gen_check
  <2>1. /\ kind = "echo" /\ verdict' = "RIGHT" /\ UNCHANGED <<vars, task, peer>>
    BY <1>1 DEF echo_gen_check
  <2>2. JudgedAsSent'
    BY <2>1 DEF JudgedAsSent, task
  <2>3. QED
    BY <2>1, <2>2 DEF AllInv, AnswersInv, task, peer
<1>2. CASE CheckFails
  <2>1. /\ Asked /\ verdict' = "unread" /\ UNCHANGED <<vars, task, peer>>
    BY <1>2 DEF CheckFails
  <2>2. JudgedAsSent'
    BY <2>1 DEF JudgedAsSent, Judged
  <2>3. QED
    BY <2>1, <2>2 DEF AllInv, AnswersInv, task, peer, vars, Asked, AllAnswers
<1>3. CASE UNCHANGED allVars
  <2>1. UNCHANGED <<elems, chain_len, state, kind, answer, script, arrived, taken, verdict,
                    user_answer, user_answer_len>>
    BY <1>3 DEF allVars, vars, task, peer, checked
  <2>2. EqValue' = EqValue
    BY <2>1 DEF EqValue, Numbers
  <2>3. JudgedAsSent'
    BY <2>1, <2>2 DEF AllInv, AnswersInv, JudgedAsSent, Judged
  <2>4. QED
    BY <2>1, <2>3 DEF AllInv, AnswersInv, AllAnswers
<1>4. QED
  BY <1>1, <1>2, <1>3, GenerateKeeps, PeerSendsKeeps, EqCheckKeeps, ShellcodeMoreKeeps,
     ShellcodeJudgeKeeps DEF AnswersNext

(* However an answer is cut into pieces, a shellcode task and an equation  *)
(* are judged RIGHT exactly for the right answer                           *)
(* (python_shellcode_gen.c:72-96, eq_gen.c:66-92).                         *)
THEOREM AnswersJudgedAsSent == AnswersSpec => []JudgedAsSent
<1>1. AllInv => JudgedAsSent
  BY DEF AllInv, AnswersInv
<1>2. QED
  BY <1>1, AnswersStart, AnswersStep, PTL DEF AnswersSpec

(* There is an end of the digits that a number begins with.                *)
LEMMA NumberEnds ==
    ASSUME NEW s \in Seq(AnswerChars)
    PROVE  /\ Begin(s) \in 0 .. Len(s) /\ NumberEnd(s) \in Begin(s) .. Len(s)
           /\ ReadOf(s) \in 0 .. Len(s) /\ (Len(s) > 0 => ReadOf(s) > 0)
<1>1. Len(s) \in Nat /\ (s # <<>> => Len(s) > 0)
  OBVIOUS
<1>2. Begin(s) \in 0 .. Len(s)
  <2>1. Blank(s) \in {0, 1} /\ Blank(s) <= Len(s)
    BY <1>1 DEF Blank
  <2>2. Sign(s) \in {0, 1} /\ (Sign(s) = 1 => Blank(s) < Len(s))
    BY DEF Sign
  <2>3. QED
    BY <1>1, <2>1, <2>2 DEF Begin
<1>. DEFINE Ends(e) == /\ \A i \in Begin(s) + 1 .. e : IsDigit(s[i])
                       /\ e < Len(s) => ~IsDigit(s[e + 1])
<1>3. \E e \in Begin(s) .. Len(s) : Ends(e)
  <2>. DEFINE K == {i \in Begin(s) + 1 .. Len(s) : ~IsDigit(s[i])}
  <2>1. CASE K = {}
    <3>1. Len(s) \in Begin(s) .. Len(s) /\ Ends(Len(s))
      BY <1>1, <1>2, <2>1
    <3>2. QED
      BY <3>1
  <2>2. CASE K # {}
    <3>1. PICK k \in K : \A i \in K : k <= i
      <4>1. K \in SUBSET Nat
        BY <1>1, <1>2
      <4>. HIDE DEF K
      <4>2. QED
        BY <2>2, <4>1, LeastNumber
    <3>2. k - 1 \in Begin(s) .. Len(s) /\ (k - 1) + 1 = k
      BY <1>1, <1>2
    <3>3. \A i \in Begin(s) + 1 .. k - 1 : i \in Begin(s) + 1 .. Len(s) /\ ~(k <= i)
      BY <1>1, <1>2
    <3>4. \A i \in Begin(s) + 1 .. k - 1 : IsDigit(s[i])
      BY <3>1, <3>3
    <3>5. Ends(k - 1)
      BY <3>1, <3>2, <3>4
    <3>6. QED
      BY <3>2, <3>5
  <2>3. QED
    BY <2>1, <2>2
<1>4. NumberEnd(s) \in Begin(s) .. Len(s)
  BY <1>3 DEF NumberEnd
<1>5. QED
  BY <1>1, <1>2, <1>4 DEF ReadOf

(* A check of an equation takes what there is of the answer, or all.       *)
LEMMA EqCheckAsAssumed == AllInv /\ eq_check => CheckAsAssumed
<1>. SUFFICES ASSUME AllInv, eq_check PROVE CheckAsAssumed
  OBVIOUS
<1>1. /\ kind = "eq" /\ verdict = "none" /\ taken = 0
      /\ verdict' = IF HasNumber(Waiting) /\ NumberIn(Waiting) = Solve(elems, Numbers).val
                    THEN "RIGHT" ELSE "WRONG"
      /\ taken' \in {taken + ReadOf(Waiting), arrived}
  BY DEF eq_check, Asked, AllInv, AnswersInv, Take
<1>2. Waiting \in Seq(AnswerChars) /\ Len(Waiting) = arrived /\ arrived \in Nat
  <2>1. Len(Waiting) = arrived - taken /\ arrived - taken \in Nat /\ Waiting \in Seq(AnswerChars)
    BY <1>1, BytesWaiting DEF AllInv
  <2>2. arrived \in Nat
    BY DEF AllInv, AnswersInv
  <2>3. QED
    BY <1>1, <2>1, <2>2
<1>3. /\ Begin(Waiting) \in 0 .. arrived /\ NumberEnd(Waiting) \in Begin(Waiting) .. arrived
      /\ ReadOf(Waiting) \in 0 .. arrived /\ (arrived > 0 => ReadOf(Waiting) > 0)
  BY <1>2, NumberEnds
<1>t. taken' \in 0 .. arrived /\ (arrived > 0 => taken' > 0)
  <2>1. PICK r \in 0 .. arrived : r = ReadOf(Waiting) /\ (arrived > 0 => r > 0)
    BY <1>3
  <2>2. taken' = taken + r \/ taken' = arrived
    BY <1>1, <2>1
  <2>3. taken + r = r
    BY <1>1, <2>1
  <2>4. QED
    BY <1>2, <2>1, <2>2, <2>3
<1>4. CASE arrived = 0
  <2>1. ~HasNumber(Waiting)
    BY <1>3, <1>4 DEF HasNumber
  <2>2. verdict' = "WRONG" /\ arrived - taken = 0 /\ arrived - taken' = 0
    <3>1. taken' = 0 /\ taken = 0
      BY <1>1, <1>t, <1>4
    <3>2. QED
      BY <1>1, <1>4, <2>1, <3>1
  <2>3. QED
    BY <1>1, <2>2 DEF CheckAsAssumed, CheckedKind, Outcomes
<1>5. CASE arrived > 0
  <2>1. arrived - taken = arrived /\ arrived - taken' \in 0 .. arrived - 1
    <3>1. \A x \in Nat : \A y \in 1 .. x : x - 0 = x /\ x - y \in 0 .. x - 1
      OBVIOUS
    <3>2. taken' \in 1 .. arrived
      BY <1>2, <1>t, <1>5
    <3>3. QED
      BY <1>1, <1>2, <3>1, <3>2
  <2>2. verdict' \in {"RIGHT", "WRONG"}
    BY <1>1
  <2>3. <<verdict', arrived - taken'>> \in Outcomes("whole", arrived)
    BY <1>5, <2>1, <2>2 DEF Outcomes
  <2>4. QED
    BY <1>1, <2>1, <2>2, <2>3 DEF CheckAsAssumed, CheckedKind
<1>6. QED
  BY <1>2, <1>4, <1>5

(* A shellcode task asks for more with nothing left to read, and judges    *)
(* with less left than there was.                                          *)
LEMMA ShellcodeAsAssumed ==
    AllInv /\ (ShellcodeMore \/ ShellcodeJudge) => CheckAsAssumed
<1>. SUFFICES ASSUME AllInv, ShellcodeMore \/ ShellcodeJudge PROVE CheckAsAssumed
  OBVIOUS
<1>1. kind = "shellcode" /\ Asked
  BY DEF ShellcodeMore, ShellcodeJudge
<1>2. /\ verdict = "none" /\ taken \in Nat /\ taken < AnswerLen
      /\ arrived \in Nat /\ taken <= arrived /\ AnswerLen \in Nat /\ needed = AnswerLen - taken
      /\ readen = IF arrived - taken < needed THEN arrived - taken ELSE needed
  BY <1>1, CollectedSoFar DEF AllInv
<1>3. CASE ShellcodeMore
  <2>1. verdict' = "none" /\ arrived - taken' = 0
    BY <1>2, <1>3 DEF ShellcodeMore
  <2>2. QED
    BY <1>1, <2>1 DEF CheckAsAssumed, CheckedKind, Outcomes
<1>4. CASE ShellcodeJudge
  <2>1. readen = needed /\ taken' \in {taken + needed, arrived} /\ verdict' \in {"RIGHT", "WRONG"}
    BY <1>4 DEF ShellcodeJudge, Take
  <2>2. needed \in 1 .. arrived - taken
    <3>1. ~(arrived - taken < needed)
      BY <1>2, <2>1
    <3>2. needed \in Nat /\ needed > 0
      BY <1>2
    <3>3. QED
      BY <1>2, <3>1, <3>2
  <2>3. PICK n \in Nat : n = arrived - taken /\ n # 0
    BY <1>2, <2>2
  <2>4. arrived - taken' \in 0 .. n - 1
    <3>1. PICK k \in 1 .. n : k = needed
      BY <2>2, <2>3
    <3>2. taken' = taken + k \/ taken' = arrived
      BY <2>1, <3>1
    <3>3. PICK x \in Nat, y \in Nat : x = taken /\ y = arrived
      BY <1>2
    <3>4. CASE taken' = taken + k
      <4>1. arrived - taken' = n - k
        BY <2>3, <3>1, <3>3, <3>4
      <4>2. QED
        BY <2>3, <3>1, <4>1
    <3>5. CASE taken' = arrived
      <4>1. arrived - taken' = 0
        BY <3>3, <3>5
      <4>2. QED
        BY <2>3, <4>1
    <3>6. QED
      BY <3>2, <3>4, <3>5
  <2>5. <<verdict', arrived - taken'>> \in Outcomes("stream", n)
    BY <2>1, <2>3, <2>4 DEF Outcomes
  <2>6. QED
    BY <1>1, <2>1, <2>3, <2>5 DEF CheckAsAssumed, CheckedKind
<1>5. QED
  BY <1>3, <1>4

(* Every check does what ServerWorker takes a check of its kind to do      *)
(* (server_worker.c:57-74).                                                *)
THEOREM AnswersChecksAsAssumed == AnswersSpec => ChecksAsAssumed
<1>. DEFINE Kept == arrived' = arrived /\ verdict = "none" /\ elems' = elems /\ state' = state
                       => CheckAsAssumed
<1>1. AllInv /\ AnswersNext => Kept
  <2>. SUFFICES ASSUME AllInv, AnswersNext, arrived' = arrived, verdict = "none",
                       elems' = elems, state' = state
                PROVE  CheckAsAssumed
    OBVIOUS
  <2>1. ~Generate
    <3>1. elems \in Seq(Elements)
      BY DEF AllInv, EqInv, TypeOK
    <3>2. \A x : Emit(x) => FALSE
      <4>1. \A x : Append(elems, x) # elems
        BY <3>1
      <4>2. QED
        BY <4>1 DEF Emit
    <3>3. QED
      BY <3>2 DEF Generate, Next, EmitOp, EmitLeft, EmitRight, EmitNumber, EmitFails, Generating
  <2>2. ~PeerSends
    <3>1. arrived \in Nat
      BY DEF AllInv, AnswersInv
    <3>2. QED
      BY <3>1 DEF PeerSends
  <2>3. CASE echo_gen_check
    <3>1. kind = "echo" /\ verdict' = "RIGHT" /\ taken' = taken
      BY <2>3 DEF echo_gen_check
    <3>2. QED
      BY <3>1 DEF CheckAsAssumed, CheckedKind, Outcomes
  <2>4. CASE CheckFails
    <3>1. verdict' = "unread" /\ taken' = taken
      BY <2>4 DEF CheckFails
    <3>2. QED
      BY <3>1 DEF CheckAsAssumed, FailureOutcome
  <2>5. QED
    BY <2>1, <2>2, <2>3, <2>4, EqCheckAsAssumed, ShellcodeAsAssumed DEF AnswersNext
<1>2. AllInv /\ [AnswersNext]_allVars => [Kept]_allVars
  BY <1>1
<1>. HIDE DEF Kept
<1>3. AnswersSpec => [][Kept]_allVars
  BY <1>2, AnswersStart, AnswersStep, PTL DEF AnswersSpec
<1>4. QED
  BY <1>3 DEF Kept, ChecksAsAssumed
=============================================================================
