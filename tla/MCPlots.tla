------------------------------- MODULE MCPlots -------------------------------
(* Instances of Plots for TLC. *)
EXTENDS Plots, TLC
CONSTANTS t1, t2, t3, q1, q2, q3
AllKinds == {"echo", "eq", "shellcode"}
ThreeTasks == {t1, t2, t3}
ThreeQuestions == {q1, q2, q3}
Symmetry == Permutations(ThreeTasks) \cup Permutations(ThreeQuestions)
Member(count, base, dec) ==
    [task_count |-> count, timeout_base |-> base, timeout_dec |-> dec]
OneEach == {<<Member(n, 20, d)>> : n \in 1 .. 3, d \in {0, 2}}
(* Plots of several members, shaped like troll_eq_plot's. *)
Several == {<<Member(1, 20, 0), Member(2, 20, 2)>>,
            <<Member(3, 20, 0), Member(2, 20, 0), Member(1, 20, 0)>>}
AllMembs == OneEach \cup Several
=============================================================================
