---------------------------- MODULE MCLinearPlot ----------------------------
(* Instances of LinearPlot for TLC. *)
EXTENDS LinearPlot
Member(count, base, dec) ==
    [task_count |-> count, timeout_base |-> base, timeout_dec |-> dec]
(* The shape of troll_eq_plot's array, with fewer tasks. *)
ThreeMembers == {<<Member(3, 20, 0), Member(2, 20, 0), Member(1, 20, 0)>>}
=============================================================================
