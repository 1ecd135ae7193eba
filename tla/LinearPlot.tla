----------------------------- MODULE LinearPlot -----------------------------
(***************************************************************************)
(* The linear plot (src/plots/templates/linear_plot_template): members in  *)
(* order, of each a number of tasks from its gen; and troll_eq_plot, which *)
(* makes the gens and the plot.  One plot belongs to one client.           *)
(*                                                                         *)
(* Of a gen the model keeps whether it is alive, and notes any use of a    *)
(* gen that is not: a second gen_destroy or a gen_generate.  The tasks of  *)
(* a gen survive it (module Gens).                                         *)
(***************************************************************************)
EXTENDS Integers, Sequences, FiniteSets

CONSTANTS
    Membs,       \* arrays of members that a constructor may pass
    WordSize,    \* an unsigned long holds 0 .. WordSize - 1
    MayFail      \* whether malloc and generators may fail

MembsOK ==
    /\ WordSize \in Nat
    /\ MayFail \in BOOLEAN
    /\ \A m \in Membs : m # <<>> /\
          m \in Seq([task_count : Nat \ {0},
                     timeout_base : 0 .. WordSize - 1, timeout_dec : 0 .. WordSize - 1])

VARIABLES
    membs,       \* the array that the constructor passes; gen k is membs[k]'s
    plot,        \* "unmade", "making", "copying", "alive", "destroyed", "failed"
    gens,        \* "unmade", "alive" or "destroyed", per gen
    members,     \* lpp->members: which of membs, per member
    cur_member_index, cur_task_nr,
    timeout,     \* msec_timemout of the last task handed out
    misused      \* history: the gens used or destroyed when not alive

Count == Len(membs)
GenIds == 1 .. Count

vars == <<membs, plot, gens, members, cur_member_index, cur_task_nr, timeout, misused>>

(* gen_destroy of every gen in the sequence s, one after the other.        *)
Destroyed(s) ==
    LET times(g) == Cardinality({k \in DOMAIN s : s[k] = g}) IN
    /\ gens' = [g \in GenIds |-> IF times(g) > 0 THEN "destroyed" ELSE gens[g]]
    /\ misused' = misused \cup {g \in GenIds :
                     times(g) > (IF gens[g] = "alive" THEN 1 ELSE 0)}

Init ==
    /\ membs \in Membs
    /\ plot = "unmade"
    /\ gens = [g \in GenIds |-> "unmade"]
    /\ members = <<>>
    /\ cur_member_index = 0
    /\ cur_task_nr = 0
    /\ timeout = 0
    /\ misused = {}

-----------------------------------------------------------------------------
(* troll_eq_plot_create *)

NextGen == Cardinality({g \in GenIds : gens[g] = "alive"}) + 1

CreateGen ==
    /\ plot \in {"unmade", "making"}
    /\ NextGen <= Count
    /\ gens' = [gens EXCEPT ![NextGen] = "alive"]
    /\ plot' = IF NextGen = Count THEN "copying" ELSE "making"
    /\ UNCHANGED <<membs, members, cur_member_index, cur_task_nr, timeout, misused>>

(* Mutant: the gens made before are kept.                                  *)
CreateFailsKeeping ==
    /\ MayFail
    /\ plot \in {"unmade", "making", "copying"}
    /\ plot' = "failed"
    /\ UNCHANGED <<membs, gens, members, cur_member_index, cur_task_nr, timeout, misused>>

(* A gen or the plot cannot be made: the gens made so far are destroyed.   *)
CreateFails ==
    /\ MayFail
    /\ plot \in {"unmade", "making", "copying"}
    /\ plot' = "failed"
    /\ Destroyed([g \in 1 .. NextGen - 1 |-> g])
    /\ UNCHANGED <<membs, members, cur_member_index, cur_task_nr, timeout>>

(* linear_plot_create: membs is never advanced, so every member is the     *)
(* first.                                                                  *)
LinearPlotCreate ==
    /\ plot = "copying"
    /\ plot' = "alive"
    /\ members' = [k \in GenIds |-> 1]
    /\ cur_member_index' = 0
    /\ cur_task_nr' = 0
    /\ UNCHANGED <<membs, gens, timeout, misused>>

-----------------------------------------------------------------------------
(* linear_plot_get_task; at the end of the members it returns ENOTASK.     *)

HasTask == plot = "alive" /\ cur_member_index < Count
cur_gen == members[cur_member_index + 1]
cur_member == membs[cur_gen]

TaskTimeout(m) == (m.timeout_base - m.task_count * m.timeout_dec) % WordSize

Used(g) == IF gens[g] = "alive" THEN {} ELSE {g}

(* The last task of a member takes its gen along.                          *)
GetLastTask ==
    /\ HasTask
    /\ cur_task_nr + 1 = cur_member.task_count
    /\ timeout' = TaskTimeout(cur_member)
    /\ gens' = [gens EXCEPT ![cur_gen] = "destroyed"]
    /\ misused' = misused \cup Used(cur_gen)
    /\ cur_member_index' = cur_member_index + 1
    /\ cur_task_nr' = 0
    /\ UNCHANGED <<membs, plot, members>>

GetTask ==
    /\ HasTask
    /\ cur_task_nr + 1 # cur_member.task_count
    /\ timeout' = TaskTimeout(cur_member)
    /\ misused' = misused \cup Used(cur_gen)
    /\ cur_task_nr' = cur_task_nr + 1
    /\ UNCHANGED <<membs, plot, gens, members, cur_member_index>>

(* gen_generate or malloc fails: the gen was used, nothing else changes.   *)
GetTaskFails ==
    /\ MayFail
    /\ HasTask
    /\ misused' = misused \cup Used(cur_gen)
    /\ UNCHANGED <<membs, plot, gens, members, cur_member_index, cur_task_nr, timeout>>

-----------------------------------------------------------------------------
(* plot_destroy, linear_plot_priv_destroy *)

(* Mutant: every member's gen is destroyed again.                          *)
PlotDestroyAll ==
    /\ plot = "alive"
    /\ plot' = "destroyed"
    /\ Destroyed([k \in 1 .. Count |-> members[k]])
    /\ UNCHANGED <<membs, members, cur_member_index, cur_task_nr, timeout>>

PlotDestroy ==
    /\ plot = "alive"
    /\ plot' = "destroyed"
    /\ Destroyed([k \in 1 .. Count - cur_member_index |-> members[cur_member_index + k]])
    /\ UNCHANGED <<membs, members, cur_member_index, cur_task_nr, timeout>>

Next ==
    \/ CreateGen \/ CreateFails \/ LinearPlotCreate
    \/ GetTask \/ GetLastTask \/ GetTaskFails
    \/ PlotDestroy

Spec == Init /\ [][Next]_vars

-----------------------------------------------------------------------------
(* Properties *)

(* A gen is never used after, nor destroyed again once, it was destroyed:  *)
(* neither with its last task nor with the plot ("gens of all previous     *)
(* gens were already destroyed", linear_plot_template.c:19).               *)
GensUsedAlive == misused = {}

(* No gen outlives its plot, however many tasks were handed out, nor the   *)
(* failure to make the plot (troll_eq_plot.c:45-52).                       *)
NoGenLeaks == plot \in {"destroyed", "failed"} => \A g \in GenIds : gens[g] # "alive"
=============================================================================
