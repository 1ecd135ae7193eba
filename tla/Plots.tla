-------------------------------- MODULE Plots --------------------------------
(***************************************************************************)
(* A plot together with the gen of its first member, that gen's tasks and  *)
(* their questions: LinearPlot composed with Gens.                         *)
(*                                                                         *)
(* The plot makes the gens, asks the first for every task, since each of   *)
(* its members is a copy of the first, and destroys it with the last task; *)
(* tasks and questions belong to the client and outlive gen and plot.  A   *)
(* plot of several members goes on to use the dead gen: from there on the  *)
(* program is undefined and the model stops.                               *)
(***************************************************************************)
EXTENDS Gens, Sequences

CONSTANTS
    Membs,      \* arrays of members, of any length, that a constructor may pass
    TimeSize    \* an unsigned timeout holds 0 .. TimeSize - 1

VARIABLES membs, plot, gens, members, cur_member_index, cur_task_nr, timeout, misused

P == INSTANCE LinearPlot WITH WordSize <- TimeSize

ASSUME PlotsConstantsOK ==
    /\ P!MembsOK
    /\ \A m \in Membs : m[1].task_count <= Cardinality(Tasks)

plotVars ==
    <<membs, plot, gens, members, cur_member_index, cur_task_nr, timeout, misused>>
allVars == <<vars, plotVars>>

PlotsInit == Init /\ P!Init

-----------------------------------------------------------------------------
(* The plot and its gens; Gen is the first *)

CreateGen ==
    /\ P!CreateGen
    /\ IF P!NextGen = 1 THEN GenCreate ELSE UNCHANGED vars

(* The gens that were made are destroyed again.                            *)
CreateFails ==
    /\ P!CreateFails
    /\ IF object[Gen] = "alive" THEN GenDestroy ELSE UNCHANGED vars

LinearPlotCreate == P!LinearPlotCreate /\ UNCHANGED vars

GetTask(t) == P!GetTask /\ misused' = {} /\ Generate(t)

(* Mutant: the gen goes without giving up its reference.                   *)
GenerateLastKeeping(t) ==
    /\ object[Gen] = "alive"
    /\ object[t] = "unmade"
    /\ object' = [object EXCEPT ![t] = "alive", ![Gen] = "destroyed"]
    /\ IF kind = "echo" THEN Take(Gen) ELSE UNCHANGED <<text, counter>>
    /\ UNCHANGED <<kind, task_of, cached, crashed>>

(* gen_generate, then gen_destroy: the task's reference is taken before    *)
(* the gen's is given up.                                                  *)
GenerateLast(t) ==
    /\ object[Gen] = "alive"
    /\ object[t] = "unmade"
    /\ object' = [object EXCEPT ![t] = "alive", ![Gen] = "destroyed"]
    /\ UNCHANGED <<kind, task_of, text, counter, cached, crashed>>

GetLastTask(t) == P!GetLastTask /\ misused' = {} /\ GenerateLast(t)

(* gen_generate fails.                                                     *)
GetTaskFails == P!GetTaskFails /\ misused' = {} /\ UNCHANGED vars

PlotDestroy ==
    /\ P!PlotDestroy /\ misused' = {}
    /\ IF P!HasTask THEN GenDestroy ELSE UNCHANGED vars

(* A call that uses a gen, or destroys it, when it is not alive: undefined *)
(* behaviour, after which nothing is said of the program any more.         *)
Misuse ==
    /\ P!GetTask \/ P!GetLastTask \/ P!GetTaskFails \/ P!PlotDestroy
    /\ misused' # {}
    /\ UNCHANGED vars

(* The client's questions and tasks, while the plot lives or after it.     *)
ClientStep ==
    /\ \/ \E t \in Tasks, q \in Questions : AskAgain(q, t) \/ AskFirst(q, t)
       \/ \E t \in Tasks : AskFailsCached(t) \/ AskFailsUnwritten(t) \/ TaskDestroy(t)
       \/ \E q \in Questions : QuestionDestroy(q)
    /\ UNCHANGED plotVars

PlotsNext ==
    /\ ~crashed /\ misused = {}
    /\ \/ CreateGen \/ CreateFails \/ LinearPlotCreate
       \/ \E t \in Tasks : GetTask(t) \/ GetLastTask(t)
       \/ GetTaskFails \/ PlotDestroy \/ Misuse
       \/ ClientStep

PlotsSpec == PlotsInit /\ [][PlotsNext]_allVars

-----------------------------------------------------------------------------
(* Properties *)

(* A gen is used after its destruction, or destroyed twice, only by a plot *)
(* of several members, and then only by what follows the last task of the  *)
(* first member or by plot_destroy; never by a plot of one member          *)
(* (linear_plot_template.c:13-63).                                         *)
TasksGiven == Cardinality({t \in Tasks : object[t] # "unmade"})

GensUsedAlive ==
    misused # {} => /\ Len(membs) > 1
                    /\ plot = "destroyed" \/ TasksGiven = membs[1].task_count

(* No gen outlives a plot that could not be made or that has one member,   *)
(* the first gen outlives no plot; and until the first undefined use the   *)
(* gen that a living plot counts on is there and goes with the last of the *)
(* task_count tasks that it owes the client, neither earlier nor later     *)
(* (troll_eq_plot.c:45-52; linear_plot_template.c:15-63).                  *)
NoGenLeaks ==
    /\ plot = "failed" \/ Len(membs) = 1 => P!NoGenLeaks
    /\ plot = "destroyed" => gens[1] # "alive"
    /\ misused = {} =>
          /\ object[Gen] = gens[1]
          /\ plot = "alive" =>
                (gens[1] = "destroyed" <=> TasksGiven = membs[1].task_count)

-----------------------------------------------------------------------------
(* The inductive invariant *)

AllFirst == members = [k \in P!GenIds |-> 1]

(* The first n gens are made, the plot is not.                             *)
Making(n) ==
    /\ plot \in {"unmade", "making", "copying"}
    /\ plot = "copying" <=> n = Len(membs)
    /\ gens = [g \in P!GenIds |-> IF g <= n THEN "alive" ELSE "unmade"]
    /\ object[Gen] = gens[1]
    /\ TasksGiven = 0

(* The plot owes tasks of its first member and the gen lives; every task   *)
(* but the cur_task_nr made so far is unmade (linear_plot_template.c:      *)
(* 15-63, troll_eq_plot.c:45-52).                                          *)
Giving ==
    /\ plot = "alive" /\ AllFirst /\ cur_member_index = 0
    /\ gens[1] = "alive" /\ object[Gen] = "alive"
    /\ TasksGiven = cur_task_nr /\ cur_task_nr < membs[1].task_count

(* All tasks of the first member are given and its gen is gone.            *)
Given ==
    /\ plot = "alive" /\ AllFirst /\ cur_member_index = 1
    /\ gens[1] = "destroyed" /\ object[Gen] = "destroyed"
    /\ TasksGiven = membs[1].task_count

(* The plot is gone, and so are the gens that it looks after.              *)
Over ==
    /\ plot \in {"destroyed", "failed"}
    /\ object[Gen] = gens[1] /\ gens[1] # "alive"
    /\ plot = "failed" \/ Len(membs) = 1 => \A g \in P!GenIds : gens[g] # "alive"

(* A dead gen was used.                                                    *)
Undefined ==
    /\ misused # {} /\ Len(membs) > 1 /\ gens[1] # "alive"
    /\ \/ plot = "destroyed"
       \/ plot = "alive" /\ TasksGiven = membs[1].task_count

PlotInv ==
    /\ membs \in Membs
    /\ DOMAIN gens = P!GenIds
    /\ \/ Undefined
       \/ /\ misused = {}
          /\ (\E n \in 0 .. Len(membs) : Making(n)) \/ Giving \/ Given \/ Over

PlotsInv == GensInv /\ PlotInv
==============================================================================
