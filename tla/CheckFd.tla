------------------------------ MODULE CheckFd ------------------------------
(***************************************************************************)
(* plot_task_check_fd of src/server/server_worker.c as far as the worker   *)
(* can tell: the verdict on a socket that holds n units of input, and what *)
(* is left of them.  A "whole" answer is read at one go, end of file or an *)
(* empty buffer being a wrong one; a "stream" asks for more; a "free" task *)
(* reads nothing.  stdio may read further than the answer.                 *)
(***************************************************************************)
EXTENDS Naturals

Outcomes(kind, n) ==
    CASE kind = "whole" ->
           IF n = 0 THEN {<<"WRONG", 0>>} ELSE {"RIGHT", "WRONG"} \X (0 .. n - 1)
      [] kind = "stream" ->
           {<<"MORE", 0>>} \cup
             (IF n = 0 THEN {} ELSE {"RIGHT", "WRONG"} \X (0 .. n - 1))
      [] kind = "free" -> {<<"RIGHT", n>>}

(* dup or fdopen fails.                                                    *)
FailureOutcome(n) == <<"WRONG", n>>
=============================================================================
