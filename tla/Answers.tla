------------------------------- MODULE Answers -------------------------------
(***************************************************************************)
(* A task and its answer: eq_check, python_shellcode_check and             *)
(* echo_gen_check behind plot_task_check_fd.  The answer comes over a      *)
(* connection in pieces of any size; every check opens a FILE on it, which *)
(* may read further than the check does, and closes it.                    *)
(*                                                                         *)
(* The equation is EqTask's; of a task of another kind there is nothing to *)
(* generate but the answer.                                                *)
(***************************************************************************)
EXTENDS EqTask, CheckFd

CONSTANTS
    AnswerLen,   \* ANSWER_LEN
    Chars,       \* the characters of an answer to a shellcode task
    MaxBytes     \* bound: bytes sent to a shellcode task

ASSUME AnswersAssumption ==
    AnswerLen \in Nat \ {0} /\ MaxBytes \in Nat

VARIABLES
    kind,        \* "eq", "shellcode" or "echo"
    answer,      \* of a shellcode task
    user_answer, user_answer_len,
    script,      \* what the peer sends, in all
    arrived,     \* how much of it has arrived
    taken,       \* how much of it was read from the socket
    verdict      \* "none" yet, "RIGHT", "WRONG" or "unread" (wrong because
                 \* the FILE could not be opened)

task == <<kind, answer>>
peer == <<script, arrived>>
checked == <<user_answer, user_answer_len, taken, verdict>>
allVars == <<vars, task, peer, checked>>

AllAnswers == [1 .. AnswerLen -> Chars]

AnswersInit ==
    /\ Init
    /\ kind \in {"eq", "shellcode", "echo"}
    /\ kind # "eq" => chain_len = 1
    /\ answer \in IF kind = "shellcode" THEN AllAnswers ELSE {<<>>}
    /\ user_answer \in IF kind = "shellcode" THEN {CHOOSE a \in AllAnswers : TRUE} ELSE {<<>>}
    /\ user_answer_len = 0
    /\ script = <<>> /\ arrived = 0 /\ taken = 0
    /\ verdict = "none"

Generate == kind = "eq" /\ Next /\ UNCHANGED <<task, peer, checked>>

Asked == verdict = "none" /\ (kind = "eq" => state = "done")

-----------------------------------------------------------------------------
(* The peer *)

Numbers == [p \in 1 .. chain_len |-> p + 7]
EqValue == AnswerOf(eq_print(elems, Numbers))
NumberText(n) == IF n < 0 THEN <<"-">> \o Digits(-n) ELSE Digits(n)

(* The right answer to an equation, with a newline before or after it, with*)
(* a digit too many, or none.                                              *)
EqScripts ==
    LET right == NumberText(EqValue) IN
    {right, right \o <<"\n">>, <<"\n">> \o right, right \o <<"1", "\n">>, <<"\n">>}

Scripts ==
    IF kind = "eq" THEN EqScripts ELSE UNION {[1 .. n -> Chars] : n \in 1 .. MaxBytes}

PeerSends ==
    /\ Asked
    /\ script' \in IF script = <<>> THEN Scripts ELSE {script}
    /\ arrived' \in arrived + 1 .. Len(script')
    /\ UNCHANGED <<vars, task, checked>>

-----------------------------------------------------------------------------
(* The checks *)

Waiting == SubSeq(script, taken + 1, arrived)

(* A FILE reads what is asked of it and may go on to the end.              *)
Take(n) == taken' \in {taken + n, arrived}

(* mpz_inp_str: space is skipped, then a sign and digits are read; the     *)
(* character that ends the number is read, too.                            *)
Blank(s) == IF s # <<>> /\ s[1] = "\n" THEN 1 ELSE 0
Sign(s) == IF Blank(s) < Len(s) /\ s[Blank(s) + 1] = "-" THEN 1 ELSE 0
Begin(s) == Blank(s) + Sign(s)
NumberEnd(s) ==
    CHOOSE e \in Begin(s) .. Len(s) :
        /\ \A i \in Begin(s) + 1 .. e : IsDigit(s[i])
        /\ e < Len(s) => ~IsDigit(s[e + 1])
HasNumber(s) == NumberEnd(s) > Begin(s)
NumberIn(s) ==
    LET n == AsRead(SubSeq(s, Begin(s) + 1, NumberEnd(s))).nr[1]
    IN  IF Sign(s) = 1 THEN -n ELSE n
ReadOf(s) == IF NumberEnd(s) < Len(s) THEN NumberEnd(s) + 1 ELSE Len(s)

(* Mutant: more is asked for where there is no number yet.                 *)
EqCheckWaits ==
    /\ kind = "eq" /\ Asked
    /\ verdict' = IF ~HasNumber(Waiting) THEN "none"
                  ELSE IF NumberIn(Waiting) = Solve(elems, Numbers).val
                  THEN "RIGHT" ELSE "WRONG"
    /\ Take(ReadOf(Waiting))
    /\ UNCHANGED <<vars, task, peer, user_answer, user_answer_len>>

eq_check ==
    /\ kind = "eq" /\ Asked
    /\ verdict' = IF HasNumber(Waiting) /\ NumberIn(Waiting) = Solve(elems, Numbers).val
                  THEN "RIGHT" ELSE "WRONG"
    /\ Take(ReadOf(Waiting))
    /\ UNCHANGED <<vars, task, peer, user_answer, user_answer_len>>

needed == AnswerLen - user_answer_len
readen == IF Len(Waiting) < needed THEN Len(Waiting) ELSE needed

(* fread behind what is there already.                                     *)
Filled ==
    [i \in 1 .. AnswerLen |->
        IF i \in user_answer_len + 1 .. user_answer_len + readen
        THEN Waiting[i - user_answer_len] ELSE user_answer[i]]

(* Mutant: what a short read brought is not counted.                       *)
ShellcodeMoreForgets ==
    /\ kind = "shellcode" /\ Asked
    /\ readen < needed
    /\ user_answer' = Filled
    /\ taken' = arrived
    /\ UNCHANGED <<vars, task, peer, user_answer_len, verdict>>

(* python_shellcode_check with too little input, and with enough.          *)
ShellcodeMore ==
    /\ kind = "shellcode" /\ Asked
    /\ readen < needed
    /\ user_answer' = Filled /\ user_answer_len' = user_answer_len + readen
    /\ taken' = arrived
    /\ UNCHANGED <<vars, task, peer, verdict>>

ShellcodeJudge ==
    /\ kind = "shellcode" /\ Asked
    /\ readen = needed
    /\ user_answer' = Filled /\ user_answer_len' = 0
    /\ verdict' = IF Filled = answer THEN "RIGHT" ELSE "WRONG"
    /\ Take(needed)
    /\ UNCHANGED <<vars, task, peer>>

echo_gen_check ==
    /\ kind = "echo" /\ Asked
    /\ verdict' = "RIGHT"
    /\ UNCHANGED <<vars, task, peer, user_answer, user_answer_len, taken>>

(* dup or fdopen fails.                                                    *)
CheckFails ==
    /\ Asked
    /\ verdict' = "unread"
    /\ UNCHANGED <<vars, task, peer, user_answer, user_answer_len, taken>>

AnswersNext ==
    \/ Generate \/ PeerSends
    \/ eq_check \/ ShellcodeMore \/ ShellcodeJudge \/ echo_gen_check \/ CheckFails

AnswersSpec == AnswersInit /\ [][AnswersNext]_allVars

-----------------------------------------------------------------------------
(* Properties *)

Judged == verdict \in {"RIGHT", "WRONG"}

(* However an answer is cut into pieces, a shellcode task collects it in   *)
(* order and without gap, says nothing before the last byte of it is there,*)
(* and RIGHT of the right one only (python_shellcode_gen.c:72-96).  An     *)
(* equation is judged by the number that has arrived by then, which is     *)
(* right when it is the value of the text that the peer was shown          *)
(* (eq_gen.c:66-92).                                                       *)
JudgedAsSent ==
    /\ kind = "shellcode" /\ verdict = "none" =>
          /\ user_answer_len = taken
          /\ \A i \in 1 .. taken : user_answer[i] = script[i]
    /\ kind = "shellcode" /\ Judged =>
          /\ arrived >= AnswerLen
          /\ verdict = "RIGHT" <=> SubSeq(script, 1, AnswerLen) = answer
    /\ kind = "eq" /\ Judged =>
          LET s == SubSeq(script, 1, arrived)
          IN  verdict = "RIGHT" <=> HasNumber(s) /\ NumberIn(s) = EqValue

(* Every check does what ServerWorker takes a check of its kind to do, so  *)
(* that what is shown there of any task holds of these three               *)
(* (server_worker.c:57-74).                                                *)
CheckedKind ==
    CASE kind = "eq" -> "whole" [] kind = "shellcode" -> "stream" [] kind = "echo" -> "free"

CheckAsAssumed ==
    LET n == arrived - taken
        left == arrived - taken'
    IN  \/ verdict' = "unread" /\ <<"WRONG", left>> = FailureOutcome(n)
        \/ <<IF verdict' = "none" THEN "MORE" ELSE verdict', left>> \in Outcomes(CheckedKind, n)

ChecksAsAssumed == [][arrived' = arrived /\ verdict = "none" /\ elems' = elems /\ state' = state
                        => CheckAsAssumed]_allVars
=============================================================================
