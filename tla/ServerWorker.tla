---------------------------- MODULE ServerWorker ----------------------------
(***************************************************************************)
(* One worker of the pool (src/server/server_worker.c) and the clients it  *)
(* serves.                                                                 *)
(*                                                                         *)
(* The worker thread takes one event at a time from its epoll instance and *)
(* handles it: an expired timer, or readiness of a client's socket.  It    *)
(* takes no lock on a client, for it is alone with it, except at the very  *)
(* beginning: server_worker_add_client runs on the acceptor thread and     *)
(* puts the client into the epoll instance before it has finished with it. *)
(* That hand-off is modelled statement by statement, the handler of the    *)
(* worker in the three stages of its code (EPOLLIN, EPOLLOUT, EPOLLRDHUP). *)
(*                                                                         *)
(* A client is one record.  Tasks of its plot are numbered 1..NTasks; a    *)
(* task object, its question and its timer bear the number of the task.    *)
(* Use of a freed object is undefined: it sets ub, and nothing follows.    *)
(***************************************************************************)
EXTENDS Naturals, Sequences, FiniteSets, CheckFd

CONSTANTS
    Clients,    \* the connections that the acceptor may hand off
    NTasks,     \* number of tasks in a client's plot
    Kind,       \* how each task reads an answer: "whole", "stream", "free"
    HasTimeout, \* whether each task has a timeout
    MaxSends,   \* bound: pieces of input that a peer may send
    MayFail,    \* whether malloc, epoll_ctl, timerfd_create... may fail
    NoClient

Tasks == 1..NTasks

ASSUME ConstantsOK ==
    /\ NTasks \in Nat \ {0}
    /\ Kind \in [Tasks -> {"whole", "stream", "free"}]
    /\ HasTimeout \in [Tasks -> BOOLEAN]
    /\ MaxSends \in Nat
    /\ MayFail \in BOOLEAN
    /\ NoClient \notin Clients

VARIABLES
    cl,       \* struct client, per connection
    input,    \* pieces of input in the socket's receive buffer
    sent,     \* pieces the peer has sent so far
    hup,      \* the peer has shut its side down
    wpc,      \* the worker: in epoll_wait, in a handler, or cancelled
    wcl,      \* the client of the event being handled
    wtimer,   \* the timer of the event being handled (0 for a client event)
    wevents,  \* what is left to handle of ev.events
    hpc,      \* where server_worker_add_client is
    hcl,      \* the client it works on
    hnew,     \* its local variables new_task and q
    early,    \* history: clients whose event was taken during their hand-off
    ub,       \* a freed object has been used
    phase     \* progress of server_worker_destroy

peer == <<input, sent, hup>>
worker == <<wpc, wcl, wtimer, wevents>>
handoff == <<hpc, hcl, hnew>>
vars == <<cl, peer, worker, handoff, early, ub, phase>>

Events == {"IN", "OUT", "RDHUP"}

(* What a stream holds: borrowed question texts, a copied prompt, or a     *)
(* prompt borrowed from the stack of client_send_task_text.                *)
Pieces == {"text", "copied", "stack"} \X Tasks

Ongoing(c) == hpc # "idle" /\ hcl = c
Busy(c) == wpc \in {"timer", "client"} /\ wcl = c

NewClient ==
    [life |-> "none", mask |-> {}, task |-> 0, given |-> 0, question |-> 0,
     questions |-> {}, stream |-> <<>>, timers |-> {}, expired |-> {}]

Init ==
    /\ cl = [c \in Clients |-> NewClient]
    /\ input = [c \in Clients |-> 0]
    /\ sent = [c \in Clients |-> 0]
    /\ hup = [c \in Clients |-> FALSE]
    /\ wpc = "wait" /\ wcl = NoClient /\ wtimer = 0 /\ wevents = {}
    /\ hpc = "idle" /\ hcl = NoClient /\ hnew = 0
    /\ early = {}
    /\ ub = FALSE
    /\ phase = "running"

-----------------------------------------------------------------------------
(* Operations on a client, as functions of its record *)

(* client_timer_destroy                                                    *)
TimerDestroyed(r, k) == [r EXCEPT !.timers = @ \ {k}, !.expired = @ \ {k}]

(* Mutants of client_disconnect: the timers, or the question, are left.    *)
DisconnectedKeepsTimers(r) ==
    [r EXCEPT !.life = "freed", !.mask = {}, !.stream = <<>>,
              !.questions = @ \ {r.question}, !.question = 0, !.task = 0]

DisconnectedLeaksQuestion(r) ==
    [r EXCEPT !.life = "freed", !.mask = {}, !.stream = <<>>,
              !.question = 0, !.task = 0, !.timers = {}, !.expired = {}]

(* client_disconnect: unlink, close, free the event, the plot, the stream, *)
(* the current question and task, and every timer.                         *)
Disconnected(r) ==
    [r EXCEPT !.life = "freed", !.mask = {}, !.stream = <<>>,
              !.questions = @ \ {r.question}, !.question = 0, !.task = 0,
              !.timers = {}, !.expired = {}]

(* client_send_task_text: the text is borrowed from the question; the      *)
(* prompt is copied, or borrowed when the task has no timeout.  Either     *)
(* write may fail for want of memory, and its result is not looked at.     *)
Prompt(k) == <<IF HasTimeout[k] THEN "copied" ELSE "stack", k>>

Written(stream, piece) ==
    {Append(stream, piece)} \cup (IF MayFail THEN {stream} ELSE {})

TaskTexts(k) ==
    UNION {Written(s, Prompt(k)) : s \in Written(<<>>, <<"text", k>>)}

(* Mutants of client_next_task: no flush, or the same task again.          *)
AdvancedUnflushed(r, text) ==
    LET k == r.given + 1 IN
    [r EXCEPT !.mask = Events, !.given = k, !.task = k, !.question = k,
              !.questions = @ \cup {k}, !.stream = @ \o text]

AdvancedNowhere(r, text) ==
    LET k == r.given IN
    [r EXCEPT !.mask = Events, !.task = k, !.question = k,
              !.questions = @ \cup {k}, !.stream = text]

(* client_next_task, when it succeeds with this text in the stream.  The   *)
(* question of the old task is overwritten and its timer left alone.       *)
Advanced(r, text) ==
    LET k == r.given + 1 IN
    [r EXCEPT !.mask = Events, !.given = k, !.task = k, !.question = k,
              !.questions = @ \cup {k}, !.stream = text]

(* ... and with the caller's client_disconnect when it fails.              *)
NextTask(r) ==
    (IF r.given < NTasks THEN {Advanced(r, t) : t \in TaskTexts(r.given + 1)} ELSE {})
        \cup (IF r.given = NTasks \/ MayFail THEN {Disconnected(r)} ELSE {})

(* Mutant: an empty buffer asks for more in every kind of task.            *)
CheckEmptyIsMore(k, n) ==
    IF n = 0 /\ Kind[k] # "free" THEN {<<"MORE", 0>>}
    ELSE IF Kind[k] = "free" THEN {<<"RIGHT", n>>}
    ELSE {"RIGHT", "WRONG"} \X (0 .. n - 1)

(* plot_task_check_fd, which may fail before it reads.                     *)
Check(k, n) ==
    (IF MayFail THEN {FailureOutcome(n)} ELSE {}) \cup Outcomes(Kind[k], n)

(* Mutants: EPOLLOUT stays in the mask, or no timer is armed.              *)
CompletedStillPolled(r) ==
    [r EXCEPT !.stream = <<>>, !.questions = @ \ {r.question}, !.question = 0,
              !.timers = IF HasTimeout[r.task] THEN @ \cup {r.task} ELSE @]

CompletedUntimed(r) ==
    [r EXCEPT !.stream = <<>>, !.questions = @ \ {r.question}, !.question = 0,
              !.mask = {"IN", "RDHUP"}]

(* client_send_text, when question # 0: write what the socket takes; after *)
(* the last byte destroy the question, stop polling for EPOLLOUT and arm   *)
(* the timer of the task.                                                  *)
Completed(r) ==
    [r EXCEPT !.stream = <<>>, !.questions = @ \ {r.question}, !.question = 0,
              !.mask = {"IN", "RDHUP"},
              !.timers = IF HasTimeout[r.task] THEN @ \cup {r.task} ELSE @]

SendText(r) ==
    {[r EXCEPT !.stream = SubSeq(@, n, Len(@))] : n \in 1 .. Len(r.stream)}
        \cup {Completed(r)}
        \cup (IF MayFail THEN {Disconnected(r), [Completed(r) EXCEPT !.timers = r.timers]}
              ELSE {})

-----------------------------------------------------------------------------
(* The peers and the clock *)

PeerSends(c) ==
    /\ cl[c].life \in {"none", "live"}
    /\ ~hup[c]
    /\ sent[c] < MaxSends
    /\ sent' = [sent EXCEPT ![c] = @ + 1]
    /\ input' = [input EXCEPT ![c] = @ + 1]
    /\ UNCHANGED <<cl, hup, worker, handoff, early, ub, phase>>

PeerHangsUp(c) ==
    /\ cl[c].life \in {"none", "live"}
    /\ ~hup[c]
    /\ hup' = [hup EXCEPT ![c] = TRUE]
    /\ UNCHANGED <<cl, input, sent, worker, handoff, early, ub, phase>>

(* Mutant: timerfd_settime is forgotten.                                   *)
TimerExpiresNever(c, k) ==
    /\ FALSE
    /\ UNCHANGED vars

TimerExpires(c, k) ==
    /\ k \in cl[c].timers \ cl[c].expired
    /\ cl' = [cl EXCEPT ![c].expired = @ \cup {k}]
    /\ UNCHANGED <<peer, worker, handoff, early, ub, phase>>

-----------------------------------------------------------------------------
(* server_worker_add_client, on the acceptor thread *)

(* The object that the next statement needs is gone: the client, or, where *)
(* line 255 reads them, the task and the question of the local variables.  *)
HandOffDangles ==
    /\ hpc # "idle"
    /\ \/ cl[hcl].life = "freed"
       \/ hpc = "read" /\ (cl[hcl].task # hnew \/ hnew \notin cl[hcl].questions)

HandOffAt(pc) == hpc = pc /\ ~HandOffDangles

(* client_create: the client enters the epoll instance and the ring.       *)
HandOffCreate(c) ==
    /\ hpc = "idle"
    /\ phase = "running"
    /\ cl[c].life = "none"
    /\ cl' = [cl EXCEPT ![c].life = "live", ![c].mask = {"RDHUP"}]
    /\ hpc' = "flush" /\ hcl' = c /\ hnew' = 0
    /\ UNCHANGED <<peer, worker, early, ub, phase>>

HandOffCreateFails(c) ==
    /\ hpc = "idle"
    /\ phase = "running"
    /\ MayFail
    /\ cl[c].life = "none"
    /\ cl' = [cl EXCEPT ![c].life = "freed"]
    /\ UNCHANGED <<peer, worker, handoff, early, ub, phase>>

HandOffFlush ==
    /\ HandOffAt("flush")
    /\ cl' = [cl EXCEPT ![hcl].stream = <<>>, ![hcl].task = 0]
    /\ hpc' = "get"
    /\ UNCHANGED <<peer, worker, hcl, hnew, early, ub, phase>>

(* plot_get_task and plot_task_get_question fill local variables.          *)
HandOffGet ==
    /\ HandOffAt("get")
    /\ hnew' = cl[hcl].given + 1
    /\ cl' = [cl EXCEPT ![hcl].given = hnew', ![hcl].questions = @ \cup {hnew'}]
    /\ hpc' = "mod"
    /\ UNCHANGED <<peer, worker, hcl, early, ub, phase>>

HandOffGetFails ==
    /\ HandOffAt("get")
    /\ MayFail
    /\ hpc' = "fail"
    /\ UNCHANGED <<cl, peer, worker, hcl, hnew, early, ub, phase>>

(* epoll_ctl(EPOLL_CTL_MOD): from here on EPOLLOUT wakes the worker.       *)
HandOffMod ==
    /\ HandOffAt("mod")
    /\ cl' = [cl EXCEPT ![hcl].mask = Events]
    /\ hpc' = "settask"
    /\ UNCHANGED <<peer, worker, hcl, hnew, early, ub, phase>>

HandOffModFails ==
    /\ HandOffAt("mod")
    /\ MayFail
    /\ cl' = [cl EXCEPT ![hcl].questions = @ \ {hnew}]
    /\ hpc' = "fail"
    /\ UNCHANGED <<peer, worker, hcl, hnew, early, ub, phase>>

(* Mutant: the question is published before the task.                      *)
HandOffSetTaskLate ==
    /\ HandOffAt("settask")
    /\ cl' = [cl EXCEPT ![hcl].question = hnew]
    /\ hpc' = "setquestion"
    /\ UNCHANGED <<peer, worker, hcl, hnew, early, ub, phase>>

HandOffSetTask ==
    /\ HandOffAt("settask")
    /\ cl' = [cl EXCEPT ![hcl].task = hnew]
    /\ hpc' = "setquestion"
    /\ UNCHANGED <<peer, worker, hcl, hnew, early, ub, phase>>

HandOffSetQuestion ==
    /\ HandOffAt("setquestion")
    /\ cl' = [cl EXCEPT ![hcl].question = hnew]
    /\ hpc' = "read"
    /\ UNCHANGED <<peer, worker, hcl, hnew, early, ub, phase>>

(* question_get_text and plot_task_get_timeout_msec.                       *)
HandOffRead ==
    /\ HandOffAt("read")
    /\ hpc' = "text"
    /\ UNCHANGED <<cl, peer, worker, hcl, hnew, early, ub, phase>>

HandOffText ==
    /\ HandOffAt("text")
    /\ \E s \in Written(cl[hcl].stream, <<"text", hnew>>) :
          cl' = [cl EXCEPT ![hcl].stream = s]
    /\ hpc' = "prompt"
    /\ UNCHANGED <<peer, worker, hcl, hnew, early, ub, phase>>

HandOffPrompt ==
    /\ HandOffAt("prompt")
    /\ \E s \in Written(cl[hcl].stream, Prompt(hnew)) :
          cl' = [cl EXCEPT ![hcl].stream = s]
    /\ hpc' = "idle" /\ hcl' = NoClient /\ hnew' = 0
    /\ UNCHANGED <<peer, worker, early, ub, phase>>

HandOffDisconnect ==
    /\ HandOffAt("fail")
    /\ cl' = [cl EXCEPT ![hcl] = Disconnected(@)]
    /\ hpc' = "idle" /\ hcl' = NoClient /\ hnew' = 0
    /\ UNCHANGED <<peer, worker, early, ub, phase>>

HandOffUsesFreed ==
    /\ HandOffDangles
    /\ ub' = TRUE
    /\ UNCHANGED <<cl, peer, worker, handoff, early, phase>>

-----------------------------------------------------------------------------
(* worker_handler *)

WorkerDangles == wpc \in {"timer", "client"} /\ cl[wcl].life = "freed"

WorkerIdle == wpc' = "wait" /\ wcl' = NoClient /\ wtimer' = 0 /\ wevents' = {}

(* The stages of a client event are taken in the order of the code; when   *)
(* none is left the worker goes back to epoll_wait.                        *)
Continue(E) ==
    IF E = {} THEN WorkerIdle
    ELSE wpc' = "client" /\ wevents' = E /\ UNCHANGED <<wcl, wtimer>>

(* The client is disconnected, or the handler goes on with the events E.   *)
Outcome(r, E) ==
    /\ cl' = [cl EXCEPT ![wcl] = r]
    /\ IF r.life = "freed" THEN WorkerIdle ELSE Continue(E)

Ready(c, room) ==
    (IF input[c] > 0 \/ hup[c] THEN {"IN"} ELSE {})
        \cup (IF room THEN {"OUT"} ELSE {})
        \cup (IF hup[c] THEN {"RDHUP"} ELSE {})

(* epoll_wait returns one event; it is level-triggered for sockets.        *)
WaitClient(c) ==
    /\ wpc = "wait"
    /\ \E room \in BOOLEAN : wevents' = Ready(c, room) \cap cl[c].mask
    /\ wevents' # {}
    /\ wpc' = "client" /\ wcl' = c
    /\ early' = IF Ongoing(c) THEN early \cup {c} ELSE early
    /\ UNCHANGED <<cl, peer, wtimer, handoff, ub, phase>>

WaitTimer(c, k) ==
    /\ wpc = "wait"
    /\ k \in cl[c].expired
    /\ wpc' = "timer" /\ wcl' = c /\ wtimer' = k
    /\ early' = IF Ongoing(c) THEN early \cup {c} ELSE early
    /\ UNCHANGED <<cl, peer, wevents, handoff, ub, phase>>

(* A timer destroys itself; whatever task the client has now must be       *)
(* answered by what is in the socket buffer.                               *)
HandleTimer ==
    LET r == TimerDestroyed(cl[wcl], wtimer) IN
    /\ wpc = "timer" /\ ~WorkerDangles
    /\ \E a \in Check(r.task, input[wcl]) :
          /\ input' = [input EXCEPT ![wcl] = a[2]]
          /\ \E q \in IF a[1] = "RIGHT" THEN NextTask(r) ELSE {Disconnected(r)} :
                cl' = [cl EXCEPT ![wcl] = q]
    /\ WorkerIdle
    /\ UNCHANGED <<sent, hup, handoff, early, ub, phase>>

AtStage(e) ==
    /\ wpc = "client" /\ ~WorkerDangles
    /\ e \in wevents

HandleInput ==
    /\ AtStage("IN")
    /\ cl[wcl].task # 0
    /\ \E a \in Check(cl[wcl].task, input[wcl]) :
          /\ input' = [input EXCEPT ![wcl] = a[2]]
          /\ \/ a[1] = "WRONG" /\ Outcome(Disconnected(cl[wcl]), {})
             \/ a[1] = "MORE" /\ Outcome(cl[wcl], {})
             \/ /\ a[1] = "RIGHT"
                /\ \E r \in NextTask(cl[wcl]) : Outcome(r, wevents \ {"IN"})
    /\ UNCHANGED <<sent, hup, handoff, early, ub, phase>>

HandleInputNoTask ==
    /\ AtStage("IN")
    /\ cl[wcl].task = 0
    /\ Outcome(cl[wcl], wevents \ {"IN"})
    /\ UNCHANGED <<peer, handoff, early, ub, phase>>

HandleOutput ==
    /\ AtStage("OUT") /\ "IN" \notin wevents
    /\ cl[wcl].question # 0
    /\ \E r \in SendText(cl[wcl]) : Outcome(r, wevents \ {"OUT"})
    /\ UNCHANGED <<peer, handoff, early, ub, phase>>

HandleOutputNoQuestion ==
    /\ AtStage("OUT") /\ "IN" \notin wevents
    /\ cl[wcl].question = 0
    /\ Outcome(cl[wcl], wevents \ {"OUT"})
    /\ UNCHANGED <<peer, handoff, early, ub, phase>>

HandleHangUp ==
    /\ AtStage("RDHUP") /\ wevents = {"RDHUP"}
    /\ Outcome(Disconnected(cl[wcl]), {})
    /\ UNCHANGED <<peer, handoff, early, ub, phase>>

WorkerUsesFreed ==
    /\ WorkerDangles
    /\ ub' = TRUE
    /\ UNCHANGED <<cl, peer, worker, handoff, early, phase>>

-----------------------------------------------------------------------------
(* server_worker_destroy, called after the acceptor has been joined *)

DestroyCancel ==
    /\ phase = "running"
    /\ hpc = "idle"
    /\ phase' = "cancelled"
    /\ UNCHANGED <<cl, peer, worker, handoff, early, ub>>

(* Mutant: cancellation is enabled in the handler and not in epoll_wait.   *)
WorkerCancelledInHandler ==
    /\ wpc = "client"
    /\ phase = "cancelled"
    /\ wpc' = "dead"
    /\ UNCHANGED <<cl, peer, wcl, wtimer, wevents, handoff, early, ub, phase>>

(* Cancellation is enabled around epoll_wait only.                         *)
WorkerCancelled ==
    /\ wpc = "wait"
    /\ phase = "cancelled"
    /\ wpc' = "dead"
    /\ UNCHANGED <<cl, peer, wcl, wtimer, wevents, handoff, early, ub, phase>>

DestroyClients ==
    /\ wpc = "dead"
    /\ phase = "cancelled"
    /\ cl' = [c \in Clients |->
                IF cl[c].life = "live" THEN Disconnected(cl[c]) ELSE cl[c]]
    /\ phase' = "destroyed"
    /\ UNCHANGED <<peer, worker, handoff, early, ub>>

-----------------------------------------------------------------------------

HandOffStep ==
    \/ HandOffFlush
    \/ HandOffGet
    \/ HandOffGetFails
    \/ HandOffMod
    \/ HandOffModFails
    \/ HandOffSetTask
    \/ HandOffSetQuestion
    \/ HandOffRead
    \/ HandOffText
    \/ HandOffPrompt
    \/ HandOffDisconnect
    \/ HandOffUsesFreed

HandlerStep ==
    \/ HandleTimer
    \/ HandleInput
    \/ HandleInputNoTask
    \/ HandleOutput
    \/ HandleOutputNoQuestion
    \/ HandleHangUp
    \/ WorkerUsesFreed

Step ==
    \/ \E c \in Clients : PeerSends(c) \/ PeerHangsUp(c)
    \/ \E c \in Clients, k \in Tasks : TimerExpires(c, k)
    \/ \E c \in Clients : HandOffCreate(c) \/ HandOffCreateFails(c)
    \/ HandOffStep
    \/ \E c \in Clients : WaitClient(c)
    \/ \E c \in Clients, k \in Tasks : WaitTimer(c, k)
    \/ HandlerStep
    \/ DestroyCancel
    \/ WorkerCancelled
    \/ DestroyClients

Next == ~ub /\ Step

Spec == Init /\ [][Next]_vars

(* Threads run.  epoll serves its ready list in turn, so an event that is  *)
(* ready again and again is eventually returned: strong fairness for each  *)
(* source.  A running clock expires every armed timer.  No peer is obliged *)
(* to send, to read or to hang up, nor the acceptor to hand anything off.  *)
Fairness ==
    /\ WF_vars(~ub /\ HandOffStep)
    /\ WF_vars(~ub /\ HandlerStep)
    /\ \A c \in Clients : SF_vars(~ub /\ WaitClient(c))
    /\ \A c \in Clients, k \in Tasks :
          /\ SF_vars(~ub /\ WaitTimer(c, k))
          /\ WF_vars(~ub /\ TimerExpires(c, k))
    /\ SF_vars(~ub /\ WorkerCancelled)
    /\ WF_vars(~ub /\ DestroyClients)

FairSpec == Spec /\ Fairness

-----------------------------------------------------------------------------
(* Properties *)

(* A timer or an unsent question always finds a task to check or to time   *)
(* (the assertions at server_worker.c:332 and 290), in hand-off races too. *)
TaskPresent ==
    \A c \in Clients :
        cl[c].timers # {} \/ cl[c].question # 0 => cl[c].task # 0

(* The raw pointers carried by epoll events never dangle: no order of      *)
(* answers, timers, hang-ups and disconnections makes the worker use a     *)
(* freed client or timer, unless it took an event of a client that the     *)
(* acceptor was still handing off.                                         *)
UseAfterFreeOnlyInHandOff ==
    /\ early = {} => ~ub
    /\ wpc = "timer" /\ early = {} => wtimer \in cl[wcl].timers

(* No handler and no hand-off is at work on the client.                    *)
Settled(c) == cl[c].life = "live" /\ c \notin early /\ ~Ongoing(c) /\ ~Busy(c)

(* Between two events the epoll mask, the question and the stream tell the *)
(* same story: a client is polled for EPOLLOUT exactly while its question  *)
(* is not yet sent (no lost wake-up, no busy loop), bytes are left to send *)
(* only then, and it is polled for input and hang-up always                *)
(* (server_worker.c:245-251, 279-287).  The converse, that an unsent       *)
(* question has bytes left, is part of WaitsOnTheClock.                    *)
PolledWhilePending ==
    \A c \in Clients : Settled(c) =>
        /\ "OUT" \in cl[c].mask <=> cl[c].question # 0
        /\ cl[c].stream # <<>> => cl[c].question # 0
        /\ {"IN", "RDHUP"} \subseteq cl[c].mask

(* Borrowed text belongs to a question that is still alive, the one being  *)
(* sent, of the current task; nothing of an earlier task is ever sent      *)
(* after the next one was given (server_worker.c:229, 281).                *)
BorrowedTextAlive ==
    \A c \in Clients \ early :
        /\ cl[c].question # 0 => cl[c].question \in cl[c].questions
        /\ \A i \in DOMAIN cl[c].stream :
              /\ cl[c].stream[i][2] = cl[c].task
              /\ cl[c].stream[i][1] = "text" =>
                    cl[c].stream[i][2] = cl[c].question

(* When nothing fails, a client whose question is not yet sent has text    *)
(* left in its stream, and one that has been sent the question of a task   *)
(* with a timeout is on the clock (server_worker.c:279-292).  A failed     *)
(* write of the text goes unnoticed and may leave none (216-221).          *)
WaitsOnTheClock ==
    ~MayFail =>
        \A c \in Clients : Settled(c) =>
            IF cl[c].question # 0 THEN cl[c].stream # <<>>
            ELSE HasTimeout[cl[c].task] => cl[c].task \in cl[c].timers

(* A destroyed worker leaves no client, timer or epoll entry behind, and   *)
(* of the questions only those answered before they were sent in full.     *)
DestroyReleasesAll ==
    phase = "destroyed" =>
        \A c \in Clients :
            /\ cl[c].life # "live"
            /\ cl[c].timers = {} /\ cl[c].mask = {} /\ cl[c].stream = <<>>
            /\ cl[c].given \notin cl[c].questions

(* Tasks are given in the order of the plot and each of them once, however *)
(* timers and answers interleave (server_worker.c:225-266): no question is *)
(* made again, and a freed client never changes.                           *)
SessionAction ==
    \A c \in Clients :
        /\ cl[c].life = "freed" => cl'[c] = cl[c]
        /\ cl'[c].given \in {cl[c].given, cl[c].given + 1}
        /\ cl'[c].task \in {0, cl[c].task, cl[c].given, cl[c].given + 1}
        /\ cl'[c].questions \ cl[c].questions \subseteq {cl[c].given + 1}
SessionOnlyAdvances == [][SessionAction]_vars

(* An armed timer fires or is destroyed with its client, whatever the peer *)
(* does meanwhile (server_worker.c:326-341).                               *)
TimerResolves ==
    \A c \in Clients, k \in Tasks : k \in cl[c].timers ~> (ub \/ k \notin cl[c].timers)

(* A peer that hangs up is disconnected, however much input it left behind *)
(* (server_worker.c:345-378).                                              *)
HangUpDisconnects ==
    \A c \in Clients :
        (hup[c] /\ cl[c].life = "live") ~> (ub \/ cl[c].life = "freed")

(* server_worker_destroy, once begun, returns (server_worker.c:436-450).   *)
DestroyTerminates == (phase = "cancelled") ~> (ub \/ phase = "destroyed")

-----------------------------------------------------------------------------
(* What the comments and the README say, and the code does not keep        *)

(* "We can destroy question, because now bst doesn't borrow anything"      *)
(* (server_worker.c:281): a borrowed text outlives its place in a stream.  *)
QuestionOutlivesBorrow ==
    \A c \in Clients, k \in Tasks :
        (\E i \in DOMAIN cl[c].stream : cl[c].stream[i] = <<"text", k>>) =>
            k \in cl[c].questions

(* "plot tasks have timeout" (README.md): when every task has one, a peer  *)
(* that has hung up is not served forever.                                 *)
EveryClientLeaves ==
    \A c \in Clients :
        (cl[c].life = "live" /\ hup[c]) ~> (ub \/ c \in early \/ cl[c].life = "freed")
=============================================================================
