-------------------------- MODULE ServerWorkerProofs --------------------------
(***************************************************************************)
(* Machine-checked proofs about ServerWorker, for any number of clients and*)
(* tasks.                                                                  *)
(*                                                                         *)
(* The invariant looks at one client at a time, at the stage s of its      *)
(* hand-off ("idle" when it is in none) and at the task n that the acceptor*)
(* has in its local variables.  AnyOK holds of every client.  CalmOK is    *)
(* what is known in addition of a client none of whose events was taken    *)
(* during its hand-off: worker and acceptor are never both at work on it.  *)
(***************************************************************************)
EXTENDS ServerWorker, SequenceTheorems, TLAPS

Record ==
    [life : {"none", "live", "freed"}, mask : SUBSET Events,
     task : 0 .. NTasks, given : 0 .. NTasks, question : 0 .. NTasks,
     questions : SUBSET (0 .. NTasks), stream : Seq(Pieces),
     timers : SUBSET Tasks, expired : SUBSET Tasks]

(* Before the acceptor has set the task, and from then on.                 *)
Early == {"flush", "get", "mod", "settask", "fail"}
Late == {"setquestion", "read", "text", "prompt"}

Empty(r) ==
    /\ r.mask = {} /\ r.task = 0 /\ r.question = 0 /\ r.stream = <<>>
    /\ r.timers = {} /\ r.expired = {}

(* The worker can do nothing yet but disconnect the client.                *)
Fresh(r, s, n) ==
    /\ r.task = 0 /\ r.question = 0 /\ r.stream = <<>>
    /\ r.timers = {} /\ r.expired = {}
    /\ r.given = n
    /\ r.questions = IF s \in {"mod", "settask"} THEN {n} ELSE {}
    /\ r.mask = IF s = "settask" THEN Events ELSE {"RDHUP"}

LiveOK(r, s, n) ==
    /\ s \in Early => Fresh(r, s, n)
    /\ s \notin Early => r.task = r.given /\ r.task # 0
    /\ s \in {"setquestion", "read"} => r.given >= n
    /\ s \in {"text", "prompt", "idle"} \/ (s = "read" /\ r.given = n) =>
          (r.given \in r.questions => r.question = r.given)

AnyOK(r, s, n) ==
    /\ r \in Record
    /\ r.expired \subseteq r.timers
    /\ r.timers # {} \/ r.question # 0 => r.task # 0
    /\ r.life = "none" => s = "idle" /\ r = NewClient
    /\ r.life = "live" => LiveOK(r, s, n)
    /\ r.life = "freed" => Empty(r) /\ (s = "idle" => r.given \notin r.questions)

Polled(r) ==
    /\ "OUT" \in r.mask <=> r.question # 0
    /\ r.stream # <<>> => r.question # 0
    /\ ~MayFail /\ r.question # 0 => r.stream # <<>>
    /\ {"IN", "RDHUP"} \subseteq r.mask

Borrowed(r) ==
    /\ r.question # 0 => r.question \in r.questions
    /\ \A i \in DOMAIN r.stream :
          /\ r.stream[i][2] = r.task
          /\ r.stream[i][1] = "text" => r.stream[i][2] = r.question

(* Nothing left to send: the clock of the task runs.                       *)
Timed(r) == ~MayFail /\ r.stream = <<>> /\ HasTimeout[r.task] => r.task \in r.timers

CalmOK(r, s, n) ==
    /\ s # "idle" => r.life = "live"
    /\ s \in Late =>
          /\ r.mask = Events /\ r.task = n /\ n \in r.questions
          /\ r.question = (IF s = "setquestion" THEN 0 ELSE n)
          /\ IF s = "prompt" THEN r.stream \in Written(<<>>, <<"text", n>>)
             ELSE r.stream = <<>>
    /\ s = "idle" /\ r.life = "live" => Polled(r) /\ Borrowed(r) /\ Timed(r)

Stage(c) == IF hcl = c THEN hpc ELSE "idle"

HandOffInv ==
    /\ hpc \in Early \cup Late \cup {"idle"}
    /\ hcl \in Clients \cup {NoClient}
    /\ hpc # "idle" => hcl \in Clients
    /\ hnew \in 0 .. NTasks
    /\ hpc \in {"flush", "get"} => hnew = 0
    /\ hpc \in {"mod", "settask"} \cup Late => hnew \in Tasks

WorkerInv ==
    /\ wpc \in {"wait", "timer", "client", "dead"}
    /\ wtimer \in 0 .. NTasks
    /\ wevents \in SUBSET Events
    /\ wpc \in {"timer", "client"} =>
          /\ wcl \in Clients
          /\ cl[wcl].life # "none"
          /\ wcl \notin early => Stage(wcl) = "idle" /\ cl[wcl].life = "live"
          /\ wpc = "timer" /\ cl[wcl].life = "live" => wtimer \in cl[wcl].timers

PhaseInv ==
    /\ phase \in {"running", "cancelled", "destroyed"}
    /\ phase # "running" => hpc = "idle"
    /\ phase = "destroyed" => \A c \in Clients : cl[c].life # "live"
    /\ early = {} => ~ub

IInv ==
    /\ cl \in [Clients -> Record]
    /\ input \in [Clients -> Nat]
    /\ \A c \in Clients : AnyOK(cl[c], Stage(c), hnew)
    /\ \A c \in Clients \ early : CalmOK(cl[c], Stage(c), hnew)
    /\ HandOffInv /\ WorkerInv /\ PhaseInv

-----------------------------------------------------------------------------
(* What the operations on a client leave in its record *)

LEMMA PromptType ==
    ASSUME NEW k \in Tasks
    PROVE  /\ Prompt(k) \in {"copied", "stack"} \X {k}
           /\ Prompt(k) \in Pieces /\ <<"text", k>> \in Pieces
<1>1. Prompt(k) \in {"copied", "stack"} \X {k}
  BY DEF Prompt
<1>2. QED
  BY <1>1 DEF Pieces

(* A write appends one piece, or nothing where it may fail.                *)
LEMMA WrittenType ==
    ASSUME NEW stream \in Seq(Pieces), NEW piece \in Pieces, NEW t \in Written(stream, piece)
    PROVE  /\ t \in Seq(Pieces)
           /\ ~MayFail => t # <<>>
           /\ \A i \in DOMAIN t : t[i] = piece \/ \E j \in DOMAIN stream : t[i] = stream[j]
<1>1. CASE t = Append(stream, piece)
  <2>1. t \in Seq(Pieces) /\ Len(t) = Len(stream) + 1
    BY <1>1
  <2>2. \A i \in 1 .. Len(t) : t[i] = IF i = Len(stream) + 1 THEN piece ELSE stream[i]
    BY <1>1
  <2>3. DOMAIN t = 1 .. Len(t) /\ DOMAIN stream = 1 .. Len(stream) /\ Len(stream) \in Nat
    BY <2>1
  <2>4. QED
    BY <2>1, <2>2, <2>3
<1>2. CASE MayFail /\ t = stream
  BY <1>2
<1>3. QED
  BY <1>1, <1>2 DEF Written

LEMMA TaskTextType ==
    ASSUME NEW k \in Tasks, NEW t \in TaskTexts(k)
    PROVE  /\ t \in Seq(Pieces)
           /\ ~MayFail => t # <<>>
           /\ \A i \in DOMAIN t : t[i][2] = k
<1>1. PICK u \in Written(<<>>, <<"text", k>>) : t \in Written(u, Prompt(k))
  BY DEF TaskTexts
<1>2. Prompt(k) \in Pieces /\ <<"text", k>> \in Pieces /\ Prompt(k)[2] = k
  BY PromptType
<1>3. u \in Seq(Pieces) /\ \A i \in DOMAIN u : u[i] = <<"text", k>>
  <2>1. <<>> \in Seq(Pieces) /\ DOMAIN <<>> = {}
    OBVIOUS
  <2>2. QED
    BY <1>1, <1>2, <2>1, WrittenType
<1>4. /\ t \in Seq(Pieces) /\ (~MayFail => t # <<>>)
      /\ \A i \in DOMAIN t : t[i] = Prompt(k) \/ \E j \in DOMAIN u : t[i] = u[j]
  BY <1>1, <1>2, <1>3, WrittenType
<1>5. \A i \in DOMAIN t : t[i] = Prompt(k) \/ t[i] = <<"text", k>>
  BY <1>3, <1>4
<1>6. QED
  BY <1>2, <1>4, <1>5

LEMMA DisconnectedFields ==
    ASSUME NEW r \in Record
    PROVE  /\ Disconnected(r) \in Record
           /\ Disconnected(r).life = "freed"
           /\ Empty(Disconnected(r))
           /\ Disconnected(r).given = r.given
           /\ Disconnected(r).questions = r.questions \ {r.question}
<1>. 0 \in 0 .. NTasks /\ <<>> \in Seq(Pieces)
  BY ConstantsOK
<1>. QED
  BY DEF Disconnected, Record, Empty

LEMMA TimerDestroyedFields ==
    ASSUME NEW r \in Record, NEW k
    PROVE  LET q == TimerDestroyed(r, k) IN
           /\ q \in Record
           /\ q.life = r.life /\ q.mask = r.mask /\ q.task = r.task /\ q.given = r.given
           /\ q.question = r.question /\ q.questions = r.questions /\ q.stream = r.stream
           /\ q.timers = r.timers \ {k} /\ q.expired = r.expired \ {k}
BY DEF TimerDestroyed, Record

LEMMA AdvancedFields ==
    ASSUME NEW r \in Record, r.given < NTasks, NEW t \in TaskTexts(r.given + 1)
    PROVE  LET q == Advanced(r, t) IN
           /\ q \in Record
           /\ q.life = r.life /\ q.mask = Events
           /\ q.task = r.given + 1 /\ q.given = r.given + 1 /\ q.question = r.given + 1
           /\ q.questions = r.questions \cup {r.given + 1}
           /\ q.stream = t
           /\ q.timers = r.timers /\ q.expired = r.expired
           /\ r.given + 1 \in Tasks
<1>1. r.given + 1 \in Tasks /\ r.given + 1 \in 0 .. NTasks
  BY ConstantsOK DEF Tasks, Record
<1>2. t \in Seq(Pieces)
  BY <1>1, TaskTextType
<1>3. Events \in SUBSET Events
  OBVIOUS
<1>4. QED
  BY <1>1, <1>2, <1>3 DEF Advanced, Record

LEMMA CompletedFields ==
    ASSUME NEW r \in Record, r.task # 0
    PROVE  LET q == Completed(r) IN
           /\ q \in Record
           /\ q.life = r.life /\ q.mask = {"IN", "RDHUP"}
           /\ q.task = r.task /\ q.given = r.given /\ q.question = 0
           /\ q.questions = r.questions \ {r.question}
           /\ q.stream = <<>>
           /\ q.timers \in {r.timers, r.timers \cup {r.task}} /\ q.expired = r.expired
           /\ HasTimeout[r.task] => r.task \in q.timers
<1>1. r.task \in Tasks
  BY ConstantsOK DEF Tasks, Record
<1>2. 0 \in 0 .. NTasks /\ <<>> \in Seq(Pieces) /\ {"IN", "RDHUP"} \in SUBSET Events
  BY ConstantsOK DEF Events
<1>3. QED
  BY <1>1, <1>2 DEF Completed, Record

-----------------------------------------------------------------------------
(* The worker's operations keep what is known of a client *)

LEMMA DisconnectedKeeps ==
    ASSUME NEW r, NEW s, NEW n, AnyOK(r, s, n), r.life = "live"
    PROVE  /\ AnyOK(Disconnected(r), s, n)
           /\ CalmOK(Disconnected(r), "idle", n)
<1>. DEFINE q == Disconnected(r)
<1>1. /\ q \in Record /\ q.life = "freed" /\ Empty(q) /\ q.given = r.given
      /\ q.questions = r.questions \ {r.question}
  BY DisconnectedFields DEF AnyOK
<1>. HIDE DEF q
<1>2. s = "idle" => q.given \notin q.questions
  BY <1>1 DEF AnyOK, LiveOK
<1>3. AnyOK(q, s, n)
  BY <1>1, <1>2 DEF AnyOK, Empty
<1>4. CalmOK(q, "idle", n)
  BY <1>1 DEF CalmOK, Late
<1>. QED
  BY <1>3, <1>4 DEF q

LEMMA TimerDestroyedKeeps ==
    ASSUME NEW r, NEW s, NEW n, NEW k, AnyOK(r, s, n), r.life = "live"
    PROVE  /\ AnyOK(TimerDestroyed(r, k), s, n)
           /\ TimerDestroyed(r, k).life = "live"
           /\ TimerDestroyed(r, k).task = r.task
<1>. DEFINE q == TimerDestroyed(r, k)
<1>1. /\ q \in Record
      /\ q.life = r.life /\ q.mask = r.mask /\ q.task = r.task /\ q.given = r.given
      /\ q.question = r.question /\ q.questions = r.questions /\ q.stream = r.stream
      /\ q.timers = r.timers \ {k} /\ q.expired = r.expired \ {k}
  BY TimerDestroyedFields DEF AnyOK
<1>. HIDE DEF q
<1>2. LiveOK(q, s, n)
  BY <1>1 DEF AnyOK, LiveOK, Fresh
<1>3. AnyOK(q, s, n)
  BY <1>1, <1>2 DEF AnyOK
<1>. QED
  BY <1>1, <1>3 DEF q

LEMMA AdvancedKeeps ==
    ASSUME NEW r, NEW s, NEW n \in 0 .. NTasks, AnyOK(r, s, n), r.life = "live",
           r.task # 0, r.given < NTasks, NEW t \in TaskTexts(r.given + 1)
    PROVE  AnyOK(Advanced(r, t), s, n) /\ CalmOK(Advanced(r, t), "idle", n)
<1>. DEFINE q == Advanced(r, t)
            k == r.given + 1
<1>1. /\ q \in Record
      /\ q.life = "live" /\ q.mask = Events
      /\ q.task = k /\ q.given = k /\ q.question = k
      /\ q.questions = r.questions \cup {k}
      /\ q.stream = t
      /\ q.timers = r.timers /\ q.expired = r.expired
      /\ k \in Tasks
  BY AdvancedFields DEF AnyOK
<1>. HIDE DEF q
<1>2. s \notin Early /\ r.given \in Nat /\ k # 0
  BY <1>1, ConstantsOK DEF AnyOK, LiveOK, Fresh, Record, Tasks
<1>3. s \in {"setquestion", "read"} => k >= n
  BY <1>2 DEF AnyOK, LiveOK
<1>4. LiveOK(q, s, n)
  BY <1>1, <1>2, <1>3 DEF LiveOK
<1>5. AnyOK(q, s, n)
  BY <1>1, <1>2, <1>4 DEF AnyOK
<1>6. /\ ~MayFail => q.stream # <<>>
      /\ \A i \in DOMAIN q.stream : q.stream[i][2] = k
  BY <1>1, TaskTextType
<1>7. Polled(q)
  BY <1>1, <1>2, <1>6 DEF Polled, Events
<1>8. Borrowed(q)
  BY <1>1, <1>6 DEF Borrowed
<1>9. QED
  BY <1>5, <1>6, <1>7, <1>8 DEF CalmOK, Late, Timed, q

LEMMA CompletedKeeps ==
    ASSUME NEW r, NEW s, NEW n, AnyOK(r, s, n), r.life = "live", r.question # 0,
           NEW q, q = Completed(r) \/ (MayFail /\ q = [Completed(r) EXCEPT !.timers = r.timers])
    PROVE  AnyOK(q, s, n) /\ CalmOK(q, "idle", n) /\ q.life = "live"
<1>0. r \in Record /\ r.task # 0
  BY DEF AnyOK
<1>1. /\ q \in Record
      /\ q.life = "live" /\ q.mask = {"IN", "RDHUP"}
      /\ q.task = r.task /\ q.given = r.given /\ q.question = 0
      /\ q.questions = r.questions \ {r.question}
      /\ q.stream = <<>>
      /\ r.timers \subseteq q.timers /\ q.expired = r.expired
      /\ ~MayFail /\ HasTimeout[r.task] => r.task \in q.timers
  <2>. DEFINE p == Completed(r)
  <2>1. /\ p \in Record
        /\ p.life = r.life /\ p.mask = {"IN", "RDHUP"}
        /\ p.task = r.task /\ p.given = r.given /\ p.question = 0
        /\ p.questions = r.questions \ {r.question}
        /\ p.stream = <<>>
        /\ p.timers \in {r.timers, r.timers \cup {r.task}} /\ p.expired = r.expired
        /\ HasTimeout[r.task] => r.task \in p.timers
    BY <1>0, CompletedFields
  <2>. HIDE DEF p
  <2>2. CASE q = p
    BY <2>1, <2>2
  <2>3. CASE MayFail /\ q = [p EXCEPT !.timers = r.timers]
    BY <1>0, <2>1, <2>3 DEF Record
  <2>4. QED
    BY <2>2, <2>3 DEF p
<1>2. s \notin Early
  BY <1>0 DEF AnyOK, LiveOK, Fresh
<1>3. LiveOK(q, s, n)
  BY <1>1, <1>2 DEF AnyOK, LiveOK
<1>4. AnyOK(q, s, n)
  BY <1>0, <1>1, <1>3 DEF AnyOK
<1>5. Polled(q) /\ Borrowed(q) /\ Timed(q)
  BY <1>1 DEF Polled, Borrowed, Timed
<1>6. QED
  BY <1>1, <1>4, <1>5 DEF CalmOK, Late

(* Some pieces of the stream were written.                                 *)
LEMMA PartlySentKeeps ==
    ASSUME NEW r, NEW s, NEW n, AnyOK(r, s, n), r.life = "live", r.question # 0,
           NEW m \in 1 .. Len(r.stream)
    PROVE  LET q == [r EXCEPT !.stream = SubSeq(@, m, Len(@))] IN
           /\ AnyOK(q, s, n) /\ q.life = "live"
           /\ CalmOK(r, "idle", n) => CalmOK(q, "idle", n)
<1>. DEFINE t == SubSeq(r.stream, m, Len(r.stream))
            q == [r EXCEPT !.stream = t]
<1>0. r \in Record /\ r.task # 0 /\ r.stream \in Seq(Pieces)
  BY DEF AnyOK, Record
<1>1. /\ t \in Seq(Pieces) /\ t # <<>> /\ r.stream # <<>>
      /\ \A i \in DOMAIN t : \E j \in DOMAIN r.stream : t[i] = r.stream[j]
  <2>1. Len(r.stream) \in Nat
    BY <1>0
  <2>2. t \in Seq(Pieces) /\ Len(t) = Len(r.stream) - m + 1
    BY <1>0, <2>1
  <2>3. \A i \in 1 .. Len(t) : t[i] = r.stream[m + i - 1] /\ m + i - 1 \in 1 .. Len(r.stream)
    BY <1>0, <2>1, <2>2
  <2>. HIDE DEF t
  <2>4. DOMAIN t = 1 .. Len(t) /\ DOMAIN r.stream = 1 .. Len(r.stream)
    BY <1>0, <2>2
  <2>5. t # <<>> /\ r.stream # <<>>
    BY <1>0, <2>1, <2>2
  <2>6. \A i \in DOMAIN t : \E j \in DOMAIN r.stream : t[i] = r.stream[j]
    BY <2>3, <2>4
  <2>7. QED
    BY <2>2, <2>5, <2>6
<1>. HIDE DEF t
<1>2. /\ q \in Record
      /\ q.life = "live" /\ q.mask = r.mask /\ q.task = r.task /\ q.given = r.given
      /\ q.question = r.question /\ q.questions = r.questions /\ q.stream = t
      /\ q.timers = r.timers /\ q.expired = r.expired
  BY <1>0, <1>1 DEF Record
<1>. HIDE DEF q
<1>3. s \notin Early
  BY <1>0 DEF AnyOK, LiveOK, Fresh
<1>4. LiveOK(q, s, n)
  BY <1>2, <1>3 DEF AnyOK, LiveOK
<1>5. AnyOK(q, s, n)
  BY <1>2, <1>4 DEF AnyOK
<1>6. CalmOK(r, "idle", n) => Polled(q) /\ Borrowed(q) /\ Timed(q)
  BY <1>1, <1>2 DEF CalmOK, Polled, Borrowed, Timed
<1>7. QED
  BY <1>2, <1>5, <1>6 DEF CalmOK, Late, q, t

-----------------------------------------------------------------------------
(* The checks of an answer *)

LEMMA CheckType ==
    ASSUME NEW k \in Tasks, NEW n \in Nat, NEW a \in Check(k, n)
    PROVE  a[2] \in Nat
<1>1. Kind[k] \in {"whole", "stream", "free"}
  BY ConstantsOK
<1>2. a \in {FailureOutcome(n)} \/ a \in Outcomes(Kind[k], n)
  BY DEF Check
<1>3. CASE a \in {FailureOutcome(n)}
  BY <1>3 DEF FailureOutcome
<1>4. CASE a \in Outcomes(Kind[k], n)
  <2>1. 0 .. n - 1 \subseteq Nat
    OBVIOUS
  <2>2. CASE Kind[k] = "whole"
    BY <1>4, <2>1, <2>2 DEF Outcomes
  <2>3. CASE Kind[k] = "stream"
    BY <1>4, <2>1, <2>3 DEF Outcomes
  <2>4. CASE Kind[k] = "free"
    BY <1>4, <2>4 DEF Outcomes
  <2>5. QED
    BY <1>1, <2>2, <2>3, <2>4
<1>5. QED
  BY <1>2, <1>3, <1>4

-----------------------------------------------------------------------------
(* Steps of the worker *)

LEMMA IdleIgnoresTask ==
    ASSUME NEW r, NEW n, NEW m
    PROVE  /\ AnyOK(r, "idle", n) => AnyOK(r, "idle", m)
           /\ CalmOK(r, "idle", n) => CalmOK(r, "idle", m)
BY DEF AnyOK, CalmOK, LiveOK, Early, Late

(* The record of the client at hand is replaced by q.                      *)
LEMMA HandlerKeeps ==
    ASSUME IInv, wpc \in {"timer", "client"}, cl[wcl].life = "live",
           NEW q, q.life # "none",
           AnyOK(q, Stage(wcl), hnew),
           wcl \notin early => CalmOK(q, "idle", hnew),
           cl' = [cl EXCEPT ![wcl] = q],
           input' \in [Clients -> Nat],
           wpc' = "wait" \/ (wpc' = "client" /\ wcl' = wcl /\ q.life = "live"),
           wtimer' \in 0 .. NTasks, wevents' \in SUBSET Events,
           UNCHANGED <<handoff, early, ub, phase>>
    PROVE  IInv'
<1>. USE DEF handoff
<1>1. wcl \in Clients /\ q \in Record /\ cl' \in [Clients -> Record]
  BY DEF IInv, WorkerInv, AnyOK
<1>2. /\ cl'[wcl] = q
      /\ \A c \in Clients \ {wcl} : cl'[c] = cl[c]
  BY <1>1 DEF IInv
<1>3. \A c \in Clients : Stage(c)' = Stage(c)
  BY DEF Stage
<1>4. \A c \in Clients : AnyOK(cl'[c], Stage(c)', hnew')
  BY <1>1, <1>2, <1>3 DEF IInv
<1>5. wcl \notin early => Stage(wcl) = "idle"
  BY DEF IInv, WorkerInv
<1>6. \A c \in Clients \ early' : CalmOK(cl'[c], Stage(c)', hnew')
  BY <1>1, <1>2, <1>3, <1>5 DEF IInv
<1>7. HandOffInv'
  BY DEF IInv, HandOffInv
<1>8. WorkerInv'
  BY <1>1, <1>2, <1>3, <1>5 DEF WorkerInv
<1>9. PhaseInv'
  BY <1>1 DEF IInv, PhaseInv
<1>10. QED
  BY <1>1, <1>4, <1>6, <1>7, <1>8, <1>9 DEF IInv

LEMMA AtWork ==
    ASSUME IInv, wpc \in {"timer", "client"}, ~WorkerDangles
    PROVE  /\ wcl \in Clients /\ cl[wcl].life = "live"
           /\ AnyOK(cl[wcl], Stage(wcl), hnew) /\ cl[wcl] \in Record
           /\ wcl \notin early => CalmOK(cl[wcl], "idle", hnew)
           /\ input[wcl] \in Nat /\ hnew \in 0 .. NTasks
<1>1. wcl \in Clients /\ cl[wcl].life \notin {"none", "freed"}
  BY DEF IInv, WorkerInv, WorkerDangles
<1>2. AnyOK(cl[wcl], Stage(wcl), hnew) /\ cl[wcl] \in Record
  BY <1>1 DEF IInv
<1>3. cl[wcl].life = "live"
  BY <1>1, <1>2 DEF Record
<1>4. QED
  BY <1>1, <1>2, <1>3 DEF IInv, WorkerInv, HandOffInv

(* client_next_task, also with a timer destroyed before.                   *)
LEMMA NextTaskKeeps ==
    ASSUME NEW r, NEW s, NEW n \in 0 .. NTasks, AnyOK(r, s, n), r.life = "live",
           r.task # 0, NEW q \in NextTask(r)
    PROVE  /\ AnyOK(q, s, n) /\ CalmOK(q, "idle", n)
           /\ q.life \in {"live", "freed"}
<1>1. r \in Record
  BY DEF AnyOK
<1>2. CASE r.given < NTasks /\ \E t \in TaskTexts(r.given + 1) : q = Advanced(r, t)
  BY <1>1, <1>2, AdvancedKeeps, AdvancedFields
<1>3. CASE q = Disconnected(r)
  BY <1>1, <1>3, DisconnectedKeeps, DisconnectedFields
<1>4. QED
  BY <1>2, <1>3 DEF NextTask

LEMMA TimerKeeps == IInv /\ HandleTimer => IInv'
<1>. SUFFICES ASSUME IInv, HandleTimer PROVE IInv'
  OBVIOUS
<1>. DEFINE r == TimerDestroyed(cl[wcl], wtimer)
<1>1. /\ wcl \in Clients /\ cl[wcl].life = "live"
      /\ AnyOK(cl[wcl], Stage(wcl), hnew) /\ cl[wcl] \in Record
      /\ wcl \notin early => CalmOK(cl[wcl], "idle", hnew)
      /\ input[wcl] \in Nat /\ hnew \in 0 .. NTasks
  BY AtWork DEF HandleTimer
<1>2. AnyOK(r, Stage(wcl), hnew) /\ r.life = "live" /\ r.task = cl[wcl].task
  BY <1>1, TimerDestroyedKeeps
<1>3. cl[wcl].task # 0
  BY <1>1 DEF HandleTimer, IInv, WorkerInv, AnyOK
<1>4. r.task \in Tasks
  BY <1>1, <1>2, <1>3, ConstantsOK DEF Record, Tasks
<1>5. PICK a \in Check(r.task, input[wcl]) :
          /\ input' = [input EXCEPT ![wcl] = a[2]]
          /\ \E q \in IF a[1] = "RIGHT" THEN NextTask(r) ELSE {Disconnected(r)} :
                cl' = [cl EXCEPT ![wcl] = q]
  BY DEF HandleTimer
<1>6. PICK q \in IF a[1] = "RIGHT" THEN NextTask(r) ELSE {Disconnected(r)} :
          cl' = [cl EXCEPT ![wcl] = q]
  BY <1>5
<1>. HIDE DEF r
<1>7. input' \in [Clients -> Nat]
  BY <1>1, <1>4, <1>5, CheckType DEF IInv
<1>8. /\ AnyOK(q, Stage(wcl), hnew) /\ CalmOK(q, "idle", hnew)
      /\ q.life \in {"live", "freed"}
  <2>1. CASE q \in NextTask(r)
    BY <1>1, <1>2, <1>3, <2>1, NextTaskKeeps
  <2>2. CASE q = Disconnected(r)
    BY <1>2, <2>2, DisconnectedKeeps, DisconnectedFields DEF AnyOK
  <2>3. QED
    BY <1>6, <2>1, <2>2
<1>9. wpc' = "wait" /\ wtimer' = 0 /\ wevents' = {} /\ UNCHANGED <<handoff, early, ub, phase>>
  BY DEF HandleTimer, WorkerIdle
<1>10. 0 \in 0 .. NTasks /\ wpc = "timer"
  BY ConstantsOK DEF HandleTimer
<1>11. q.life # "none"
  BY <1>8
<1>12. QED
  BY <1>1, <1>6, <1>7, <1>8, <1>9, <1>10, <1>11, HandlerKeeps

(* A stage of a client event that leaves the record q.                     *)
LEMMA OutcomeKeeps ==
    ASSUME IInv, wpc = "client", ~WorkerDangles,
           NEW q, AnyOK(q, Stage(wcl), hnew), wcl \notin early => CalmOK(q, "idle", hnew),
           q.life \in {"live", "freed"},
           NEW E \in SUBSET Events, Outcome(q, E),
           input' \in [Clients -> Nat],
           UNCHANGED <<handoff, early, ub, phase>>
    PROVE  IInv'
<1>1. cl[wcl].life = "live" /\ cl' = [cl EXCEPT ![wcl] = q]
  BY AtWork DEF Outcome
<1>2. /\ wpc' = "wait" \/ (wpc' = "client" /\ wcl' = wcl /\ q.life = "live")
      /\ wtimer' \in 0 .. NTasks /\ wevents' \in SUBSET Events
  <2>1. 0 \in 0 .. NTasks /\ wtimer \in 0 .. NTasks
    BY ConstantsOK DEF IInv, WorkerInv
  <2>2. QED
    BY <2>1 DEF Outcome, Continue, WorkerIdle
<1>3. QED
  BY <1>1, <1>2, HandlerKeeps

LEMMA InputKeeps == IInv /\ HandleInput => IInv'
<1>. SUFFICES ASSUME IInv, HandleInput PROVE IInv'
  OBVIOUS
<1>. DEFINE r == cl[wcl]
<1>1. /\ wpc = "client" /\ ~WorkerDangles /\ r.task # 0
      /\ UNCHANGED <<handoff, early, ub, phase>>
  BY DEF HandleInput, AtStage
<1>2. /\ wcl \in Clients /\ r.life = "live"
      /\ AnyOK(r, Stage(wcl), hnew) /\ r \in Record
      /\ wcl \notin early => CalmOK(r, "idle", hnew)
      /\ input[wcl] \in Nat /\ hnew \in 0 .. NTasks
  BY <1>1, AtWork
<1>3. r.task \in Tasks
  BY <1>1, <1>2, ConstantsOK DEF Record, Tasks
<1>4. PICK a \in Check(r.task, input[wcl]) :
          /\ input' = [input EXCEPT ![wcl] = a[2]]
          /\ \/ Outcome(Disconnected(r), {})
             \/ Outcome(r, {})
             \/ \E q \in NextTask(r) : Outcome(q, wevents \ {"IN"})
  BY DEF HandleInput
<1>5. input' \in [Clients -> Nat]
  BY <1>2, <1>3, <1>4, CheckType DEF IInv
<1>6. {} \in SUBSET Events /\ wevents \ {"IN"} \in SUBSET Events
  BY DEF IInv, WorkerInv
<1>. HIDE DEF r
<1>7. CASE Outcome(Disconnected(r), {})
  <2>1. Disconnected(r).life = "freed"
    BY <1>2, DisconnectedFields
  <2>2. AnyOK(Disconnected(r), Stage(wcl), hnew) /\ CalmOK(Disconnected(r), "idle", hnew)
    BY <1>2, DisconnectedKeeps
  <2>3. QED
    BY <1>1, <1>5, <1>6, <1>7, <2>1, <2>2, OutcomeKeeps
<1>8. CASE Outcome(r, {})
  BY <1>1, <1>2, <1>5, <1>6, <1>8, OutcomeKeeps
<1>9. ASSUME NEW q \in NextTask(r), Outcome(q, wevents \ {"IN"}) PROVE IInv'
  <2>1. AnyOK(q, Stage(wcl), hnew) /\ CalmOK(q, "idle", hnew) /\ q.life \in {"live", "freed"}
    BY <1>1, <1>2, NextTaskKeeps DEF r
  <2>2. QED
    BY <1>1, <1>5, <1>6, <1>9, <2>1, OutcomeKeeps
<1>10. QED
  BY <1>4, <1>7, <1>8, <1>9

LEMMA NothingToDoKeeps == IInv /\ (HandleInputNoTask \/ HandleOutputNoQuestion) => IInv'
<1>. SUFFICES ASSUME IInv, HandleInputNoTask \/ HandleOutputNoQuestion PROVE IInv'
  OBVIOUS
<1>1. /\ wpc = "client" /\ ~WorkerDangles
      /\ UNCHANGED <<handoff, early, ub, phase>> /\ UNCHANGED input
  BY DEF HandleInputNoTask, HandleOutputNoQuestion, AtStage, peer
<1>2. /\ cl[wcl].life = "live" /\ AnyOK(cl[wcl], Stage(wcl), hnew)
      /\ wcl \notin early => CalmOK(cl[wcl], "idle", hnew)
  BY <1>1, AtWork
<1>3. PICK E \in SUBSET Events : Outcome(cl[wcl], E)
  <2>1. wevents \ {"IN"} \in SUBSET Events /\ wevents \ {"OUT"} \in SUBSET Events
    BY DEF IInv, WorkerInv
  <2>2. QED
    BY <2>1 DEF HandleInputNoTask, HandleOutputNoQuestion
<1>4. input' \in [Clients -> Nat]
  BY <1>1 DEF IInv
<1>5. QED
  BY <1>1, <1>2, <1>3, <1>4, OutcomeKeeps

LEMMA OutputKeeps == IInv /\ HandleOutput => IInv'
<1>. SUFFICES ASSUME IInv, HandleOutput PROVE IInv'
  OBVIOUS
<1>. DEFINE r == cl[wcl]
<1>1. /\ wpc = "client" /\ ~WorkerDangles /\ r.question # 0
      /\ UNCHANGED <<handoff, early, ub, phase>> /\ UNCHANGED input
  BY DEF HandleOutput, AtStage, peer
<1>2. /\ r.life = "live" /\ AnyOK(r, Stage(wcl), hnew) /\ r \in Record
      /\ wcl \notin early => CalmOK(r, "idle", hnew)
  BY <1>1, AtWork
<1>3. input' \in [Clients -> Nat] /\ wevents \ {"OUT"} \in SUBSET Events
  BY <1>1 DEF IInv, WorkerInv
<1>4. PICK q \in SendText(r) : Outcome(q, wevents \ {"OUT"})
  BY DEF HandleOutput
<1>. HIDE DEF r
<1>5. /\ AnyOK(q, Stage(wcl), hnew) /\ q.life \in {"live", "freed"}
      /\ wcl \notin early => CalmOK(q, "idle", hnew)
  <2>1. ASSUME NEW m \in 1 .. Len(r.stream),
               q = [r EXCEPT !.stream = SubSeq(@, m, Len(@))]
        PROVE  /\ AnyOK(q, Stage(wcl), hnew) /\ q.life = "live"
               /\ CalmOK(r, "idle", hnew) => CalmOK(q, "idle", hnew)
    BY <1>1, <1>2, <2>1, PartlySentKeeps
  <2>2. ASSUME q = Completed(r) \/ (MayFail /\ q = [Completed(r) EXCEPT !.timers = r.timers])
        PROVE  AnyOK(q, Stage(wcl), hnew) /\ q.life = "live" /\ CalmOK(q, "idle", hnew)
    BY <1>1, <1>2, <2>2, CompletedKeeps
  <2>3. ASSUME q = Disconnected(r)
        PROVE  AnyOK(q, Stage(wcl), hnew) /\ q.life = "freed" /\ CalmOK(q, "idle", hnew)
    BY <1>2, <2>3, DisconnectedKeeps, DisconnectedFields
  <2>4. \/ \E m \in 1 .. Len(r.stream) : q = [r EXCEPT !.stream = SubSeq(@, m, Len(@))]
        \/ q = Completed(r) \/ (MayFail /\ q = [Completed(r) EXCEPT !.timers = r.timers])
        \/ q = Disconnected(r)
    BY <1>4 DEF SendText
  <2>5. QED
    BY <1>2, <2>1, <2>2, <2>3, <2>4
<1>6. QED
  BY <1>1, <1>3, <1>4, <1>5, OutcomeKeeps

LEMMA HangUpKeeps == IInv /\ HandleHangUp => IInv'
<1>. SUFFICES ASSUME IInv, HandleHangUp PROVE IInv'
  OBVIOUS
<1>1. /\ wpc = "client" /\ ~WorkerDangles /\ Outcome(Disconnected(cl[wcl]), {})
      /\ UNCHANGED <<handoff, early, ub, phase>> /\ UNCHANGED input
  BY DEF HandleHangUp, AtStage, peer
<1>2. /\ cl[wcl].life = "live" /\ AnyOK(cl[wcl], Stage(wcl), hnew) /\ cl[wcl] \in Record
  BY <1>1, AtWork
<1>3. /\ AnyOK(Disconnected(cl[wcl]), Stage(wcl), hnew)
      /\ CalmOK(Disconnected(cl[wcl]), "idle", hnew)
      /\ Disconnected(cl[wcl]).life = "freed"
  BY <1>2, DisconnectedKeeps, DisconnectedFields
<1>4. input' \in [Clients -> Nat] /\ {} \in SUBSET Events
  BY <1>1 DEF IInv
<1>5. QED
  BY <1>1, <1>3, <1>4, OutcomeKeeps

(* Only a client whose event was taken during its hand-off can be freed    *)
(* under the worker's or the acceptor's hands.                             *)
LEMMA FreedUseKeeps == IInv /\ (WorkerUsesFreed \/ HandOffUsesFreed) => IInv'
<1>. SUFFICES ASSUME IInv, WorkerUsesFreed \/ HandOffUsesFreed PROVE IInv'
  OBVIOUS
<1>1. UNCHANGED <<cl, peer, worker, handoff, early, phase>>
  BY DEF WorkerUsesFreed, HandOffUsesFreed
<1>2. early # {}
  <2>1. CASE WorkerUsesFreed
    <3>1. cl[wcl].life = "freed" /\ wpc \in {"timer", "client"}
      BY <2>1 DEF WorkerUsesFreed, WorkerDangles
    <3>2. QED
      BY <3>1 DEF IInv, WorkerInv
  <2>2. CASE HandOffUsesFreed
    <3>1. /\ hpc # "idle" /\ hcl \in Clients
          /\ \/ cl[hcl].life = "freed"
             \/ hpc = "read" /\ (cl[hcl].task # hnew \/ hnew \notin cl[hcl].questions)
      BY <2>2 DEF HandOffUsesFreed, HandOffDangles, IInv, HandOffInv
    <3>2. hcl \notin early => CalmOK(cl[hcl], hpc, hnew)
      BY <3>1 DEF IInv, Stage
    <3>3. QED
      BY <3>1, <3>2 DEF CalmOK, Late
  <2>3. QED
    BY <2>1, <2>2
<1>3. \A c \in Clients : Stage(c)' = Stage(c)
  BY <1>1 DEF Stage, handoff
<1>4. QED
  BY <1>1, <1>2, <1>3 DEF IInv, HandOffInv, WorkerInv, PhaseInv, peer, worker, handoff

(* An event of the client c is taken.                                      *)
LEMMA EventTakenKeeps ==
    ASSUME IInv, NEW c \in Clients, cl[c].life = "live",
           wpc' \in {"timer", "client"}, wcl' = c,
           wpc' = "timer" => wtimer' \in cl[c].timers,
           wtimer' \in 0 .. NTasks, wevents' \in SUBSET Events,
           early' = IF Ongoing(c) THEN early \cup {c} ELSE early,
           UNCHANGED <<cl, peer, handoff, ub, phase>>
    PROVE  IInv'
<1>. USE DEF peer, handoff
<1>1. \A d \in Clients : Stage(d)' = Stage(d)
  BY DEF Stage
<1>2. early \subseteq early'
  OBVIOUS
<1>3. HandOffInv'
  BY DEF IInv, HandOffInv
<1>4. c \notin early' => Stage(c) = "idle"
  BY DEF Stage, Ongoing
<1>5. WorkerInv'
  BY <1>1, <1>4 DEF WorkerInv
<1>6. PhaseInv'
  BY <1>2 DEF IInv, PhaseInv
<1>7. QED
  BY <1>1, <1>2, <1>3, <1>5, <1>6 DEF IInv

LEMMA WaitKeeps ==
    ASSUME IInv, NEW c \in Clients,
           WaitClient(c) \/ \E k \in Tasks : WaitTimer(c, k)
    PROVE  IInv'
<1>0. /\ AnyOK(cl[c], Stage(c), hnew) /\ cl[c] \in Record
      /\ wtimer \in 0 .. NTasks /\ wevents \in SUBSET Events
  BY DEF IInv, WorkerInv
<1>1. CASE WaitClient(c)
  <2>1. PICK room \in BOOLEAN : wevents' = Ready(c, room) \cap cl[c].mask
    BY <1>1 DEF WaitClient
  <2>2. wevents' \in SUBSET Events
    BY <2>1 DEF Ready, Events
  <2>3. cl[c].mask # {}
    BY <1>1, <2>1 DEF WaitClient
  <2>4. cl[c].life = "live"
    BY <1>0, <2>3 DEF AnyOK, Empty, NewClient, Record
  <2>5. QED
    BY <1>0, <1>1, <2>2, <2>4, EventTakenKeeps DEF WaitClient
<1>2. ASSUME NEW k \in Tasks, WaitTimer(c, k) PROVE IInv'
  <2>1. k \in cl[c].timers /\ cl[c].expired # {}
    BY <1>0, <1>2 DEF WaitTimer, AnyOK
  <2>2. cl[c].life = "live"
    BY <1>0, <2>1 DEF AnyOK, Empty, NewClient, Record
  <2>3. k \in 0 .. NTasks
    BY ConstantsOK DEF Tasks
  <2>4. QED
    BY <1>0, <1>2, <2>1, <2>2, <2>3, EventTakenKeeps DEF WaitTimer
<1>3. QED
  BY <1>1, <1>2

-----------------------------------------------------------------------------
(* Peers, clock and destruction *)

LEMMA PeerKeeps ==
    ASSUME IInv, NEW c \in Clients, PeerSends(c) \/ PeerHangsUp(c) PROVE IInv'
<1>1. UNCHANGED <<cl, worker, handoff, early, ub, phase>>
  BY DEF PeerSends, PeerHangsUp
<1>2. input' \in [Clients -> Nat]
  BY DEF PeerSends, PeerHangsUp, IInv
<1>3. \A d \in Clients : Stage(d)' = Stage(d)
  BY <1>1 DEF Stage, handoff
<1>4. QED
  BY <1>1, <1>2, <1>3 DEF IInv, HandOffInv, WorkerInv, PhaseInv, worker, handoff

LEMMA TimerExpiresKeeps ==
    ASSUME IInv, NEW c \in Clients, NEW k \in Tasks, TimerExpires(c, k) PROVE IInv'
<1>. DEFINE r == cl[c]
            q == [r EXCEPT !.expired = @ \cup {k}]
<1>1. /\ k \in r.timers /\ cl' = [cl EXCEPT ![c] = q]
      /\ UNCHANGED <<peer, worker, handoff, early, ub, phase>>
  BY DEF TimerExpires
<1>2. r \in Record /\ AnyOK(r, Stage(c), hnew)
  BY DEF IInv
<1>3. /\ q \in Record /\ q.life = r.life /\ q.mask = r.mask /\ q.task = r.task
      /\ q.given = r.given /\ q.question = r.question /\ q.questions = r.questions
      /\ q.stream = r.stream /\ q.timers = r.timers /\ q.expired = r.expired \cup {k}
  BY <1>2 DEF Record
<1>4. cl' \in [Clients -> Record] /\ cl'[c] = q /\ \A d \in Clients \ {c} : cl'[d] = cl[d]
  BY <1>1, <1>3 DEF IInv
<1>5. r.life = "live"
  BY <1>1, <1>2 DEF AnyOK, Empty, NewClient, Record
<1>. HIDE DEF r, q
<1>6. \A d \in Clients : Stage(d)' = Stage(d)
  BY <1>1 DEF Stage, handoff
<1>7. AnyOK(q, Stage(c), hnew)
  <2>1. Stage(c) \notin Early
    BY <1>1, <1>2, <1>5 DEF AnyOK, LiveOK, Fresh
  <2>2. LiveOK(q, Stage(c), hnew)
    BY <1>2, <1>3, <1>5, <2>1 DEF AnyOK, LiveOK
  <2>3. QED
    BY <1>1, <1>2, <1>3, <1>5, <2>2 DEF AnyOK
<1>8. CalmOK(r, Stage(c), hnew) => CalmOK(q, Stage(c), hnew)
  BY <1>3 DEF CalmOK, Polled, Borrowed, Timed
<1>9. \A d \in Clients : AnyOK(cl'[d], Stage(d), hnew)
  BY <1>4, <1>7 DEF IInv
<1>10. \A d \in Clients \ early : CalmOK(cl'[d], Stage(d), hnew)
  BY <1>4, <1>8 DEF IInv, r
<1>11. \A d \in Clients : cl'[d].life = cl[d].life /\ cl[d].timers \subseteq cl'[d].timers
  BY <1>3, <1>4 DEF r
<1>12. WorkerInv'
  BY <1>1, <1>6, <1>11 DEF IInv, WorkerInv, worker
<1>13. QED
  BY <1>1, <1>4, <1>6, <1>9, <1>10, <1>11, <1>12
     DEF IInv, HandOffInv, PhaseInv, peer, handoff

LEMMA CancelKeeps == IInv /\ (DestroyCancel \/ WorkerCancelled) => IInv'
<1>. SUFFICES ASSUME IInv, DestroyCancel \/ WorkerCancelled PROVE IInv'
  OBVIOUS
<1>1. UNCHANGED <<cl, peer, handoff, early, ub>>
  BY DEF DestroyCancel, WorkerCancelled
<1>2. \A c \in Clients : Stage(c)' = Stage(c)
  BY <1>1 DEF Stage, handoff
<1>3. CASE DestroyCancel
  BY <1>1, <1>2, <1>3 DEF DestroyCancel, IInv, HandOffInv, WorkerInv, PhaseInv,
     peer, handoff, worker
<1>4. CASE WorkerCancelled
  BY <1>1, <1>2, <1>4 DEF WorkerCancelled, IInv, HandOffInv, WorkerInv, PhaseInv,
     peer, handoff
<1>5. QED
  BY <1>3, <1>4

LEMMA DestroyClientsKeeps == IInv /\ DestroyClients => IInv'
<1>. SUFFICES ASSUME IInv, DestroyClients PROVE IInv'
  OBVIOUS
<1>1. /\ wpc = "dead" /\ hpc = "idle" /\ phase' = "destroyed"
      /\ UNCHANGED <<peer, worker, handoff, early, ub>>
  BY DEF DestroyClients, IInv, PhaseInv
<1>2. \A c \in Clients : Stage(c)' = "idle" /\ Stage(c) = "idle"
  BY <1>1 DEF Stage, handoff
<1>3. /\ DOMAIN cl' = Clients
      /\ cl' = [c \in Clients |-> cl'[c]]
      /\ \A c \in Clients :
            cl'[c] = IF cl[c].life = "live" THEN Disconnected(cl[c]) ELSE cl[c]
  BY DEF DestroyClients
<1>4. ASSUME NEW c \in Clients
      PROVE  /\ AnyOK(cl'[c], "idle", hnew) /\ cl'[c] \in Record
             /\ c \notin early => CalmOK(cl'[c], "idle", hnew)
             /\ cl'[c].life # "live"
  <2>1. /\ AnyOK(cl[c], "idle", hnew) /\ cl[c] \in Record
        /\ c \notin early => CalmOK(cl[c], "idle", hnew)
    BY <1>2 DEF IInv
  <2>2. CASE cl[c].life = "live"
    BY <1>3, <2>1, <2>2, DisconnectedKeeps, DisconnectedFields
  <2>3. CASE cl[c].life # "live"
    BY <1>3, <2>1, <2>3
  <2>4. QED
    BY <2>2, <2>3
<1>5. cl' \in [Clients -> Record]
  BY <1>3, <1>4
<1>6. QED
  BY <1>1, <1>2, <1>4, <1>5
     DEF IInv, HandOffInv, WorkerInv, PhaseInv, peer, worker, handoff

-----------------------------------------------------------------------------
(* Steps of the acceptor *)

(* The acceptor replaces the record of the client it works on by q.        *)
LEMMA HandOffKeeps ==
    ASSUME IInv, hpc # "idle", cl[hcl].life = "live",
           NEW q, q.life # "none",
           q.timers = cl[hcl].timers \/ q.life = "freed",
           AnyOK(q, hpc', hnew'),
           hcl \notin early => CalmOK(q, hpc', hnew'),
           cl' = [cl EXCEPT ![hcl] = q],
           hcl' = hcl \/ (hpc' = "idle" /\ hcl' = NoClient),
           HandOffInv',
           UNCHANGED <<peer, worker, early, ub, phase>>
    PROVE  IInv'
<1>1. hcl \in Clients /\ q \in Record /\ cl' \in [Clients -> Record] /\ phase = "running"
  BY DEF IInv, HandOffInv, PhaseInv, AnyOK
<1>2. /\ cl'[hcl] = q
      /\ \A c \in Clients \ {hcl} : cl'[c] = cl[c]
  BY <1>1 DEF IInv
<1>3. /\ \A c \in Clients : Stage(c)' = IF c = hcl THEN hpc' ELSE "idle"
      /\ \A c \in Clients \ {hcl} : Stage(c) = "idle"
  BY <1>1, ConstantsOK DEF Stage
<1>4. ASSUME NEW c \in Clients
      PROVE  /\ AnyOK(cl'[c], Stage(c)', hnew')
             /\ c \notin early => CalmOK(cl'[c], Stage(c)', hnew')
  <2>1. CASE c = hcl
    BY <1>2, <1>3, <2>1
  <2>2. CASE c # hcl
    <3>1. /\ AnyOK(cl[c], "idle", hnew)
          /\ c \notin early => CalmOK(cl[c], "idle", hnew)
      BY <1>3, <2>2 DEF IInv
    <3>2. /\ AnyOK(cl[c], "idle", hnew')
          /\ c \notin early => CalmOK(cl[c], "idle", hnew')
      BY <3>1, IdleIgnoresTask
    <3>3. cl'[c] = cl[c] /\ Stage(c)' = "idle"
      BY <1>2, <1>3, <2>2
    <3>4. QED
      BY <3>2, <3>3
  <2>3. QED
    BY <2>1, <2>2
<1>5. early' = early
  OBVIOUS
<1>6. WorkerInv'
  <2>1. /\ wpc' \in {"wait", "timer", "client", "dead"}
        /\ wtimer' \in 0 .. NTasks
        /\ wevents' \in SUBSET Events
    BY DEF IInv, WorkerInv, worker
  <2>2. ASSUME wpc' \in {"timer", "client"}
        PROVE  /\ wcl \in Clients
               /\ cl'[wcl].life # "none"
               /\ wcl \notin early => hcl # wcl /\ cl'[wcl].life = "live"
               /\ wpc' = "timer" /\ cl'[wcl].life = "live" => wtimer \in cl'[wcl].timers
    <3>1. /\ wcl \in Clients /\ cl[wcl].life # "none"
          /\ wcl \notin early => hcl # wcl /\ cl[wcl].life = "live"
          /\ wpc = "timer" /\ cl[wcl].life = "live" => wtimer \in cl[wcl].timers
          /\ wpc' = wpc
      BY <2>2 DEF IInv, WorkerInv, worker, Stage
    <3>2. CASE wcl = hcl
      BY <1>1, <1>2, <3>1, <3>2
    <3>3. CASE wcl # hcl
      BY <1>2, <3>1, <3>3
    <3>4. QED
      BY <3>2, <3>3
  <2>3. wcl' = wcl /\ wtimer' = wtimer /\ early' = early
    BY DEF worker
  <2>4. wcl \notin early /\ hcl # wcl => Stage(wcl)' = "idle"
    BY <2>3, ConstantsOK DEF Stage
  <2>5. QED
    BY <2>1, <2>2, <2>3, <2>4 DEF WorkerInv
<1>7. PhaseInv'
  BY <1>1 DEF IInv, PhaseInv
<1>8. input' \in [Clients -> Nat]
  BY DEF IInv, peer
<1>9. QED
  BY <1>1, <1>4, <1>5, <1>6, <1>7, <1>8 DEF IInv

LEMMA HandOffAtWork ==
    ASSUME IInv, NEW pc, pc # "idle", HandOffAt(pc)
    PROVE  /\ hpc = pc /\ hcl \in Clients /\ hnew \in 0 .. NTasks
           /\ cl[hcl] \in Record /\ cl[hcl].life = "live"
           /\ AnyOK(cl[hcl], pc, hnew) /\ LiveOK(cl[hcl], pc, hnew)
           /\ hcl \notin early => CalmOK(cl[hcl], pc, hnew)
           /\ hcl # NoClient
<1>1. hpc = pc /\ hcl \in Clients /\ hnew \in 0 .. NTasks /\ cl[hcl].life # "freed"
  BY DEF HandOffAt, HandOffDangles, IInv, HandOffInv
<1>2. AnyOK(cl[hcl], pc, hnew) /\ (hcl \notin early => CalmOK(cl[hcl], pc, hnew))
  BY <1>1 DEF IInv, Stage
<1>3. cl[hcl] \in Record /\ cl[hcl].life = "live"
  BY <1>1, <1>2 DEF AnyOK, Record
<1>4. QED
  BY <1>1, <1>2, <1>3, ConstantsOK DEF AnyOK

LEMMA CreateKeeps ==
    ASSUME IInv, NEW c \in Clients, HandOffCreate(c) PROVE IInv'
<1>. DEFINE q == [NewClient EXCEPT !.life = "live", !.mask = {"RDHUP"}]
<1>1. /\ hpc = "idle" /\ phase = "running" /\ cl[c].life = "none"
      /\ hpc' = "flush" /\ hcl' = c /\ hnew' = 0
      /\ UNCHANGED <<peer, worker, early, ub, phase>>
  BY DEF HandOffCreate
<1>2. Stage(c) = "idle" /\ cl[c] = NewClient
  BY <1>1 DEF IInv, AnyOK, Stage
<1>3. cl' = [cl EXCEPT ![c] = q]
  BY <1>2 DEF HandOffCreate, IInv
<1>4. /\ q.life = "live" /\ q.mask = {"RDHUP"} /\ q.task = 0 /\ q.given = 0
      /\ q.question = 0 /\ q.questions = {} /\ q.stream = <<>>
      /\ q.timers = {} /\ q.expired = {}
  BY DEF NewClient
<1>5. q \in Record
  <2>1. NewClient \in Record
    BY <1>2 DEF IInv
  <2>2. {"RDHUP"} \in SUBSET Events
    BY DEF Events
  <2>3. QED
    BY <2>1, <2>2 DEF Record
<1>. HIDE DEF q
<1>6. AnyOK(q, "flush", 0) /\ CalmOK(q, "flush", 0)
  BY <1>4, <1>5 DEF AnyOK, LiveOK, Fresh, Early, CalmOK, Late
<1>7. \A d \in Clients : d # c => Stage(d) = "idle" /\ Stage(d)' = "idle"
  BY <1>1 DEF Stage
<1>8. cl' \in [Clients -> Record] /\ cl'[c] = q /\ \A d \in Clients : d # c => cl'[d] = cl[d]
  BY <1>3, <1>5 DEF IInv
<1>9. ASSUME NEW d \in Clients
      PROVE  /\ AnyOK(cl'[d], Stage(d)', hnew')
             /\ d \notin early => CalmOK(cl'[d], Stage(d)', hnew')
  <2>1. CASE d = c
    BY <1>1, <1>6, <1>8, <2>1 DEF Stage
  <2>2. CASE d # c
    <3>1. /\ AnyOK(cl[d], "idle", hnew)
          /\ d \notin early => CalmOK(cl[d], "idle", hnew)
      BY <1>7, <2>2 DEF IInv
    <3>2. /\ AnyOK(cl[d], "idle", hnew')
          /\ d \notin early => CalmOK(cl[d], "idle", hnew')
      BY <3>1, IdleIgnoresTask
    <3>3. QED
      BY <1>7, <1>8, <2>2, <3>2
  <2>3. QED
    BY <2>1, <2>2
<1>10. HandOffInv'
  BY <1>1, ConstantsOK DEF HandOffInv, Early, Late
<1>11. WorkerInv'
  <2>1. wpc' = wpc /\ wcl' = wcl /\ wtimer' = wtimer /\ wevents' = wevents /\ early' = early
    BY <1>1 DEF worker
  <2>2. wpc \in {"timer", "client"} => wcl # c /\ wcl \in Clients
    BY <1>1 DEF IInv, WorkerInv
  <2>3. wpc \in {"timer", "client"} => Stage(wcl)' = "idle" /\ cl'[wcl] = cl[wcl]
    BY <1>1, <1>8, <2>1, <2>2 DEF Stage
  <2>4. QED
    BY <2>1, <2>2, <2>3 DEF IInv, WorkerInv
<1>12. PhaseInv'
  BY <1>1 DEF IInv, PhaseInv
<1>13. input' \in [Clients -> Nat]
  BY <1>1 DEF IInv, peer
<1>14. QED
  BY <1>1, <1>8, <1>9, <1>10, <1>11, <1>12, <1>13 DEF IInv

LEMMA CreateFailsKeeps ==
    ASSUME IInv, NEW c \in Clients, HandOffCreateFails(c) PROVE IInv'
<1>. DEFINE q == [NewClient EXCEPT !.life = "freed"]
<1>1. /\ hpc = "idle" /\ phase = "running" /\ cl[c].life = "none"
      /\ UNCHANGED <<peer, worker, handoff, early, ub, phase>>
  BY DEF HandOffCreateFails
<1>2. Stage(c) = "idle" /\ cl[c] = NewClient
  BY <1>1 DEF IInv, AnyOK, Stage
<1>3. cl' = [cl EXCEPT ![c] = q]
  BY <1>2 DEF HandOffCreateFails, IInv
<1>4. /\ q.life = "freed" /\ q.mask = {} /\ q.task = 0 /\ q.given = 0
      /\ q.question = 0 /\ q.questions = {} /\ q.stream = <<>>
      /\ q.timers = {} /\ q.expired = {}
  BY DEF NewClient
<1>5. q \in Record
  <2>1. NewClient \in Record
    BY <1>2 DEF IInv
  <2>2. {"RDHUP"} \in SUBSET Events
    BY DEF Events
  <2>3. QED
    BY <2>1, <2>2 DEF Record
<1>. HIDE DEF q
<1>6. AnyOK(q, "idle", hnew) /\ CalmOK(q, "idle", hnew)
  BY <1>4, <1>5 DEF AnyOK, Empty, CalmOK, Late
<1>7. \A d \in Clients : Stage(d)' = Stage(d)
  BY <1>1 DEF Stage, handoff
<1>8. cl' \in [Clients -> Record] /\ cl'[c] = q /\ \A d \in Clients : d # c => cl'[d] = cl[d]
  BY <1>3, <1>5 DEF IInv
<1>9. hnew' = hnew /\ early' = early
  BY <1>1 DEF handoff
<1>10. ASSUME NEW d \in Clients
       PROVE  /\ AnyOK(cl'[d], Stage(d)', hnew')
              /\ d \notin early => CalmOK(cl'[d], Stage(d)', hnew')
  BY <1>2, <1>6, <1>7, <1>8, <1>9 DEF IInv
<1>11. HandOffInv' /\ PhaseInv' /\ input' \in [Clients -> Nat]
  BY <1>1 DEF IInv, HandOffInv, PhaseInv, handoff, peer
<1>12. WorkerInv'
  <2>1. wpc' = wpc /\ wcl' = wcl /\ wtimer' = wtimer /\ wevents' = wevents
    BY <1>1 DEF worker
  <2>2. wpc \in {"timer", "client"} => wcl # c /\ wcl \in Clients
    BY <1>1 DEF IInv, WorkerInv
  <2>3. wpc \in {"timer", "client"} => Stage(wcl)' = Stage(wcl) /\ cl'[wcl] = cl[wcl]
    BY <1>1, <1>8, <2>1, <2>2 DEF Stage, handoff
  <2>4. QED
    BY <1>9, <2>1, <2>2, <2>3 DEF IInv, WorkerInv
<1>13. QED
  BY <1>8, <1>9, <1>10, <1>11, <1>12 DEF IInv

LEMMA FlushKeeps == IInv /\ HandOffFlush => IInv'
<1>. SUFFICES ASSUME IInv, HandOffFlush PROVE IInv'
  OBVIOUS
<1>. DEFINE r == cl[hcl]
            q == [r EXCEPT !.stream = <<>>, !.task = 0]
<1>1. /\ hpc = "flush" /\ hcl \in Clients /\ hcl # NoClient
      /\ r \in Record /\ r.life = "live"
      /\ AnyOK(r, "flush", hnew) /\ LiveOK(r, "flush", hnew)
      /\ hcl \notin early => CalmOK(r, "flush", hnew)
  BY HandOffAtWork DEF HandOffFlush
<1>2. /\ cl' = [cl EXCEPT ![hcl] = q] /\ hpc' = "get" /\ hcl' = hcl /\ hnew' = hnew
      /\ UNCHANGED <<peer, worker, early, ub, phase>>
  BY <1>1 DEF HandOffFlush, IInv
<1>3. q = r
  BY <1>1 DEF LiveOK, Fresh, Early, Record
<1>. HIDE DEF r, q
<1>4. AnyOK(q, "get", hnew)
  BY <1>1, <1>3 DEF AnyOK, LiveOK, Fresh, Early
<1>5. hcl \notin early => CalmOK(q, "get", hnew)
  BY <1>1, <1>3 DEF CalmOK, Late
<1>6. HandOffInv'
  BY <1>1, <1>2 DEF IInv, HandOffInv, Early, Late
<1>7. QED
  BY <1>1, <1>2, <1>3, <1>4, <1>5, <1>6, HandOffKeeps DEF r

LEMMA GetKeeps == IInv /\ HandOffGet => IInv'
<1>. SUFFICES ASSUME IInv, HandOffGet PROVE IInv'
  OBVIOUS
<1>. DEFINE r == cl[hcl]
            q == [r EXCEPT !.given = 1, !.questions = {1}]
<1>1. /\ hpc = "get" /\ hcl \in Clients /\ hcl # NoClient
      /\ r \in Record /\ r.life = "live"
      /\ AnyOK(r, "get", hnew) /\ LiveOK(r, "get", hnew)
      /\ hcl \notin early => CalmOK(r, "get", hnew)
  BY HandOffAtWork DEF HandOffGet
<1>2. hnew = 0 /\ Fresh(r, "get", 0)
  BY <1>1 DEF IInv, HandOffInv, LiveOK, Early
<1>3. r.given = 0 /\ r.questions = {}
  BY <1>2 DEF Fresh
<1>4. /\ cl' = [cl EXCEPT ![hcl] = q] /\ hpc' = "mod" /\ hcl' = hcl /\ hnew' = 1
      /\ UNCHANGED <<peer, worker, early, ub, phase>>
  <2>1. hnew' = 1
    BY <1>3 DEF HandOffGet
  <2>2. cl' = [cl EXCEPT ![hcl].given = 1, ![hcl].questions = r.questions \cup {1}]
    BY <2>1 DEF HandOffGet
  <2>3. r.questions \cup {1} = {1}
    BY <1>3
  <2>4. cl' = [cl EXCEPT ![hcl] = q]
    BY <1>1, <2>2, <2>3 DEF IInv
  <2>5. QED
    BY <2>1, <2>4 DEF HandOffGet
<1>5. 1 \in Tasks /\ 1 \in 0 .. NTasks
  BY ConstantsOK DEF Tasks
<1>6. /\ q \in Record /\ q.life = r.life /\ q.mask = r.mask /\ q.task = r.task
      /\ q.given = 1 /\ q.question = r.question /\ q.questions = {1}
      /\ q.stream = r.stream /\ q.timers = r.timers /\ q.expired = r.expired
  BY <1>1, <1>5 DEF Record
<1>. HIDE DEF r, q
<1>7. AnyOK(q, "mod", 1)
  BY <1>1, <1>2, <1>6 DEF AnyOK, LiveOK, Fresh, Early
<1>8. CalmOK(q, "mod", 1)
  BY <1>1, <1>6 DEF CalmOK, Late
<1>9. HandOffInv'
  BY <1>1, <1>4, <1>5 DEF IInv, HandOffInv, Early, Late
<1>10. QED
  BY <1>1, <1>4, <1>6, <1>7, <1>8, <1>9, HandOffKeeps DEF r

LEMMA GetFailsKeeps == IInv /\ HandOffGetFails => IInv'
<1>. SUFFICES ASSUME IInv, HandOffGetFails PROVE IInv'
  OBVIOUS
<1>. DEFINE r == cl[hcl]
<1>1. /\ hpc = "get" /\ hcl \in Clients /\ hcl # NoClient
      /\ r \in Record /\ r.life = "live"
      /\ AnyOK(r, "get", hnew) /\ LiveOK(r, "get", hnew)
      /\ hcl \notin early => CalmOK(r, "get", hnew)
  BY HandOffAtWork DEF HandOffGetFails
<1>2. /\ cl' = [cl EXCEPT ![hcl] = r] /\ hpc' = "fail" /\ hcl' = hcl /\ hnew' = hnew
      /\ UNCHANGED <<peer, worker, early, ub, phase>>
  BY <1>1 DEF HandOffGetFails, IInv
<1>. HIDE DEF r
<1>3. AnyOK(r, "fail", hnew)
  BY <1>1 DEF AnyOK, LiveOK, Fresh, Early
<1>4. CalmOK(r, "fail", hnew)
  BY <1>1 DEF CalmOK, Late
<1>5. HandOffInv'
  BY <1>1, <1>2 DEF IInv, HandOffInv, Early, Late
<1>6. QED
  BY <1>1, <1>2, <1>3, <1>4, <1>5, HandOffKeeps DEF r

LEMMA ModKeeps == IInv /\ HandOffMod => IInv'
<1>. SUFFICES ASSUME IInv, HandOffMod PROVE IInv'
  OBVIOUS
<1>. DEFINE r == cl[hcl]
            q == [r EXCEPT !.mask = Events]
<1>1. /\ hpc = "mod" /\ hcl \in Clients /\ hcl # NoClient /\ hnew \in 0 .. NTasks
      /\ r \in Record /\ r.life = "live"
      /\ AnyOK(r, "mod", hnew) /\ LiveOK(r, "mod", hnew)
      /\ hcl \notin early => CalmOK(r, "mod", hnew)
  BY HandOffAtWork DEF HandOffMod
<1>2. /\ cl' = [cl EXCEPT ![hcl] = q] /\ hpc' = "settask" /\ hcl' = hcl /\ hnew' = hnew
      /\ UNCHANGED <<peer, worker, early, ub, phase>>
  BY <1>1 DEF HandOffMod, IInv
<1>4. /\ q \in Record /\ q.life = r.life /\ q.mask = Events /\ q.task = r.task /\ q.given = r.given
      /\ q.question = r.question /\ q.questions = r.questions
      /\ q.stream = r.stream /\ q.timers = r.timers /\ q.expired = r.expired
  BY <1>1 DEF Record
<1>. HIDE DEF r, q
<1>5. AnyOK(q, "settask", hnew)
  BY <1>1, <1>4 DEF AnyOK, LiveOK, Fresh, Early
<1>6. hcl \notin early => CalmOK(q, "settask", hnew)
  BY <1>1, <1>4 DEF CalmOK, Late
<1>7. HandOffInv'
  BY <1>1, <1>2, ConstantsOK DEF IInv, HandOffInv, Early, Late
<1>8. QED
  BY <1>1, <1>2, <1>4, <1>5, <1>6, <1>7, HandOffKeeps DEF r

LEMMA ModFailsKeeps == IInv /\ HandOffModFails => IInv'
<1>. SUFFICES ASSUME IInv, HandOffModFails PROVE IInv'
  OBVIOUS
<1>. DEFINE r == cl[hcl]
            q == [r EXCEPT !.questions = @ \ {hnew}]
<1>1. /\ hpc = "mod" /\ hcl \in Clients /\ hcl # NoClient /\ hnew \in 0 .. NTasks
      /\ r \in Record /\ r.life = "live"
      /\ AnyOK(r, "mod", hnew) /\ LiveOK(r, "mod", hnew)
      /\ hcl \notin early => CalmOK(r, "mod", hnew)
  BY HandOffAtWork DEF HandOffModFails
<1>2. /\ cl' = [cl EXCEPT ![hcl] = q] /\ hpc' = "fail" /\ hcl' = hcl /\ hnew' = hnew
      /\ UNCHANGED <<peer, worker, early, ub, phase>>
  BY <1>1 DEF HandOffModFails, IInv
<1>4. /\ q \in Record /\ q.life = r.life /\ q.mask = r.mask /\ q.task = r.task /\ q.given = r.given
      /\ q.question = r.question /\ q.questions = r.questions \ {hnew}
      /\ q.stream = r.stream /\ q.timers = r.timers /\ q.expired = r.expired
  BY <1>1 DEF Record
<1>. HIDE DEF r, q
<1>5. AnyOK(q, "fail", hnew)
  BY <1>1, <1>4 DEF AnyOK, LiveOK, Fresh, Early
<1>6. hcl \notin early => CalmOK(q, "fail", hnew)
  BY <1>1, <1>4 DEF CalmOK, Late
<1>7. HandOffInv'
  BY <1>1, <1>2, ConstantsOK DEF IInv, HandOffInv, Early, Late
<1>8. QED
  BY <1>1, <1>2, <1>4, <1>5, <1>6, <1>7, HandOffKeeps DEF r

LEMMA SetTaskKeeps == IInv /\ HandOffSetTask => IInv'
<1>. SUFFICES ASSUME IInv, HandOffSetTask PROVE IInv'
  OBVIOUS
<1>. DEFINE r == cl[hcl]
            q == [r EXCEPT !.task = hnew]
<1>1. /\ hpc = "settask" /\ hcl \in Clients /\ hcl # NoClient /\ hnew \in 0 .. NTasks
      /\ r \in Record /\ r.life = "live"
      /\ AnyOK(r, "settask", hnew) /\ LiveOK(r, "settask", hnew)
      /\ hcl \notin early => CalmOK(r, "settask", hnew)
  BY HandOffAtWork DEF HandOffSetTask
<1>2. /\ cl' = [cl EXCEPT ![hcl] = q] /\ hpc' = "setquestion" /\ hcl' = hcl /\ hnew' = hnew
      /\ UNCHANGED <<peer, worker, early, ub, phase>>
  BY <1>1 DEF HandOffSetTask, IInv
<1>3. hnew # 0 /\ hnew >= hnew
  BY <1>1 DEF IInv, HandOffInv, Tasks
<1>4. /\ q \in Record /\ q.life = r.life /\ q.mask = r.mask /\ q.task = hnew /\ q.given = r.given
      /\ q.question = r.question /\ q.questions = r.questions
      /\ q.stream = r.stream /\ q.timers = r.timers /\ q.expired = r.expired
  BY <1>1 DEF Record
<1>. HIDE DEF r, q
<1>5. AnyOK(q, "setquestion", hnew)
  BY <1>1, <1>3, <1>4 DEF AnyOK, LiveOK, Fresh, Early
<1>6. hcl \notin early => CalmOK(q, "setquestion", hnew)
  BY <1>1, <1>4 DEF LiveOK, Fresh, Early, CalmOK, Late
<1>7. HandOffInv'
  BY <1>1, <1>2, ConstantsOK DEF IInv, HandOffInv, Early, Late
<1>8. QED
  BY <1>1, <1>2, <1>4, <1>5, <1>6, <1>7, HandOffKeeps DEF r

LEMMA SetQuestionKeeps == IInv /\ HandOffSetQuestion => IInv'
<1>. SUFFICES ASSUME IInv, HandOffSetQuestion PROVE IInv'
  OBVIOUS
<1>. DEFINE r == cl[hcl]
            q == [r EXCEPT !.question = hnew]
<1>1. /\ hpc = "setquestion" /\ hcl \in Clients /\ hcl # NoClient /\ hnew \in 0 .. NTasks
      /\ r \in Record /\ r.life = "live"
      /\ AnyOK(r, "setquestion", hnew) /\ LiveOK(r, "setquestion", hnew)
      /\ hcl \notin early => CalmOK(r, "setquestion", hnew)
  BY HandOffAtWork DEF HandOffSetQuestion
<1>2. /\ cl' = [cl EXCEPT ![hcl] = q] /\ hpc' = "read" /\ hcl' = hcl /\ hnew' = hnew
      /\ UNCHANGED <<peer, worker, early, ub, phase>>
  BY <1>1 DEF HandOffSetQuestion, IInv
<1>4. /\ q \in Record /\ q.life = r.life /\ q.mask = r.mask /\ q.task = r.task /\ q.given = r.given
      /\ q.question = hnew /\ q.questions = r.questions
      /\ q.stream = r.stream /\ q.timers = r.timers /\ q.expired = r.expired
  BY <1>1 DEF Record
<1>. HIDE DEF r, q
<1>5. AnyOK(q, "read", hnew)
  BY <1>1, <1>4 DEF AnyOK, LiveOK, Early
<1>6. hcl \notin early => CalmOK(q, "read", hnew)
  BY <1>1, <1>4 DEF CalmOK, Late
<1>7. HandOffInv'
  BY <1>1, <1>2, ConstantsOK DEF IInv, HandOffInv, Early, Late
<1>8. QED
  BY <1>1, <1>2, <1>4, <1>5, <1>6, <1>7, HandOffKeeps DEF r

LEMMA ReadKeeps == IInv /\ HandOffRead => IInv'
<1>. SUFFICES ASSUME IInv, HandOffRead PROVE IInv'
  OBVIOUS
<1>. DEFINE r == cl[hcl]
<1>1. /\ hpc = "read" /\ hcl \in Clients /\ hcl # NoClient /\ hnew \in 0 .. NTasks
      /\ r \in Record /\ r.life = "live"
      /\ AnyOK(r, "read", hnew) /\ LiveOK(r, "read", hnew)
      /\ hcl \notin early => CalmOK(r, "read", hnew)
  BY HandOffAtWork DEF HandOffRead
<1>2. /\ cl' = [cl EXCEPT ![hcl] = r] /\ hpc' = "text" /\ hcl' = hcl /\ hnew' = hnew
      /\ UNCHANGED <<peer, worker, early, ub, phase>>
  BY <1>1 DEF HandOffRead, IInv
<1>3. r.task = hnew /\ hnew \in r.questions
  BY <1>1 DEF HandOffRead, HandOffAt, HandOffDangles
<1>4. r.given = hnew /\ r.question = hnew
  BY <1>1, <1>3 DEF LiveOK, Early
<1>. HIDE DEF r
<1>5. AnyOK(r, "text", hnew)
  BY <1>1, <1>3, <1>4 DEF AnyOK, LiveOK, Early
<1>6. hcl \notin early => CalmOK(r, "text", hnew)
  BY <1>1 DEF CalmOK, Late
<1>7. HandOffInv'
  BY <1>1, <1>2 DEF IInv, HandOffInv, Early, Late
<1>8. QED
  BY <1>1, <1>2, <1>5, <1>6, <1>7, HandOffKeeps DEF r

LEMMA Appended ==
    ASSUME NEW a \in Pieces, NEW b \in Pieces
    PROVE  Append(<<>>, a) = <<a>> /\ Append(<<a>>, b) = <<a, b>>
<1>1. Append(<<>>, a) = <<a>>
  <2>1. <<>> \in Seq(Pieces) /\ <<a>> \in Seq(Pieces)
    OBVIOUS
  <2>2. Append(<<>>, a) \in Seq(Pieces) /\ Len(Append(<<>>, a)) = 1
    BY <2>1
  <2>3. Append(<<>>, a)[1] = a
    BY <2>1
  <2>4. QED
    BY <2>1, <2>2, <2>3
<1>2. Append(<<a>>, b) = <<a, b>>
  <2>. DEFINE s == Append(<<a>>, b)
              t == <<a, b>>
  <2>1. <<a>> \in Seq(Pieces) /\ t \in Seq(Pieces) /\ Len(t) = 2 /\ t[1] = a /\ t[2] = b
    OBVIOUS
  <2>2. s \in Seq(Pieces) /\ Len(s) = 2 /\ s[1] = a /\ s[2] = b
    BY <2>1
  <2>. HIDE DEF s, t
  <2>3. \A i \in 1 .. 2 : s[i] = t[i]
    BY <2>1, <2>2
  <2>4. s = t
    BY <2>1, <2>2, <2>3, SeqEqual
  <2>5. QED
    BY <2>4 DEF s, t
<1>3. QED
  BY <1>1, <1>2

LEMMA TextKeeps == IInv /\ HandOffText => IInv'
<1>. SUFFICES ASSUME IInv, HandOffText PROVE IInv'
  OBVIOUS
<1>. DEFINE r == cl[hcl]
<1>1. /\ hpc = "text" /\ hcl \in Clients /\ hcl # NoClient /\ hnew \in 0 .. NTasks
      /\ r \in Record /\ r.life = "live"
      /\ AnyOK(r, "text", hnew) /\ LiveOK(r, "text", hnew)
      /\ hcl \notin early => CalmOK(r, "text", hnew)
  BY HandOffAtWork DEF HandOffText
<1>0. PICK t \in Written(r.stream, <<"text", hnew>>) : cl' = [cl EXCEPT ![hcl].stream = t]
  BY DEF HandOffText
<1>. DEFINE q == [r EXCEPT !.stream = t]
<1>2. /\ cl' = [cl EXCEPT ![hcl] = q] /\ hpc' = "prompt" /\ hcl' = hcl /\ hnew' = hnew
      /\ UNCHANGED <<peer, worker, early, ub, phase>>
  BY <1>0, <1>1 DEF HandOffText, IInv
<1>3. t \in Seq(Pieces)
  <2>1. hnew \in Tasks /\ r.stream \in Seq(Pieces)
    BY <1>1 DEF IInv, HandOffInv, Late, Record
  <2>2. <<"text", hnew>> \in Pieces
    BY <2>1, PromptType
  <2>3. QED
    BY <1>0, <2>1, <2>2, WrittenType
<1>4. /\ q \in Record /\ q.life = r.life /\ q.mask = r.mask /\ q.task = r.task /\ q.given = r.given
      /\ q.question = r.question /\ q.questions = r.questions
      /\ q.stream = t /\ q.timers = r.timers /\ q.expired = r.expired
  BY <1>1, <1>3 DEF Record
<1>. HIDE DEF r, q
<1>5. AnyOK(q, "prompt", hnew)
  BY <1>1, <1>4 DEF AnyOK, LiveOK, Early
<1>6. hcl \notin early => CalmOK(q, "prompt", hnew)
  BY <1>0, <1>1, <1>4 DEF CalmOK, Late
<1>7. HandOffInv'
  BY <1>1, <1>2, ConstantsOK DEF IInv, HandOffInv, Early, Late
<1>8. QED
  BY <1>1, <1>2, <1>4, <1>5, <1>6, <1>7, HandOffKeeps DEF r

LEMMA PromptKeeps == IInv /\ HandOffPrompt => IInv'
<1>. SUFFICES ASSUME IInv, HandOffPrompt PROVE IInv'
  OBVIOUS
<1>. DEFINE r == cl[hcl]
<1>1. /\ hpc = "prompt" /\ hcl \in Clients /\ hcl # NoClient /\ hnew \in 0 .. NTasks
      /\ r \in Record /\ r.life = "live"
      /\ AnyOK(r, "prompt", hnew) /\ LiveOK(r, "prompt", hnew)
      /\ hcl \notin early => CalmOK(r, "prompt", hnew)
  BY HandOffAtWork DEF HandOffPrompt
<1>0. PICK t \in Written(r.stream, Prompt(hnew)) : cl' = [cl EXCEPT ![hcl].stream = t]
  BY DEF HandOffPrompt
<1>. DEFINE q == [r EXCEPT !.stream = t]
<1>2. /\ cl' = [cl EXCEPT ![hcl] = q] /\ hpc' = "idle" /\ hcl' = NoClient /\ hnew' = 0
      /\ UNCHANGED <<peer, worker, early, ub, phase>>
  BY <1>0, <1>1 DEF HandOffPrompt, IInv
<1>3. hnew \in Tasks /\ t \in Seq(Pieces)
  <2>1. hnew \in Tasks /\ r.stream \in Seq(Pieces)
    BY <1>1 DEF IInv, HandOffInv, Late, Record
  <2>2. Prompt(hnew) \in Pieces
    BY <2>1, PromptType
  <2>3. QED
    BY <1>0, <2>1, <2>2, WrittenType
<1>4. /\ q \in Record /\ q.life = r.life /\ q.mask = r.mask /\ q.task = r.task /\ q.given = r.given
      /\ q.question = r.question /\ q.questions = r.questions
      /\ q.stream = t /\ q.timers = r.timers /\ q.expired = r.expired
  BY <1>1, <1>3 DEF Record
<1>. HIDE DEF r, q
<1>5. AnyOK(q, "idle", 0)
  BY <1>1, <1>4 DEF AnyOK, LiveOK, Early
<1>6. ASSUME hcl \notin early PROVE CalmOK(q, "idle", 0)
  <2>1. /\ r.mask = Events /\ r.task = hnew /\ r.question = hnew /\ hnew \in r.questions
        /\ r.stream \in Written(<<>>, <<"text", hnew>>)
    BY <1>1, <1>6 DEF CalmOK, Late
  <2>2. t \in TaskTexts(hnew)
    BY <1>0, <2>1 DEF TaskTexts
  <2>3. (~MayFail => t # <<>>) /\ \A i \in DOMAIN t : t[i][2] = hnew
    BY <1>3, <2>2, TaskTextType
  <2>4. Polled(q)
    BY <1>3, <1>4, <2>1, <2>3 DEF Polled, Events, Tasks
  <2>5. Borrowed(q)
    BY <1>4, <2>1, <2>3 DEF Borrowed
  <2>6. QED
    BY <1>4, <2>3, <2>4, <2>5 DEF CalmOK, Late, Timed
<1>7. HandOffInv'
  BY <1>1, <1>2, ConstantsOK DEF IInv, HandOffInv, Early, Late
<1>8. QED
  BY <1>1, <1>2, <1>4, <1>5, <1>6, <1>7, HandOffKeeps DEF r

LEMMA GiveUpKeeps == IInv /\ HandOffDisconnect => IInv'
<1>. SUFFICES ASSUME IInv, HandOffDisconnect PROVE IInv'
  OBVIOUS
<1>. DEFINE r == cl[hcl]
            q == Disconnected(r)
<1>1. /\ hpc = "fail" /\ hcl \in Clients /\ hcl # NoClient /\ hnew \in 0 .. NTasks
      /\ r \in Record /\ r.life = "live"
      /\ AnyOK(r, "fail", hnew) /\ LiveOK(r, "fail", hnew)
      /\ hcl \notin early => CalmOK(r, "fail", hnew)
  BY HandOffAtWork DEF HandOffDisconnect
<1>2. /\ cl' = [cl EXCEPT ![hcl] = q] /\ hpc' = "idle" /\ hcl' = NoClient /\ hnew' = 0
      /\ UNCHANGED <<peer, worker, early, ub, phase>>
  BY <1>1 DEF HandOffDisconnect, IInv
<1>3. /\ q \in Record /\ q.life = "freed" /\ Empty(q) /\ q.given = r.given
      /\ q.questions = r.questions \ {r.question}
  BY <1>1, DisconnectedFields
<1>. HIDE DEF r, q
<1>4. q.questions = {}
  BY <1>1, <1>3 DEF LiveOK, Fresh, Early
<1>5. AnyOK(q, "idle", 0) /\ CalmOK(q, "idle", 0)
  BY <1>3, <1>4 DEF AnyOK, Empty, CalmOK, Late
<1>6. HandOffInv'
  BY <1>1, <1>2, ConstantsOK DEF IInv, HandOffInv, Early, Late
<1>7. QED
  BY <1>1, <1>2, <1>3, <1>5, <1>6, HandOffKeeps DEF r

-----------------------------------------------------------------------------
(* The invariant holds initially and is kept by every step *)

LEMMA InitOK == Init => IInv
<1>. SUFFICES ASSUME Init PROVE IInv
  OBVIOUS
<1>1. \A c \in Clients : cl[c] = NewClient /\ Stage(c) = "idle"
  BY DEF Init, Stage
<1>2. NewClient \in Record
  <2>1. 0 \in 0 .. NTasks /\ <<>> \in Seq(Pieces)
    BY ConstantsOK
  <2>2. QED
    BY <2>1 DEF NewClient, Record
<1>3. AnyOK(NewClient, "idle", hnew) /\ CalmOK(NewClient, "idle", hnew)
  BY <1>2 DEF AnyOK, CalmOK, Late, NewClient
<1>4. HandOffInv /\ WorkerInv /\ PhaseInv
  BY ConstantsOK DEF Init, HandOffInv, WorkerInv, PhaseInv, Early, Late
<1>5. cl \in [Clients -> Record] /\ input \in [Clients -> Nat]
  BY <1>2 DEF Init
<1>6. QED
  BY <1>1, <1>3, <1>4, <1>5 DEF IInv

LEMMA StutterKeeps == IInv /\ UNCHANGED vars => IInv'
<1>. SUFFICES ASSUME IInv, UNCHANGED vars PROVE IInv'
  OBVIOUS
<1>. USE DEF vars, peer, worker, handoff
<1>1. \A c \in Clients : Stage(c)' = Stage(c)
  BY DEF Stage
<1>2. QED
  BY <1>1 DEF IInv, HandOffInv, WorkerInv, PhaseInv

LEMMA HandOffStepKeeps == IInv /\ HandOffStep => IInv'
<1>. SUFFICES ASSUME IInv, HandOffStep PROVE IInv'
  OBVIOUS
<1>1. CASE HandOffFlush
  BY <1>1, FlushKeeps
<1>2. CASE HandOffGet
  BY <1>2, GetKeeps
<1>3. CASE HandOffGetFails
  BY <1>3, GetFailsKeeps
<1>4. CASE HandOffMod
  BY <1>4, ModKeeps
<1>5. CASE HandOffModFails
  BY <1>5, ModFailsKeeps
<1>6. CASE HandOffSetTask
  BY <1>6, SetTaskKeeps
<1>7. CASE HandOffSetQuestion
  BY <1>7, SetQuestionKeeps
<1>8. CASE HandOffRead
  BY <1>8, ReadKeeps
<1>9. CASE HandOffText
  BY <1>9, TextKeeps
<1>10. CASE HandOffPrompt
  BY <1>10, PromptKeeps
<1>11. CASE HandOffDisconnect
  BY <1>11, GiveUpKeeps
<1>12. CASE HandOffUsesFreed
  BY <1>12, FreedUseKeeps
<1>13. QED
  BY <1>1, <1>2, <1>3, <1>4, <1>5, <1>6, <1>7, <1>8, <1>9, <1>10, <1>11, <1>12
     DEF HandOffStep

LEMMA HandlerStepKeeps == IInv /\ HandlerStep => IInv'
<1>. SUFFICES ASSUME IInv, HandlerStep PROVE IInv'
  OBVIOUS
<1>1. CASE HandleTimer
  BY <1>1, TimerKeeps
<1>2. CASE HandleInput
  BY <1>2, InputKeeps
<1>3. CASE HandleInputNoTask \/ HandleOutputNoQuestion
  BY <1>3, NothingToDoKeeps
<1>4. CASE HandleOutput
  BY <1>4, OutputKeeps
<1>5. CASE HandleHangUp
  BY <1>5, HangUpKeeps
<1>6. CASE WorkerUsesFreed
  BY <1>6, FreedUseKeeps
<1>7. QED
  BY <1>1, <1>2, <1>3, <1>4, <1>5, <1>6 DEF HandlerStep

LEMMA StepKeeps == IInv /\ [Next]_vars => IInv'
<1>. SUFFICES ASSUME IInv, [Next]_vars PROVE IInv'
  OBVIOUS
<1>1. ASSUME NEW c \in Clients, PeerSends(c) \/ PeerHangsUp(c) PROVE IInv'
  BY <1>1, PeerKeeps
<1>2. ASSUME NEW c \in Clients, NEW k \in Tasks, TimerExpires(c, k) PROVE IInv'
  BY <1>2, TimerExpiresKeeps
<1>3. ASSUME NEW c \in Clients, HandOffCreate(c) \/ HandOffCreateFails(c) PROVE IInv'
  BY <1>3, CreateKeeps, CreateFailsKeeps
<1>4. CASE HandOffStep
  BY <1>4, HandOffStepKeeps
<1>5. ASSUME NEW c \in Clients, WaitClient(c) \/ \E k \in Tasks : WaitTimer(c, k) PROVE IInv'
  BY <1>5, WaitKeeps
<1>6. CASE HandlerStep
  BY <1>6, HandlerStepKeeps
<1>7. CASE DestroyCancel \/ WorkerCancelled
  BY <1>7, CancelKeeps
<1>8. CASE DestroyClients
  BY <1>8, DestroyClientsKeeps
<1>9. CASE UNCHANGED vars
  BY <1>9, StutterKeeps
<1>10. QED
  BY <1>1, <1>2, <1>3, <1>4, <1>5, <1>6, <1>7, <1>8, <1>9 DEF Next, Step

(* The inductive invariant: the record of every client, the stage of the   *)
(* hand-off and the event in the worker's hands fit together, through      *)
(* every order of hand-off, answers, timers, hang-ups and shutdown         *)
(* (server_worker.c:102-450).                                              *)
THEOREM InvariantKept == Spec => []IInv
<1>1. Init => IInv
  BY InitOK
<1>2. IInv /\ [Next]_vars => IInv'
  BY StepKeeps
<1>3. QED
  BY <1>1, <1>2, PTL DEF Spec

-----------------------------------------------------------------------------
(* What follows from it *)

(* The assertions at server_worker.c:290 and 332 hold, for any number of   *)
(* clients and tasks and also when the worker serves a client that the     *)
(* acceptor has not finished with.                                         *)
THEOREM TasksPresent == Spec => []TaskPresent
<1>1. IInv => TaskPresent
  BY DEF IInv, AnyOK, TaskPresent
<1>2. QED
  BY <1>1, InvariantKept, PTL

(* Between two events a client is polled for EPOLLOUT exactly while a      *)
(* question is being sent (server_worker.c:245-251, 279-287).              *)
THEOREM PolledExactlyWhilePending == Spec => []PolledWhilePending
<1>1. IInv => PolledWhilePending
  <2>. SUFFICES ASSUME IInv, NEW c \in Clients, Settled(c) PROVE Polled(cl[c])
    BY DEF PolledWhilePending, Polled
  <2>1. CalmOK(cl[c], Stage(c), hnew) /\ cl[c].life = "live"
    BY DEF IInv, Settled
  <2>2. Stage(c) = "idle"
    BY DEF Settled, Ongoing, Stage
  <2>3. QED
    BY <2>1, <2>2 DEF CalmOK
<1>2. QED
  BY <1>1, InvariantKept, PTL

(* When nothing fails, a client has text of its question left to send, or  *)
(* is on the clock of a task with a timeout (server_worker.c:279-292).     *)
THEOREM ClientsWaitOnTheClock == Spec => []WaitsOnTheClock
<1>1. IInv => WaitsOnTheClock
  <2>. SUFFICES ASSUME IInv, NEW c \in Clients, Settled(c)
                PROVE  Polled(cl[c]) /\ Timed(cl[c])
    BY DEF WaitsOnTheClock, Polled, Timed
  <2>1. CalmOK(cl[c], Stage(c), hnew) /\ cl[c].life = "live" /\ Stage(c) = "idle"
    BY DEF IInv, Settled, Ongoing, Stage
  <2>2. QED
    BY <2>1 DEF CalmOK
<1>2. QED
  BY <1>1, InvariantKept, PTL

(* A text in a stream is borrowed from the living question of the current  *)
(* task (server_worker.c:229, 281), unless the worker took an event of the *)
(* client during its hand-off.                                             *)
THEOREM BorrowedTextsAlive == Spec => []BorrowedTextAlive
<1>1. IInv => BorrowedTextAlive
  <2>. SUFFICES ASSUME IInv, NEW c \in Clients \ early PROVE Borrowed(cl[c])
    BY DEF BorrowedTextAlive, Borrowed
  <2>. DEFINE r == cl[c]
  <2>1. AnyOK(r, Stage(c), hnew) /\ CalmOK(r, Stage(c), hnew) /\ r \in Record
    BY DEF IInv
  <2>2. Stage(c) \in Early \cup Late \cup {"idle"}
    BY DEF IInv, HandOffInv, Stage
  <2>. HIDE DEF r
  <2>3. ASSUME r.life # "live" PROVE Borrowed(r)
    <3>1. r.question = 0 /\ r.stream = <<>>
      BY <2>1, <2>3 DEF AnyOK, Empty, NewClient, Record
    <3>2. QED
      BY <3>1 DEF Borrowed
  <2>4. ASSUME r.life = "live", Stage(c) = "idle" PROVE Borrowed(r)
    BY <2>1, <2>4 DEF CalmOK
  <2>5. ASSUME r.life = "live", Stage(c) \in Early PROVE Borrowed(r)
    <3>1. r.question = 0 /\ r.stream = <<>>
      BY <2>1, <2>5 DEF AnyOK, LiveOK, Fresh
    <3>2. QED
      BY <3>1 DEF Borrowed
  <2>6. ASSUME Stage(c) \in Late PROVE Borrowed(r)
    <3>1. /\ r.task = hnew /\ hnew \in r.questions
          /\ r.question = (IF Stage(c) = "setquestion" THEN 0 ELSE hnew)
          /\ IF Stage(c) = "prompt" THEN r.stream \in Written(<<>>, <<"text", hnew>>)
             ELSE r.stream = <<>>
      BY <2>1, <2>6 DEF CalmOK
    <3>2. hnew \in Tasks
      BY <2>6 DEF IInv, HandOffInv, Stage, Late
    <3>3. \A i \in DOMAIN r.stream : r.stream[i][2] = hnew
      <4>1. <<>> \in Seq(Pieces) /\ DOMAIN <<>> = {}
        OBVIOUS
      <4>2. CASE r.stream \in Written(<<>>, <<"text", hnew>>)
        <5>1. <<"text", hnew>> \in Pieces
          BY <3>2, PromptType
        <5>2. \A i \in DOMAIN r.stream : r.stream[i] = <<"text", hnew>>
          BY <4>1, <4>2, <5>1, WrittenType
        <5>3. QED
          BY <5>2
      <4>3. CASE r.stream = <<>>
        BY <4>1, <4>3
      <4>4. QED
        BY <3>1, <4>2, <4>3
    <3>4. r.stream # <<>> => r.question = hnew
      BY <3>1
    <3>5. \A i \in DOMAIN r.stream : r.question = hnew
      <4>1. DOMAIN <<>> = {}
        OBVIOUS
      <4>2. QED
        BY <3>4, <4>1
    <3>6. QED
      BY <3>1, <3>3, <3>5 DEF Borrowed
  <2>7. QED
    BY <2>2, <2>3, <2>4, <2>5, <2>6 DEF r
<1>2. QED
  BY <1>1, InvariantKept, PTL

(* server_worker_destroy leaves no client, timer or epoll entry behind     *)
(* (server_worker.c:436-450, 170-210).                                     *)
THEOREM DestroyedWorkerReleasesAll == Spec => []DestroyReleasesAll
<1>1. IInv => DestroyReleasesAll
  <2>. SUFFICES ASSUME IInv, phase = "destroyed", NEW c \in Clients
                PROVE  /\ cl[c].life # "live"
                       /\ cl[c].timers = {} /\ cl[c].mask = {} /\ cl[c].stream = <<>>
                       /\ cl[c].given \notin cl[c].questions
    BY DEF DestroyReleasesAll
  <2>1. cl[c].life # "live" /\ Stage(c) = "idle" /\ cl[c] \in Record
        /\ AnyOK(cl[c], Stage(c), hnew)
    BY DEF IInv, PhaseInv, Stage
  <2>2. QED
    BY <2>1 DEF AnyOK, Empty, NewClient, Record
<1>2. QED
  BY <1>1, InvariantKept, PTL

(* The pointers in epoll events dangle only where the worker took an event *)
(* of a client during its hand-off (server_worker.c:326-378, 395-433).     *)
THEOREM NoUseAfterFree == Spec => []UseAfterFreeOnlyInHandOff
<1>1. IInv => UseAfterFreeOnlyInHandOff
  BY DEF IInv, WorkerInv, PhaseInv, UseAfterFreeOnlyInHandOff
<1>2. QED
  BY <1>1, InvariantKept, PTL

-----------------------------------------------------------------------------
(* A session only advances *)

(* What SessionAction says of one client, whose record r becomes q.        *)
Advances(r, q) ==
    /\ r.life = "freed" => q = r
    /\ q.given \in {r.given, r.given + 1}
    /\ q.task \in {0, r.task, r.given, r.given + 1}
    /\ q.questions \ r.questions \subseteq {r.given + 1}

LEMMA DisconnectedAdvances ==
    ASSUME NEW r \in Record, r.life = "live"
    PROVE  Advances(r, Disconnected(r))
BY DisconnectedFields DEF Advances, Empty

LEMMA NextTaskAdvances ==
    ASSUME NEW r \in Record, r.life = "live", NEW q \in NextTask(r)
    PROVE  Advances(r, q)
<1>1. CASE r.given < NTasks /\ \E t \in TaskTexts(r.given + 1) : q = Advanced(r, t)
  BY <1>1, AdvancedFields DEF Advances
<1>2. CASE q = Disconnected(r)
  BY <1>2, DisconnectedAdvances
<1>3. QED
  BY <1>1, <1>2 DEF NextTask

LEMMA SendTextAdvances ==
    ASSUME NEW r \in Record, r.life = "live", r.task # 0, NEW q \in SendText(r)
    PROVE  Advances(r, q)
<1>. DEFINE p == Completed(r)
<1>1. /\ p \in Record /\ p.task = r.task /\ p.given = r.given
      /\ p.questions = r.questions \ {r.question}
  BY CompletedFields
<1>. HIDE DEF p
<1>2. ASSUME NEW m \in 1 .. Len(r.stream), q = [r EXCEPT !.stream = SubSeq(@, m, Len(@))]
      PROVE  Advances(r, q)
  <2>1. q.task = r.task /\ q.given = r.given /\ q.questions = r.questions
    BY <1>2 DEF Record
  <2>2. QED
    BY <2>1 DEF Advances
<1>3. ASSUME q = p \/ q = [p EXCEPT !.timers = r.timers]
      PROVE  Advances(r, q)
  <2>1. q.task = p.task /\ q.given = p.given /\ q.questions = p.questions
    BY <1>1, <1>3 DEF Record
  <2>2. QED
    BY <1>1, <2>1 DEF Advances
<1>4. ASSUME q = Disconnected(r) PROVE Advances(r, q)
  BY <1>4, DisconnectedAdvances
<1>5. \/ \E m \in 1 .. Len(r.stream) : q = [r EXCEPT !.stream = SubSeq(@, m, Len(@))]
      \/ q = p \/ q = [p EXCEPT !.timers = r.timers]
      \/ q = Disconnected(r)
  BY DEF SendText, p
<1>6. QED
  BY <1>2, <1>3, <1>4, <1>5

LEMMA ReplacedAdvances ==
    ASSUME IInv, NEW c \in Clients, NEW q, Advances(cl[c], q), cl' = [cl EXCEPT ![c] = q]
    PROVE  SessionAction
<1>1. \A d \in Clients : Advances(cl[d], cl'[d])
  BY DEF IInv, Advances
<1>2. QED
  BY <1>1 DEF SessionAction, Advances

LEMMA HandlerAdvances == IInv /\ HandlerStep => SessionAction
<1>. SUFFICES ASSUME IInv, HandlerStep PROVE SessionAction
  OBVIOUS
<1>1. CASE WorkerUsesFreed
  BY <1>1 DEF WorkerUsesFreed, SessionAction
<1>2. CASE ~WorkerUsesFreed
  <2>. DEFINE r == cl[wcl]
  <2>1. wpc \in {"timer", "client"} /\ ~WorkerDangles
    BY <1>2 DEF HandlerStep, HandleTimer, HandleInput, HandleInputNoTask, HandleOutput,
       HandleOutputNoQuestion, HandleHangUp, AtStage
  <2>2. /\ wcl \in Clients /\ r.life = "live" /\ r \in Record
        /\ AnyOK(r, Stage(wcl), hnew)
    BY <2>1, AtWork
  <2>3. CASE HandleTimer
    <3>. DEFINE t == TimerDestroyed(r, wtimer)
    <3>1. PICK a \in Check(t.task, input[wcl]) :
             \E q \in IF a[1] = "RIGHT" THEN NextTask(t) ELSE {Disconnected(t)} :
                cl' = [cl EXCEPT ![wcl] = q]
      BY <2>3 DEF HandleTimer
    <3>2. PICK q \in IF a[1] = "RIGHT" THEN NextTask(t) ELSE {Disconnected(t)} :
             cl' = [cl EXCEPT ![wcl] = q]
      BY <3>1
    <3>3. /\ t \in Record /\ t.life = r.life /\ t.task = r.task /\ t.given = r.given
          /\ t.questions = r.questions
      BY <2>2, TimerDestroyedFields
    <3>. HIDE DEF t
    <3>4. Advances(t, q)
      BY <2>2, <3>2, <3>3, NextTaskAdvances, DisconnectedAdvances
    <3>5. Advances(r, q)
      BY <2>2, <3>3, <3>4 DEF Advances
    <3>6. QED
      BY <2>2, <3>2, <3>5, ReplacedAdvances
  <2>4. CASE HandleInput
    <3>1. \/ cl' = [cl EXCEPT ![wcl] = Disconnected(r)]
          \/ cl' = [cl EXCEPT ![wcl] = r]
          \/ \E q \in NextTask(r) : cl' = [cl EXCEPT ![wcl] = q]
      BY <2>4 DEF HandleInput, Outcome
    <3>2. Advances(r, r) /\ Advances(r, Disconnected(r))
      BY <2>2, DisconnectedAdvances DEF Advances
    <3>3. \A q \in NextTask(r) : Advances(r, q)
      BY <2>2, NextTaskAdvances
    <3>4. QED
      BY <2>2, <3>1, <3>2, <3>3, ReplacedAdvances
  <2>5. CASE HandleOutput
    <3>1. PICK q \in SendText(r) : cl' = [cl EXCEPT ![wcl] = q]
      BY <2>5 DEF HandleOutput, Outcome
    <3>2. r.task # 0
      BY <2>2, <2>5 DEF HandleOutput, AnyOK
    <3>3. Advances(r, q)
      BY <2>2, <3>1, <3>2, SendTextAdvances
    <3>4. QED
      BY <2>2, <3>1, <3>3, ReplacedAdvances
  <2>6. CASE HandleHangUp
    BY <2>2, <2>6, DisconnectedAdvances, ReplacedAdvances DEF HandleHangUp, Outcome
  <2>7. CASE HandleInputNoTask \/ HandleOutputNoQuestion
    <3>1. Advances(r, r) /\ cl' = [cl EXCEPT ![wcl] = r]
      BY <2>7 DEF HandleInputNoTask, HandleOutputNoQuestion, Outcome, Advances
    <3>2. QED
      BY <2>2, <3>1, ReplacedAdvances
  <2>8. QED
    BY <1>2, <2>3, <2>4, <2>5, <2>6, <2>7 DEF HandlerStep
<1>3. QED
  BY <1>1, <1>2

LEMMA HandOffAdvances == IInv /\ HandOffStep => SessionAction
<1>. SUFFICES ASSUME IInv, HandOffStep PROVE SessionAction
  OBVIOUS
<1>. DEFINE r == cl[hcl]
<1>1. CASE HandOffGetFails \/ HandOffRead \/ HandOffUsesFreed
  BY <1>1 DEF HandOffGetFails, HandOffRead, HandOffUsesFreed, SessionAction
<1>2. ASSUME NEW pc, pc # "idle", HandOffAt(pc)
      PROVE  /\ hcl \in Clients /\ r \in Record /\ r.life = "live"
             /\ LiveOK(r, pc, hnew) /\ cl \in [Clients -> Record]
  BY <1>2, HandOffAtWork DEF IInv
<1>3. CASE HandOffFlush
  <2>1. hcl \in Clients /\ r \in Record /\ r.life = "live" /\ cl \in [Clients -> Record]
    BY <1>2, <1>3 DEF HandOffFlush
  <2>2. Advances(r, [r EXCEPT !.stream = <<>>, !.task = 0])
    BY <2>1 DEF Advances, Record
  <2>3. cl' = [cl EXCEPT ![hcl] = [r EXCEPT !.stream = <<>>, !.task = 0]]
    BY <1>3, <2>1 DEF HandOffFlush
  <2>4. QED
    BY <2>1, <2>2, <2>3, ReplacedAdvances
<1>4. CASE HandOffGet
  <2>1. hcl \in Clients /\ r \in Record /\ r.life = "live" /\ cl \in [Clients -> Record]
    BY <1>2, <1>4 DEF HandOffGet
  <2>. DEFINE g == r.given + 1
              q == [r EXCEPT !.given = g, !.questions = @ \cup {g}]
  <2>2. cl' = [cl EXCEPT ![hcl].given = g, ![hcl].questions = @ \cup {g}]
    BY <1>4 DEF HandOffGet
  <2>. HIDE DEF g
  <2>3. cl' = [cl EXCEPT ![hcl] = q]
    BY <2>1, <2>2
  <2>4. q.life = "live" /\ q.given = g /\ q.questions = r.questions \cup {g} /\ q.task = r.task
    BY <2>1 DEF Record
  <2>5. Advances(r, q)
    BY <2>1, <2>4 DEF Advances, g
  <2>6. QED
    BY <2>1, <2>3, <2>5, ReplacedAdvances
<1>5. CASE HandOffMod
  <2>1. hcl \in Clients /\ r \in Record /\ r.life = "live" /\ cl \in [Clients -> Record]
    BY <1>2, <1>5 DEF HandOffMod
  <2>2. Advances(r, [r EXCEPT !.mask = Events])
    BY <2>1 DEF Advances, Record
  <2>3. cl' = [cl EXCEPT ![hcl] = [r EXCEPT !.mask = Events]]
    BY <1>5, <2>1 DEF HandOffMod
  <2>4. QED
    BY <2>1, <2>2, <2>3, ReplacedAdvances
<1>6. CASE HandOffModFails
  <2>1. hcl \in Clients /\ r \in Record /\ r.life = "live" /\ cl \in [Clients -> Record]
    BY <1>2, <1>6 DEF HandOffModFails
  <2>2. Advances(r, [r EXCEPT !.questions = @ \ {hnew}])
    BY <2>1 DEF Advances, Record
  <2>3. cl' = [cl EXCEPT ![hcl] = [r EXCEPT !.questions = @ \ {hnew}]]
    BY <1>6, <2>1 DEF HandOffModFails
  <2>4. QED
    BY <2>1, <2>2, <2>3, ReplacedAdvances
<1>7. CASE HandOffSetTask
  <2>1. /\ hcl \in Clients /\ r \in Record /\ r.life = "live" /\ cl \in [Clients -> Record]
        /\ LiveOK(r, "settask", hnew)
    BY <1>2, <1>7 DEF HandOffSetTask
  <2>2. r.given = hnew
    BY <2>1 DEF LiveOK, Fresh, Early
  <2>3. Advances(r, [r EXCEPT !.task = hnew])
    BY <2>1, <2>2 DEF Advances, Record
  <2>4. cl' = [cl EXCEPT ![hcl] = [r EXCEPT !.task = hnew]]
    BY <1>7, <2>1 DEF HandOffSetTask
  <2>5. QED
    BY <2>1, <2>3, <2>4, ReplacedAdvances
<1>8. CASE HandOffSetQuestion
  <2>1. hcl \in Clients /\ r \in Record /\ r.life = "live" /\ cl \in [Clients -> Record]
    BY <1>2, <1>8 DEF HandOffSetQuestion
  <2>2. Advances(r, [r EXCEPT !.question = hnew])
    BY <2>1 DEF Advances, Record
  <2>3. cl' = [cl EXCEPT ![hcl] = [r EXCEPT !.question = hnew]]
    BY <1>8, <2>1 DEF HandOffSetQuestion
  <2>4. QED
    BY <2>1, <2>2, <2>3, ReplacedAdvances
<1>9. ASSUME NEW t, cl' = [cl EXCEPT ![hcl].stream = t],
             HandOffText \/ HandOffPrompt
      PROVE  SessionAction
  <2>1. hcl \in Clients /\ r \in Record /\ r.life = "live" /\ cl \in [Clients -> Record]
    BY <1>2, <1>9 DEF HandOffText, HandOffPrompt
  <2>2. cl' = [cl EXCEPT ![hcl] = [r EXCEPT !.stream = t]]
    BY <1>9, <2>1
  <2>3. Advances(r, [r EXCEPT !.stream = t])
    BY <2>1 DEF Advances, Record
  <2>4. QED
    BY <2>1, <2>2, <2>3, ReplacedAdvances
<1>10. CASE HandOffDisconnect
  <2>1. hcl \in Clients /\ r \in Record /\ r.life = "live"
    BY <1>2, <1>10 DEF HandOffDisconnect
  <2>2. cl' = [cl EXCEPT ![hcl] = Disconnected(r)]
    BY <1>10 DEF HandOffDisconnect
  <2>3. QED
    BY <2>1, <2>2, DisconnectedAdvances, ReplacedAdvances
<1>11. CASE HandOffText
  BY <1>9, <1>11 DEF HandOffText
<1>12. CASE HandOffPrompt
  BY <1>9, <1>12 DEF HandOffPrompt
<1>13. QED
  BY <1>1, <1>3, <1>4, <1>5, <1>6, <1>7, <1>8, <1>10, <1>11, <1>12 DEF HandOffStep

LEMMA CreateAdvances ==
    ASSUME IInv, NEW c \in Clients, HandOffCreate(c) \/ HandOffCreateFails(c)
    PROVE  SessionAction
<1>. DEFINE r == cl[c]
<1>1. r \in Record /\ r.life = "none" /\ cl \in [Clients -> Record]
  BY DEF IInv, HandOffCreate, HandOffCreateFails
<1>2. CASE HandOffCreate(c)
  <2>1. cl' = [cl EXCEPT ![c] = [r EXCEPT !.life = "live", !.mask = {"RDHUP"}]]
    BY <1>1, <1>2 DEF HandOffCreate
  <2>2. Advances(r, [r EXCEPT !.life = "live", !.mask = {"RDHUP"}])
    BY <1>1 DEF Advances, Record
  <2>3. QED
    BY <2>1, <2>2, ReplacedAdvances
<1>3. CASE HandOffCreateFails(c)
  <2>1. cl' = [cl EXCEPT ![c] = [r EXCEPT !.life = "freed"]]
    BY <1>1, <1>3 DEF HandOffCreateFails
  <2>2. Advances(r, [r EXCEPT !.life = "freed"])
    BY <1>1 DEF Advances, Record
  <2>3. QED
    BY <2>1, <2>2, ReplacedAdvances
<1>4. QED
  BY <1>2, <1>3

LEMMA ClockAdvances ==
    ASSUME IInv, NEW c \in Clients, NEW k \in Tasks, TimerExpires(c, k)
    PROVE  SessionAction
<1>. DEFINE r == cl[c]
            q == [r EXCEPT !.expired = @ \cup {k}]
<1>1. r \in Record /\ AnyOK(r, Stage(c), hnew) /\ r.timers # {}
  BY DEF IInv, TimerExpires
<1>2. r.life # "freed" /\ cl' = [cl EXCEPT ![c] = q]
  BY <1>1 DEF AnyOK, Empty, TimerExpires, IInv
<1>3. Advances(r, q)
  BY <1>1, <1>2 DEF Advances, Record
<1>4. QED
  BY <1>2, <1>3, ReplacedAdvances

LEMMA DestroyAdvances == IInv /\ DestroyClients => SessionAction
<1>. SUFFICES ASSUME IInv, DestroyClients, NEW c \in Clients PROVE Advances(cl[c], cl'[c])
  BY DEF SessionAction, Advances
<1>1. cl[c] \in Record /\ cl'[c] = IF cl[c].life = "live" THEN Disconnected(cl[c]) ELSE cl[c]
  BY DEF DestroyClients, IInv
<1>2. CASE cl[c].life = "live"
  BY <1>1, <1>2, DisconnectedAdvances
<1>3. CASE cl[c].life # "live"
  BY <1>1, <1>3 DEF Advances
<1>4. QED
  BY <1>2, <1>3

(* Tasks are given in order and each of them once, and a freed client never*)
(* changes, however hand-off, timers and answers interleave                *)
(* (server_worker.c:225-266).                                              *)
THEOREM SessionsOnlyAdvance == Spec => SessionOnlyAdvances
<1>1. IInv /\ [Next]_vars => [SessionAction]_vars
  <2>. SUFFICES ASSUME IInv, Next PROVE SessionAction
    OBVIOUS
  <2>1. UNCHANGED cl => SessionAction
    BY DEF SessionAction
  <2>2. CASE HandOffStep
    BY <2>2, HandOffAdvances
  <2>3. CASE HandlerStep
    BY <2>3, HandlerAdvances
  <2>4. ASSUME NEW c \in Clients, HandOffCreate(c) \/ HandOffCreateFails(c) PROVE SessionAction
    BY <2>4, CreateAdvances
  <2>5. ASSUME NEW c \in Clients, NEW k \in Tasks, TimerExpires(c, k) PROVE SessionAction
    BY <2>5, ClockAdvances
  <2>6. CASE DestroyClients
    BY <2>6, DestroyAdvances
  <2>7. CASE \/ \E c \in Clients : PeerSends(c) \/ PeerHangsUp(c) \/ WaitClient(c)
             \/ \E c \in Clients, k \in Tasks : WaitTimer(c, k)
             \/ DestroyCancel \/ WorkerCancelled
    BY <2>1, <2>7
       DEF PeerSends, PeerHangsUp, WaitClient, WaitTimer, DestroyCancel, WorkerCancelled
  <2>8. QED
    BY <2>2, <2>3, <2>4, <2>5, <2>6, <2>7 DEF Next, Step
<1>2. QED
  BY <1>1, InvariantKept, PTL DEF Spec, SessionOnlyAdvances
=============================================================================
