---------------------------- MODULE PlotSockets ----------------------------
(***************************************************************************)
(* The listening side of the server (src/server/server.c).                 *)
(*                                                                         *)
(* One acceptor thread (server_main_thread_loop) waits on an epoll         *)
(* instance for connections on the plot sockets; any number of control     *)
(* threads add plots, remove plots and finally destroy the server.  A plot *)
(* socket is a heap object: the epoll event carries a raw pointer to it,   *)
(* so server_remove_plot must not free it at once.  It unregisters the     *)
(* socket, marks it inactive and parks it on a second ring, which only the *)
(* acceptor (or server_destroy, after joining it) empties.                 *)
(*                                                                         *)
(* Critical sections of inactive_plot_sockets_mtx touch nothing but the    *)
(* inactive ring and always lie inside one step here, so that mutex has no *)
(* variable of its own; plot_sockets_mtx is held across steps and has one. *)
(***************************************************************************)
EXTENDS Naturals, Sequences

CONSTANTS
    Sockets,   \* plot_socket objects that server_add_plot may allocate
    Ports,     \* ports a caller may ask for
    Callers,   \* one element per call of server_add_plot/server_remove_plot
    Conns,     \* connections that peers may open
    Acceptor,  \* the main thread of the server, as an owner of the mutex
    None,      \* the null pointer / no owner
    MayFail    \* whether malloc, socket, bind, epoll_ctl, accept... may fail

ASSUME ThreadsDistinct ==
    /\ Acceptor \notin Callers
    /\ None \notin Callers \cup {Acceptor} \cup Sockets \cup Conns \cup Ports
    /\ MayFail \in BOOLEAN

VARIABLES
    mem,           \* "unallocated", "allocated" or "freed", per plot_socket
    sockfd,        \* "open" or "closed" (-1), per plot_socket
    active,        \* plot_socket.active
    port,          \* plot_socket.port
    plot_sockets,  \* the ring server->plot_sockets, head first
    inactive_plot_sockets, \* the members of server->inactive_plot_sockets
    epoll,         \* the interest list of server->epfd
    plot_sockets_mtx,      \* the owner of the mutex, or None
    conn,          \* what became of each connection
    lsock,         \* the plot socket whose backlog a connection joined
    apc,           \* where the acceptor is
    ev,            \* ev.data.ptr of the acceptor's last event
    clientfd,      \* the connection the acceptor has accepted
    cpc,           \* where each call is
    target,        \* the plot_socket a call of server_add_plot works on
    arg,           \* the port a call of server_remove_plot was given
    phase          \* progress of server_destroy

memory == <<mem, sockfd, active, port>>
rings == <<plot_sockets, inactive_plot_sockets, epoll>>
net == <<conn, lsock>>
acceptor == <<apc, ev, clientfd>>
calls == <<cpc, target, arg>>
vars == <<memory, rings, net, acceptor, calls, plot_sockets_mtx, phase>>

ConnStates == {"new", "queued", "accepted", "handed", "closed", "reset"}
AcceptorStates == {"wait", "lock", "check", "skip", "cleanup", "accept",
                   "bind", "unlock", "dead"}
CallStates == {"idle", "add", "register", "registered", "abort", "close",
               "remove", "removed", "done"}
Phases == {"running", "cancelled", "joined", "destroyed"}

Listed == {plot_sockets[i] : i \in DOMAIN plot_sockets}
Backlog(s) == {c \in Conns : conn[c] = "queued" /\ lsock[c] = s}
InCall(t) == cpc[t] \notin {"idle", "done"}

(* close() on a listening socket resets the connections in its backlog.    *)
ResetBacklog(S) ==
    conn' = [c \in Conns |->
               IF conn[c] = "queued" /\ lsock[c] \in S THEN "reset" ELSE conn[c]]

(* server_cleanup_inactive_plot_sockets: free every parked plot socket.    *)
CleanupInactive ==
    /\ mem' = [s \in Sockets |->
                 IF s \in inactive_plot_sockets THEN "freed" ELSE mem[s]]
    /\ inactive_plot_sockets' = {}

Init ==
    /\ mem = [s \in Sockets |-> "unallocated"]
    /\ sockfd = [s \in Sockets |-> "closed"]
    /\ active = [s \in Sockets |-> FALSE]
    /\ port = [s \in Sockets |-> None]
    /\ plot_sockets = <<>>
    /\ inactive_plot_sockets = {}
    /\ epoll = {}
    /\ plot_sockets_mtx = None
    /\ conn = [c \in Conns |-> "new"]
    /\ lsock = [c \in Conns |-> None]
    /\ apc = "wait"
    /\ ev = None
    /\ clientfd = None
    /\ cpc = [t \in Callers |-> "idle"]
    /\ target = [t \in Callers |-> None]
    /\ arg = [t \in Callers |-> None]
    /\ phase = "running"

-----------------------------------------------------------------------------
(* The peers *)

(* A peer connects: the kernel queues the connection on a listening socket,*)
(* registered with epoll or not.                                           *)
Connect(c, s) ==
    /\ conn[c] = "new"
    /\ sockfd[s] = "open"
    /\ conn' = [conn EXCEPT ![c] = "queued"]
    /\ lsock' = [lsock EXCEPT ![c] = s]
    /\ UNCHANGED <<memory, rings, acceptor, calls, plot_sockets_mtx, phase>>

-----------------------------------------------------------------------------
(* The acceptor thread *)

(* epoll_wait returns one level-triggered event and cancellation is        *)
(* disabled.  The event is a pointer taken outside the mutex.  A thread    *)
(* that was cancelled does not come back from epoll_wait.                  *)
EpollWait(s) ==
    /\ apc = "wait"
    /\ phase # "cancelled"
    /\ s \in epoll
    /\ Backlog(s) # {}
    /\ ev' = s
    /\ apc' = "lock"
    /\ UNCHANGED <<memory, rings, net, clientfd, calls, plot_sockets_mtx, phase>>

(* Mutant: the mutex is not waited for.                                    *)
AcceptorLockUnguarded ==
    /\ apc = "lock"
    /\ plot_sockets_mtx' = Acceptor
    /\ apc' = "check"
    /\ UNCHANGED <<memory, rings, net, ev, clientfd, calls, phase>>

AcceptorLock ==
    /\ apc = "lock"
    /\ plot_sockets_mtx = None
    /\ plot_sockets_mtx' = Acceptor
    /\ apc' = "check"
    /\ UNCHANGED <<memory, rings, net, ev, clientfd, calls, phase>>

(* Mutant: cleanup before the check, the mistake of the comment at line 81.*)
AcceptorCheckAfterCleanup ==
    /\ apc = "check"
    /\ CleanupInactive
    /\ apc' = IF active[ev] THEN "cleanup" ELSE "skip"
    /\ UNCHANGED <<sockfd, active, port, plot_sockets, epoll, net, ev, clientfd,
                   calls, plot_sockets_mtx, phase>>

(* Mutant: no check at all.                                                *)
AcceptorCheckDropped ==
    /\ apc = "check"
    /\ apc' = "cleanup"
    /\ UNCHANGED <<memory, rings, net, ev, clientfd, calls, plot_sockets_mtx, phase>>

(* The first use of the pointer under the mutex: is the plot still there?  *)
AcceptorCheck ==
    /\ apc = "check"
    /\ apc' = IF active[ev] THEN "cleanup" ELSE "skip"
    /\ UNCHANGED <<memory, rings, net, ev, clientfd, calls, plot_sockets_mtx, phase>>

(* Both branches empty the inactive ring, but only after the check.        *)
AcceptorCleanup ==
    /\ apc \in {"skip", "cleanup"}
    /\ CleanupInactive
    /\ apc' = IF apc = "skip" THEN "unlock" ELSE "accept"
    /\ UNCHANGED <<sockfd, active, port, plot_sockets, epoll, net, ev, clientfd,
                   calls, plot_sockets_mtx, phase>>

AcceptorAccept(c) ==
    /\ apc = "accept"
    /\ c \in Backlog(ev)
    /\ conn' = [conn EXCEPT ![c] = "accepted"]
    /\ clientfd' = c
    /\ apc' = "bind"
    /\ UNCHANGED <<memory, rings, lsock, ev, calls, plot_sockets_mtx, phase>>

AcceptorAcceptFails ==
    /\ apc = "accept"
    /\ MayFail
    /\ apc' = "unlock"
    /\ UNCHANGED <<memory, rings, net, ev, clientfd, calls, plot_sockets_mtx, phase>>

(* server_worker_pool_add_client takes the connection, or it is closed.    *)
AcceptorBind(ok) ==
    /\ apc = "bind"
    /\ ok \/ MayFail
    /\ conn' = [conn EXCEPT ![clientfd] = IF ok THEN "handed" ELSE "closed"]
    /\ clientfd' = None
    /\ apc' = "unlock"
    /\ UNCHANGED <<memory, rings, lsock, ev, calls, plot_sockets_mtx, phase>>

AcceptorUnlock ==
    /\ apc = "unlock"
    /\ plot_sockets_mtx' = None
    /\ ev' = None
    /\ apc' = "wait"
    /\ UNCHANGED <<memory, rings, net, clientfd, calls, phase>>

(* Mutant: cancellation stays enabled up to the hand-off.                  *)
AcceptorCancelledAnywhere ==
    /\ apc \in {"wait", "bind"}
    /\ phase = "cancelled"
    /\ apc' = "dead"
    /\ UNCHANGED <<memory, rings, net, ev, clientfd, calls, plot_sockets_mtx, phase>>

(* Cancellation is enabled around epoll_wait only.                         *)
AcceptorCancelled ==
    /\ apc = "wait"
    /\ phase = "cancelled"
    /\ apc' = "dead"
    /\ UNCHANGED <<memory, rings, net, ev, clientfd, calls, plot_sockets_mtx, phase>>

-----------------------------------------------------------------------------
(* server_add_plot *)

(* malloc, socket, bind and listen, outside the mutex: peers may connect   *)
(* from here on.  bind refuses a port that an open socket holds.           *)
AddOpen(t, s, p) ==
    /\ phase = "running"
    /\ cpc[t] = "idle"
    /\ mem[s] = "unallocated"
    /\ \A r \in Sockets : sockfd[r] = "open" => port[r] # p
    /\ mem' = [mem EXCEPT ![s] = "allocated"]
    /\ sockfd' = [sockfd EXCEPT ![s] = "open"]
    /\ active' = [active EXCEPT ![s] = TRUE]
    /\ port' = [port EXCEPT ![s] = p]
    /\ target' = [target EXCEPT ![t] = s]
    /\ cpc' = [cpc EXCEPT ![t] = "add"]
    /\ UNCHANGED <<rings, net, acceptor, arg, plot_sockets_mtx, phase>>

(* One of them fails: what was made is undone and -1 returned.             *)
AddOpenFails(t) ==
    /\ phase = "running"
    /\ cpc[t] = "idle"
    /\ MayFail
    /\ cpc' = [cpc EXCEPT ![t] = "done"]
    /\ UNCHANGED <<memory, rings, net, acceptor, target, arg, plot_sockets_mtx, phase>>

AddLock(t) ==
    /\ cpc[t] = "add"
    /\ plot_sockets_mtx = None
    /\ plot_sockets_mtx' = t
    /\ cpc' = [cpc EXCEPT ![t] = "register"]
    /\ UNCHANGED <<memory, rings, net, acceptor, target, arg, phase>>

AddRegister(t) ==
    /\ cpc[t] = "register"
    /\ epoll' = epoll \cup {target[t]}
    /\ plot_sockets' = Append(plot_sockets, target[t])
    /\ cpc' = [cpc EXCEPT ![t] = "registered"]
    /\ UNCHANGED <<memory, inactive_plot_sockets, net, acceptor, target, arg,
                   plot_sockets_mtx, phase>>

(* Mutant: the ring is linked before epoll_ctl and not undone.             *)
AddRegisterFailsLinked(t) ==
    /\ cpc[t] = "register"
    /\ MayFail
    /\ plot_sockets' = Append(plot_sockets, target[t])
    /\ cpc' = [cpc EXCEPT ![t] = "abort"]
    /\ UNCHANGED <<memory, inactive_plot_sockets, epoll, net, acceptor, target, arg,
                   plot_sockets_mtx, phase>>

AddRegisterFails(t) ==
    /\ cpc[t] = "register"
    /\ MayFail
    /\ cpc' = [cpc EXCEPT ![t] = "abort"]
    /\ UNCHANGED <<memory, rings, net, acceptor, target, arg, plot_sockets_mtx, phase>>

AddUnlock(t) ==
    /\ cpc[t] \in {"registered", "abort"}
    /\ plot_sockets_mtx' = None
    /\ cpc' = [cpc EXCEPT ![t] = IF cpc[t] = "abort" THEN "close" ELSE "done"]
    /\ UNCHANGED <<memory, rings, net, acceptor, target, arg, phase>>

(* The error path closes and frees the socket, which nobody else knows.    *)
AddClose(t) ==
    /\ cpc[t] = "close"
    /\ sockfd' = [sockfd EXCEPT ![target[t]] = "closed"]
    /\ mem' = [mem EXCEPT ![target[t]] = "freed"]
    /\ ResetBacklog({target[t]})
    /\ cpc' = [cpc EXCEPT ![t] = "done"]
    /\ UNCHANGED <<active, port, rings, lsock, acceptor, target, arg,
                   plot_sockets_mtx, phase>>

-----------------------------------------------------------------------------
(* server_remove_plot *)

RemoveLock(t, p) ==
    /\ phase = "running"
    /\ cpc[t] = "idle"
    /\ plot_sockets_mtx = None
    /\ plot_sockets_mtx' = t
    /\ arg' = [arg EXCEPT ![t] = p]
    /\ cpc' = [cpc EXCEPT ![t] = "remove"]
    /\ UNCHANGED <<memory, rings, net, acceptor, target, phase>>

(* The loop never advances its iterator: only the head can match.          *)
RemoveMatches(t) == plot_sockets # <<>> /\ port[Head(plot_sockets)] = arg[t]

(* Mutant: the socket is unregistered but never closed.                    *)
RemoveParkUnclosed(t) ==
    LET s == Head(plot_sockets) IN
    /\ cpc[t] = "remove"
    /\ RemoveMatches(t)
    /\ epoll' = epoll \ {s}
    /\ active' = [active EXCEPT ![s] = FALSE]
    /\ plot_sockets' = Tail(plot_sockets)
    /\ inactive_plot_sockets' = inactive_plot_sockets \cup {s}
    /\ cpc' = [cpc EXCEPT ![t] = "removed"]
    /\ UNCHANGED <<mem, sockfd, port, net, acceptor, target, arg,
                   plot_sockets_mtx, phase>>

RemovePark(t) ==
    LET s == Head(plot_sockets) IN
    /\ cpc[t] = "remove"
    /\ RemoveMatches(t)
    /\ epoll' = epoll \ {s}
    /\ sockfd' = [sockfd EXCEPT ![s] = "closed"]
    /\ active' = [active EXCEPT ![s] = FALSE]
    /\ ResetBacklog({s})
    /\ plot_sockets' = Tail(plot_sockets)
    /\ inactive_plot_sockets' = inactive_plot_sockets \cup {s}
    /\ cpc' = [cpc EXCEPT ![t] = "removed"]
    /\ UNCHANGED <<mem, port, lsock, acceptor, target, arg, plot_sockets_mtx, phase>>

(* Mutant: "not found" returns with the mutex held.                        *)
RemoveNotFoundHeld(t) ==
    /\ cpc[t] = "remove"
    /\ ~RemoveMatches(t)
    /\ cpc' = [cpc EXCEPT ![t] = "done"]
    /\ UNCHANGED <<memory, rings, net, acceptor, target, arg, plot_sockets_mtx, phase>>

RemoveNotFound(t) ==
    /\ cpc[t] = "remove"
    /\ ~RemoveMatches(t)
    /\ cpc' = [cpc EXCEPT ![t] = "removed"]
    /\ UNCHANGED <<memory, rings, net, acceptor, target, arg, plot_sockets_mtx, phase>>

RemoveUnlock(t) ==
    /\ cpc[t] = "removed"
    /\ plot_sockets_mtx' = None
    /\ cpc' = [cpc EXCEPT ![t] = "done"]
    /\ UNCHANGED <<memory, rings, net, acceptor, target, arg, phase>>

-----------------------------------------------------------------------------
(* server_destroy: the caller guarantees that no other call is running.    *)

DestroyCancel ==
    /\ phase = "running"
    /\ \A t \in Callers : ~InCall(t)
    /\ phase' = "cancelled"
    /\ UNCHANGED <<memory, rings, net, acceptor, calls, plot_sockets_mtx>>

DestroyJoin ==
    /\ phase = "cancelled"
    /\ apc = "dead"
    /\ phase' = "joined"
    /\ UNCHANGED <<memory, rings, net, acceptor, calls, plot_sockets_mtx>>

(* The pool is gone: free the parked sockets, then close and free the rest.*)
DestroyFree ==
    /\ phase = "joined"
    /\ mem' = [s \in Sockets |->
                 IF s \in inactive_plot_sockets \cup Listed THEN "freed" ELSE mem[s]]
    /\ sockfd' = [s \in Sockets |-> IF s \in Listed THEN "closed" ELSE sockfd[s]]
    /\ ResetBacklog(Listed)
    /\ inactive_plot_sockets' = {}
    /\ plot_sockets' = <<>>
    /\ epoll' = {}
    /\ phase' = "destroyed"
    /\ UNCHANGED <<active, port, lsock, acceptor, calls, plot_sockets_mtx>>

-----------------------------------------------------------------------------

AcceptorStep ==
    \/ \E s \in Sockets : EpollWait(s)
    \/ AcceptorLock
    \/ AcceptorCheck
    \/ AcceptorCleanup
    \/ \E c \in Conns : AcceptorAccept(c)
    \/ AcceptorAcceptFails
    \/ \E ok \in BOOLEAN : AcceptorBind(ok)
    \/ AcceptorUnlock
    \/ AcceptorCancelled

(* What a call does once it has begun.                                     *)
CallStep(t) ==
    \/ AddLock(t)
    \/ AddRegister(t)
    \/ AddRegisterFails(t)
    \/ AddUnlock(t)
    \/ AddClose(t)
    \/ RemovePark(t)
    \/ RemoveNotFound(t)
    \/ RemoveUnlock(t)

CallBegin(t) ==
    \/ \E s \in Sockets, p \in Ports : AddOpen(t, s, p)
    \/ AddOpenFails(t)
    \/ \E p \in Ports : RemoveLock(t, p)

Destroy == DestroyCancel \/ DestroyJoin \/ DestroyFree

Next ==
    \/ \E c \in Conns, s \in Sockets : Connect(c, s)
    \/ AcceptorStep
    \/ \E t \in Callers : CallBegin(t) \/ CallStep(t)
    \/ Destroy

Spec == Init /\ [][Next]_vars

(* Threads run; nobody is obliged to connect, to call or to destroy, but a *)
(* destroy that has begun goes on.  accept may fail, but not for ever.     *)
Fairness ==
    /\ WF_vars(AcceptorStep)
    /\ SF_vars(\E c \in Conns : AcceptorAccept(c))
    /\ \A t \in Callers : WF_vars(CallStep(t))
    /\ WF_vars(DestroyJoin \/ DestroyFree)

FairSpec == Spec /\ Fairness

-----------------------------------------------------------------------------
(* Properties *)

(* Types of all variables.                                                 *)
TypeOK ==
    /\ mem \in [Sockets -> {"unallocated", "allocated", "freed"}]
    /\ sockfd \in [Sockets -> {"open", "closed"}]
    /\ active \in [Sockets -> BOOLEAN]
    /\ port \in [Sockets -> Ports \cup {None}]
    /\ plot_sockets \in Seq(Sockets)
    /\ inactive_plot_sockets \in SUBSET Sockets
    /\ epoll \in SUBSET Sockets
    /\ plot_sockets_mtx \in Callers \cup {Acceptor, None}
    /\ conn \in [Conns -> ConnStates]
    /\ lsock \in [Conns -> Sockets \cup {None}]
    /\ apc \in AcceptorStates
    /\ ev \in Sockets \cup {None}
    /\ clientfd \in Conns \cup {None}
    /\ cpc \in [Callers -> CallStates]
    /\ target \in [Callers -> Sockets \cup {None}]
    /\ arg \in [Callers -> Ports \cup {None}]
    /\ phase \in Phases

(* The pointer that epoll_wait handed to the acceptor stays valid from the *)
(* moment it is taken, outside the mutex, until its last use, whatever     *)
(* plots are removed meanwhile (server.c:73-94, the comment at line 81).   *)
EventPointerValid ==
    apc \in {"lock", "check", "skip", "cleanup", "accept", "bind"} =>
        /\ ev \in Sockets
        /\ mem[ev] = "allocated"

(* accept() and ps->pc are used on a plot that is still active and whose   *)
(* descriptor is open: the check made under the mutex stays true until the *)
(* connection is bound (server.c:75-94).                                   *)
AcceptsOnlyActive ==
    apc \in {"accept", "bind"} => active[ev] /\ sockfd[ev] = "open"

(* Everything reachable from the server is allocated: both rings and the   *)
(* epoll interest list never hold a freed plot socket, parked sockets have *)
(* a closed descriptor (the assertion at server.c:41) and can raise no     *)
(* event, and listed ones are exactly the registered ones.                 *)
RingsConsistent ==
    /\ epoll = Listed
    /\ \A s \in Listed : mem[s] = "allocated" /\ active[s] /\ sockfd[s] = "open"
    /\ \A s \in inactive_plot_sockets :
          mem[s] = "allocated" /\ ~active[s] /\ sockfd[s] = "closed"

(* A destroyed server leaves no plot socket allocated or listening, no     *)
(* connection waiting in a backlog and none accepted but handed to nobody: *)
(* the acceptor is never cancelled half-way through a connection.          *)
DestroyReleasesAll ==
    phase = "destroyed" =>
        /\ \A s \in Sockets : mem[s] # "allocated" /\ sockfd[s] = "closed"
        /\ \A c \in Conns : conn[c] \notin {"queued", "accepted"}

(* A connection reaches a worker only while the plot it was made to is     *)
(* active, and it is never taken back from the worker.                     *)
HandOffAction ==
    \A c \in Conns :
        /\ conn[c] # "handed" /\ conn'[c] = "handed" => active[lsock[c]]
        /\ conn[c] = "handed" => conn'[c] = "handed"
HandOffOnlyActive == [][HandOffAction]_vars

(* server_destroy, once begun, returns: cancellation always finds the      *)
(* acceptor back in epoll_wait (server.c:217-245).                         *)
DestroyTerminates == (phase = "cancelled") ~> (phase = "destroyed")

(* A connection in a backlog is served, refused or reset: the acceptor     *)
(* loop loses none and no mutex is left held.                              *)
NoConnectionStuck ==
    \A c \in Conns : (conn[c] = "queued") ~> (conn[c] # "queued")
-----------------------------------------------------------------------------
(* The inductive invariant behind the safety properties *)

AcceptorHolds == apc \in {"check", "skip", "cleanup", "accept", "bind", "unlock"}
CallHolds(t) == cpc[t] \in {"register", "registered", "abort", "remove", "removed"}

(* A call of server_add_plot still owns the socket it allocated.           *)
Pending(t) == cpc[t] \in {"add", "register", "abort", "close"}

MutexInv ==
    /\ plot_sockets_mtx = Acceptor <=> AcceptorHolds
    /\ \A t \in Callers : plot_sockets_mtx = t <=> CallHolds(t)

(* Where the acceptor's event pointer points.                              *)
EventInv ==
    /\ apc \in {"lock", "check"} => ev \in Listed \cup inactive_plot_sockets
    /\ apc = "skip" => ev \in inactive_plot_sockets
    /\ apc \in {"cleanup", "accept", "bind"} => ev \in Listed

RingInjective ==
    \A i, j \in DOMAIN plot_sockets : plot_sockets[i] = plot_sockets[j] => i = j

PendingInv ==
    \A t \in Callers : Pending(t) =>
        /\ target[t] \in Sockets
        /\ mem[target[t]] = "allocated"
        /\ sockfd[target[t]] = "open"
        /\ active[target[t]]
        /\ target[t] \notin Listed
        /\ \A u \in Callers : Pending(u) /\ target[u] = target[t] => u = t

(* Every allocated socket has an owner: a ring or a call in progress.      *)
OwnedInv ==
    \A s \in Sockets : mem[s] = "allocated" \/ sockfd[s] = "open" =>
        \/ s \in Listed
        \/ s \in inactive_plot_sockets
        \/ \E t \in Callers : Pending(t) /\ target[t] = s

ConnInv ==
    /\ \A c \in Conns :
          conn[c] = "queued" => lsock[c] \in Sockets /\ sockfd[lsock[c]] = "open"
    /\ \A c \in Conns : conn[c] = "accepted" => apc = "bind" /\ clientfd = c
    /\ apc = "bind" =>
          /\ clientfd \in Conns
          /\ conn[clientfd] = "accepted"
          /\ lsock[clientfd] = ev

PhaseInv ==
    /\ phase # "running" => \A t \in Callers : ~InCall(t)
    /\ phase \in {"joined", "destroyed"} => apc = "dead"
    /\ phase = "destroyed" => plot_sockets = <<>> /\ inactive_plot_sockets = {}

(* The acceptor's pointer, the rings, the mutex and the calls in progress  *)
(* agree at every step (server.c:51-245): each allocated plot socket has   *)
(* exactly one owner, and the mutex holder is the thread inside a critical *)
(* section.  This is the invariant the proofs carry.                       *)
IInv ==
    /\ TypeOK
    /\ RingsConsistent
    /\ MutexInv
    /\ EventInv
    /\ RingInjective
    /\ PendingInv
    /\ OwnedInv
    /\ ConnInv
    /\ PhaseInv
=============================================================================
