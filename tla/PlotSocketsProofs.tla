------------------------- MODULE PlotSocketsProofs -------------------------
(***************************************************************************)
(* Machine-checked proofs about PlotSockets, for any number of sockets,    *)
(* ports, calls and connections.  IInv is inductive; the safety properties *)
(* are parts or consequences of it.                                        *)
(***************************************************************************)
EXTENDS PlotSockets, TLAPS

USE ThreadsDistinct

Elements(q) == {q[i] : i \in DOMAIN q}
Injective(q) == \A i, j \in DOMAIN q : q[i] = q[j] => i = j

-----------------------------------------------------------------------------
(* Linking at the end of the ring (listc_add_item_back).                   *)
LEMMA AppendElements ==
    ASSUME NEW S, NEW q \in Seq(S), NEW x \in S
    PROVE  /\ Append(q, x) \in Seq(S)
           /\ Elements(Append(q, x)) = Elements(q) \cup {x}
           /\ Injective(q) /\ x \notin Elements(q) => Injective(Append(q, x))
<1>1. Append(q, x) \in Seq(S) /\ DOMAIN q = 1..Len(q) /\ Len(q) \in Nat
      /\ DOMAIN Append(q, x) = 1 .. Len(q) + 1
      /\ \A i \in 1..Len(q) : Append(q, x)[i] = q[i]
      /\ Append(q, x)[Len(q) + 1] = x
  OBVIOUS
<1>2. Elements(Append(q, x)) \subseteq Elements(q) \cup {x}
  BY <1>1 DEF Elements
<1>3. Elements(q) \cup {x} \subseteq Elements(Append(q, x))
  BY <1>1 DEF Elements
<1>4. Injective(q) /\ x \notin Elements(q) => Injective(Append(q, x))
  BY <1>1 DEF Elements, Injective
<1>5. QED
  BY <1>1, <1>2, <1>3, <1>4

(* Unlinking the head of the ring (listc_remove_item).                     *)
LEMMA TailElements ==
    ASSUME NEW S, NEW q \in Seq(S), q # <<>>, Injective(q)
    PROVE  /\ Tail(q) \in Seq(S)
           /\ Head(q) \in S
           /\ Head(q) \in Elements(q)
           /\ Elements(Tail(q)) = Elements(q) \ {Head(q)}
           /\ Injective(Tail(q))
<1>1. Tail(q) \in Seq(S) /\ DOMAIN q = 1..Len(q) /\ Len(q) \in Nat \ {0}
      /\ DOMAIN Tail(q) = 1 .. Len(q) - 1
      /\ \A i \in 1 .. Len(q) - 1 : Tail(q)[i] = q[i + 1]
      /\ Head(q) = q[1] /\ 1 \in DOMAIN q
  OBVIOUS
<1>2. Elements(Tail(q)) \subseteq Elements(q) \ {Head(q)}
  BY <1>1 DEF Elements, Injective
<1>3. ASSUME NEW i \in 2..Len(q) PROVE q[i] \in Elements(Tail(q))
  <2>1. i - 1 \in DOMAIN Tail(q) /\ Tail(q)[i - 1] = q[i]
    BY <1>1
  <2>2. QED
    BY <2>1 DEF Elements
<1>4. Elements(q) \ {Head(q)} \subseteq Elements(Tail(q))
  <2>1. ASSUME NEW i \in DOMAIN q, q[i] # Head(q) PROVE q[i] \in Elements(Tail(q))
    <3>1. i \in 2..Len(q)
      BY <1>1, <2>1
    <3>2. QED
      BY <1>3, <3>1
  <2>2. QED
    BY <2>1 DEF Elements
<1>5. Injective(Tail(q))
  BY <1>1 DEF Injective
<1>6. Head(q) \in S /\ Head(q) \in Elements(q)
  BY <1>1 DEF Elements
<1>7. QED
  BY <1>1, <1>2, <1>4, <1>5, <1>6

-----------------------------------------------------------------------------
(* Nothing is allocated, listening or running yet.                         *)
LEMMA InitIInv == Init => IInv
<1>. SUFFICES ASSUME Init PROVE IInv
  OBVIOUS
<1>1. DOMAIN plot_sockets = {} /\ plot_sockets \in Seq(Sockets) /\ Listed = {}
  BY DEF Init, Listed
<1>2. TypeOK
  BY <1>1 DEF Init, TypeOK, ConnStates, AcceptorStates, CallStates, Phases
<1>3. RingsConsistent /\ RingInjective
  BY <1>1 DEF Init, RingsConsistent, RingInjective
<1>4. MutexInv /\ EventInv /\ PendingInv /\ OwnedInv /\ ConnInv /\ PhaseInv
  BY <1>1 DEF Init, MutexInv, AcceptorHolds, CallHolds, EventInv, PendingInv,
     Pending, OwnedInv, ConnInv, PhaseInv, InCall
<1>5. QED
  BY <1>2, <1>3, <1>4 DEF IInv

(* server_add_plot links a socket that is in no ring.                      *)
LEMMA RingGrows ==
    ASSUME NEW t \in Callers, IInv, AddRegister(t)
    PROVE  /\ plot_sockets' \in Seq(Sockets)
           /\ Listed' = Listed \cup {target[t]}
           /\ RingInjective'
<1>1. target[t] \in Sockets \ Listed /\ plot_sockets \in Seq(Sockets)
      /\ plot_sockets' = Append(plot_sockets, target[t])
  BY DEF IInv, PendingInv, Pending, AddRegister, TypeOK
<1>2. Listed = Elements(plot_sockets) /\ Listed' = Elements(plot_sockets')
  BY DEF Listed, Elements
<1>3. RingInjective = Injective(plot_sockets) /\ RingInjective' = Injective(plot_sockets')
  BY DEF RingInjective, Injective
<1>4. QED
  BY <1>1, <1>2, <1>3, AppendElements DEF IInv

(* server_remove_plot unlinks the head.                                    *)
LEMMA RingLosesHead ==
    ASSUME NEW t \in Callers, IInv, RemovePark(t)
    PROVE  /\ plot_sockets' \in Seq(Sockets)
           /\ Head(plot_sockets) \in Listed \cap Sockets
           /\ Listed' = Listed \ {Head(plot_sockets)}
           /\ RingInjective'
<1>1. plot_sockets # <<>> /\ plot_sockets \in Seq(Sockets)
      /\ plot_sockets' = Tail(plot_sockets)
  BY DEF IInv, RemovePark, RemoveMatches, TypeOK
<1>2. Listed = Elements(plot_sockets) /\ Listed' = Elements(plot_sockets')
  BY DEF Listed, Elements
<1>3. RingInjective = Injective(plot_sockets) /\ RingInjective' = Injective(plot_sockets')
  BY DEF RingInjective, Injective
<1>4. QED
  BY <1>1, <1>2, <1>3, TailElements DEF IInv

-----------------------------------------------------------------------------
(* A peer connects to a listening socket.                                  *)
LEMMA ConnectKeeps ==
    ASSUME NEW c \in Conns, NEW s \in Sockets, IInv, Connect(c, s) PROVE IInv'
<1>1. UNCHANGED Listed
  BY DEF Connect, Listed, rings
<1>2. TypeOK'
  BY DEF Connect, IInv, memory, rings, acceptor, calls, TypeOK, ConnStates
<1>3. RingsConsistent' /\ MutexInv' /\ EventInv' /\ RingInjective' /\ PendingInv' /\
   OwnedInv' /\ PhaseInv'
  BY <1>1 DEF Connect, IInv, memory, rings, acceptor, calls, RingsConsistent,
     MutexInv, AcceptorHolds, CallHolds, EventInv, RingInjective, PendingInv, Pending,
     OwnedInv, PhaseInv, InCall
<1>4. ConnInv'
  BY DEF Connect, IInv, memory, acceptor, TypeOK, ConnInv
<1>5. QED
  BY <1>2, <1>3, <1>4 DEF IInv

(* The acceptor is given an event.                                         *)
LEMMA EpollWaitKeeps ==
    ASSUME NEW s \in Sockets, IInv, EpollWait(s) PROVE IInv'
<1>1. UNCHANGED Listed
  BY DEF EpollWait, Listed, rings
<1>2. TypeOK'
  BY DEF EpollWait, IInv, memory, rings, net, calls, TypeOK, AcceptorStates
<1>3. RingsConsistent' /\ RingInjective' /\ PendingInv' /\ OwnedInv'
  BY <1>1 DEF EpollWait, IInv, memory, rings, calls, RingsConsistent, RingInjective,
     PendingInv, Pending, OwnedInv
<1>4. MutexInv'
  BY DEF EpollWait, IInv, calls, MutexInv, AcceptorHolds, CallHolds
<1>5. EventInv'
  BY <1>1 DEF EpollWait, IInv, RingsConsistent, EventInv
<1>6. ConnInv'
  BY DEF EpollWait, IInv, memory, net, ConnInv
<1>7. PhaseInv'
  BY DEF EpollWait, IInv, calls, PhaseInv, InCall
<1>8. QED
  BY <1>2, <1>3, <1>4, <1>5, <1>6, <1>7 DEF IInv

(* The acceptor takes the mutex.                                           *)
LEMMA AcceptorLockKeeps ==
    ASSUME IInv, AcceptorLock PROVE IInv'
<1>1. UNCHANGED Listed
  BY DEF AcceptorLock, Listed, rings
<1>2. TypeOK'
  BY DEF AcceptorLock, IInv, memory, rings, net, calls, TypeOK, AcceptorStates
<1>3. RingsConsistent' /\ RingInjective' /\ PendingInv' /\ OwnedInv'
  BY <1>1 DEF AcceptorLock, IInv, memory, rings, calls, RingsConsistent,
     RingInjective, PendingInv, Pending, OwnedInv
<1>4. MutexInv'
  BY DEF AcceptorLock, IInv, calls, MutexInv, AcceptorHolds, CallHolds
<1>5. EventInv'
  BY <1>1 DEF AcceptorLock, IInv, rings, EventInv
<1>6. ConnInv'
  BY DEF AcceptorLock, IInv, memory, net, ConnInv
<1>7. PhaseInv'
  BY DEF AcceptorLock, IInv, calls, PhaseInv, InCall
<1>8. QED
  BY <1>2, <1>3, <1>4, <1>5, <1>6, <1>7 DEF IInv

(* The acceptor looks at active.                                           *)
LEMMA AcceptorCheckKeeps ==
    ASSUME IInv, AcceptorCheck PROVE IInv'
<1>1. UNCHANGED Listed
  BY DEF AcceptorCheck, Listed, rings
<1>2. TypeOK'
  BY DEF AcceptorCheck, IInv, memory, rings, net, calls, TypeOK, AcceptorStates
<1>3. RingsConsistent' /\ RingInjective' /\ PendingInv' /\ OwnedInv'
  BY <1>1 DEF AcceptorCheck, IInv, memory, rings, calls, RingsConsistent,
     RingInjective, PendingInv, Pending, OwnedInv
<1>4. MutexInv'
  BY DEF AcceptorCheck, IInv, calls, MutexInv, AcceptorHolds, CallHolds
<1>5. EventInv'
  BY <1>1 DEF AcceptorCheck, IInv, rings, RingsConsistent, EventInv
<1>6. ConnInv'
  BY DEF AcceptorCheck, IInv, memory, net, ConnInv
<1>7. PhaseInv'
  BY DEF AcceptorCheck, IInv, calls, PhaseInv, InCall
<1>8. QED
  BY <1>2, <1>3, <1>4, <1>5, <1>6, <1>7 DEF IInv

(* The parked sockets are freed; the event's socket is not among them.     *)
LEMMA AcceptorCleanupKeeps ==
    ASSUME IInv, AcceptorCleanup PROVE IInv'
<1>1. UNCHANGED Listed
  BY DEF AcceptorCleanup, Listed
<1>2. TypeOK'
  BY DEF AcceptorCleanup, IInv, net, calls, CleanupInactive, TypeOK, AcceptorStates
<1>3. RingInjective'
  BY DEF AcceptorCleanup, IInv, RingInjective
<1>4. RingsConsistent'
  BY <1>1 DEF AcceptorCleanup, IInv, CleanupInactive, TypeOK, RingsConsistent
<1>5. MutexInv'
  BY DEF AcceptorCleanup, IInv, calls, MutexInv, AcceptorHolds, CallHolds
<1>6. EventInv'
  BY <1>1 DEF AcceptorCleanup, IInv, EventInv
<1>7. PendingInv'
  BY <1>1 DEF AcceptorCleanup, IInv, calls, CleanupInactive, RingsConsistent,
     PendingInv, Pending
<1>8. OwnedInv'
  BY <1>1 DEF AcceptorCleanup, IInv, calls, CleanupInactive, RingsConsistent, Pending,
     OwnedInv
<1>9. ConnInv'
  BY DEF AcceptorCleanup, IInv, net, ConnInv
<1>10. PhaseInv'
  BY DEF AcceptorCleanup, IInv, calls, PhaseInv, InCall
<1>11. QED
  BY <1>2, <1>3, <1>4, <1>5, <1>6, <1>7, <1>8, <1>9, <1>10 DEF IInv

(* A connection is accepted.                                               *)
LEMMA AcceptorAcceptKeeps ==
    ASSUME NEW c \in Conns, IInv, AcceptorAccept(c) PROVE IInv'
<1>1. UNCHANGED Listed
  BY DEF AcceptorAccept, Listed, rings
<1>2. TypeOK'
  BY DEF AcceptorAccept, IInv, memory, rings, calls, TypeOK, ConnStates,
     AcceptorStates
<1>3. RingsConsistent' /\ RingInjective' /\ PendingInv' /\ OwnedInv'
  BY <1>1 DEF AcceptorAccept, IInv, memory, rings, calls, RingsConsistent,
     RingInjective, PendingInv, Pending, OwnedInv
<1>4. MutexInv'
  BY DEF AcceptorAccept, IInv, calls, MutexInv, AcceptorHolds, CallHolds
<1>5. EventInv'
  BY <1>1 DEF AcceptorAccept, IInv, EventInv
<1>6. ConnInv'
  BY DEF AcceptorAccept, IInv, memory, Backlog, TypeOK, ConnInv
<1>7. PhaseInv'
  BY DEF AcceptorAccept, IInv, calls, PhaseInv, InCall
<1>8. QED
  BY <1>2, <1>3, <1>4, <1>5, <1>6, <1>7 DEF IInv

(* accept fails.                                                           *)
LEMMA AcceptorAcceptFailsKeeps ==
    ASSUME IInv, AcceptorAcceptFails PROVE IInv'
<1>1. UNCHANGED Listed
  BY DEF AcceptorAcceptFails, Listed, rings
<1>2. TypeOK'
  BY DEF AcceptorAcceptFails, IInv, memory, rings, net, calls, TypeOK, AcceptorStates
<1>3. RingsConsistent' /\ RingInjective' /\ PendingInv' /\ OwnedInv'
  BY <1>1 DEF AcceptorAcceptFails, IInv, memory, rings, calls, RingsConsistent,
     RingInjective, PendingInv, Pending, OwnedInv
<1>4. MutexInv'
  BY DEF AcceptorAcceptFails, IInv, calls, MutexInv, AcceptorHolds, CallHolds
<1>5. EventInv'
  BY DEF AcceptorAcceptFails, EventInv
<1>6. ConnInv'
  BY DEF AcceptorAcceptFails, IInv, memory, net, ConnInv
<1>7. PhaseInv'
  BY DEF AcceptorAcceptFails, IInv, calls, PhaseInv, InCall
<1>8. QED
  BY <1>2, <1>3, <1>4, <1>5, <1>6, <1>7 DEF IInv

(* The connection is handed off or closed.                                 *)
LEMMA AcceptorBindKeeps ==
    ASSUME NEW ok \in BOOLEAN, IInv, AcceptorBind(ok) PROVE IInv'
<1>1. UNCHANGED Listed
  BY DEF AcceptorBind, Listed, rings
<1>2. TypeOK'
  BY DEF AcceptorBind, IInv, memory, rings, calls, TypeOK, ConnStates, AcceptorStates
<1>3. RingsConsistent' /\ RingInjective' /\ PendingInv' /\ OwnedInv'
  BY <1>1 DEF AcceptorBind, IInv, memory, rings, calls, RingsConsistent,
     RingInjective, PendingInv, Pending, OwnedInv
<1>4. MutexInv'
  BY DEF AcceptorBind, IInv, calls, MutexInv, AcceptorHolds, CallHolds
<1>5. EventInv'
  BY DEF AcceptorBind, EventInv
<1>6. ConnInv'
  BY DEF AcceptorBind, IInv, memory, TypeOK, ConnInv
<1>7. PhaseInv'
  BY DEF AcceptorBind, IInv, calls, PhaseInv, InCall
<1>8. QED
  BY <1>2, <1>3, <1>4, <1>5, <1>6, <1>7 DEF IInv

(* The acceptor releases the mutex.                                        *)
LEMMA AcceptorUnlockKeeps ==
    ASSUME IInv, AcceptorUnlock PROVE IInv'
<1>1. UNCHANGED Listed
  BY DEF AcceptorUnlock, Listed, rings
<1>2. TypeOK'
  BY DEF AcceptorUnlock, IInv, memory, rings, net, calls, TypeOK, AcceptorStates
<1>3. RingsConsistent' /\ RingInjective' /\ PendingInv' /\ OwnedInv'
  BY <1>1 DEF AcceptorUnlock, IInv, memory, rings, calls, RingsConsistent,
     RingInjective, PendingInv, Pending, OwnedInv
<1>4. MutexInv'
  BY DEF AcceptorUnlock, IInv, calls, MutexInv, AcceptorHolds, CallHolds
<1>5. EventInv'
  BY DEF AcceptorUnlock, EventInv
<1>6. ConnInv'
  BY DEF AcceptorUnlock, IInv, memory, net, ConnInv
<1>7. PhaseInv'
  BY DEF AcceptorUnlock, IInv, calls, PhaseInv, InCall
<1>8. QED
  BY <1>2, <1>3, <1>4, <1>5, <1>6, <1>7 DEF IInv

(* The acceptor is cancelled in epoll_wait.                                *)
LEMMA AcceptorCancelledKeeps ==
    ASSUME IInv, AcceptorCancelled PROVE IInv'
<1>1. UNCHANGED Listed
  BY DEF AcceptorCancelled, Listed, rings
<1>2. TypeOK'
  BY DEF AcceptorCancelled, IInv, memory, rings, net, calls, TypeOK, AcceptorStates
<1>3. RingsConsistent' /\ RingInjective' /\ PendingInv' /\ OwnedInv'
  BY <1>1 DEF AcceptorCancelled, IInv, memory, rings, calls, RingsConsistent,
     RingInjective, PendingInv, Pending, OwnedInv
<1>4. MutexInv'
  BY DEF AcceptorCancelled, IInv, calls, MutexInv, AcceptorHolds, CallHolds
<1>5. EventInv'
  BY DEF AcceptorCancelled, EventInv
<1>6. ConnInv'
  BY DEF AcceptorCancelled, IInv, memory, net, ConnInv
<1>7. PhaseInv'
  BY DEF AcceptorCancelled, IInv, calls, PhaseInv, InCall
<1>8. QED
  BY <1>2, <1>3, <1>4, <1>5, <1>6, <1>7 DEF IInv

(* A new plot socket, known to its call only.                              *)
LEMMA AddOpenKeeps ==
    ASSUME NEW t \in Callers, NEW s \in Sockets, NEW p \in Ports, IInv, AddOpen(t, s, p) PROVE IInv'
<1>1. UNCHANGED Listed
  BY DEF AddOpen, Listed, rings
<1>2. TypeOK'
  BY DEF AddOpen, IInv, rings, net, acceptor, TypeOK, CallStates
<1>3. EventInv' /\ RingInjective'
  BY <1>1 DEF AddOpen, IInv, rings, acceptor, EventInv, RingInjective
<1>4. RingsConsistent'
  BY <1>1 DEF AddOpen, IInv, rings, RingsConsistent
<1>5. MutexInv'
  BY DEF AddOpen, IInv, acceptor, MutexInv, AcceptorHolds, CallHolds
<1>6. PendingInv'
  BY <1>1 DEF AddOpen, IInv, TypeOK, RingsConsistent, PendingInv, Pending
<1>7. OwnedInv'
  BY <1>1 DEF AddOpen, IInv, rings, TypeOK, Pending, OwnedInv, PhaseInv, InCall
<1>8. ConnInv'
  BY DEF AddOpen, IInv, net, acceptor, ConnInv
<1>9. PhaseInv'
  BY DEF AddOpen, PhaseInv
<1>10. QED
  BY <1>2, <1>3, <1>4, <1>5, <1>6, <1>7, <1>8, <1>9 DEF IInv

(* server_add_plot fails early.                                            *)
LEMMA AddOpenFailsKeeps ==
    ASSUME NEW t \in Callers, IInv, AddOpenFails(t) PROVE IInv'
<1>1. UNCHANGED Listed
  BY DEF AddOpenFails, Listed, rings
<1>2. TypeOK'
  BY DEF AddOpenFails, IInv, memory, rings, net, acceptor, TypeOK, CallStates
<1>3. RingsConsistent' /\ EventInv' /\ RingInjective' /\ ConnInv'
  BY <1>1 DEF AddOpenFails, IInv, memory, rings, net, acceptor, RingsConsistent,
     EventInv, RingInjective, ConnInv
<1>4. MutexInv'
  BY DEF AddOpenFails, IInv, acceptor, MutexInv, AcceptorHolds, CallHolds
<1>5. PendingInv'
  BY <1>1 DEF AddOpenFails, IInv, memory, PendingInv, Pending
<1>6. OwnedInv'
  BY <1>1 DEF AddOpenFails, IInv, memory, rings, OwnedInv, Pending
<1>7. PhaseInv'
  BY DEF AddOpenFails, PhaseInv
<1>8. QED
  BY <1>2, <1>3, <1>4, <1>5, <1>6, <1>7 DEF IInv

(* server_add_plot takes the mutex.                                        *)
LEMMA AddLockKeeps ==
    ASSUME NEW t \in Callers, IInv, AddLock(t) PROVE IInv'
<1>1. UNCHANGED Listed
  BY DEF AddLock, Listed, rings
<1>2. TypeOK'
  BY DEF AddLock, IInv, memory, rings, net, acceptor, TypeOK, CallStates
<1>3. RingsConsistent' /\ EventInv' /\ RingInjective' /\ ConnInv'
  BY <1>1 DEF AddLock, IInv, memory, rings, net, acceptor, RingsConsistent, EventInv,
     RingInjective, ConnInv
<1>4. MutexInv'
  BY DEF AddLock, IInv, acceptor, TypeOK, MutexInv, AcceptorHolds, CallHolds
<1>5. PendingInv'
  BY <1>1 DEF AddLock, IInv, memory, PendingInv, Pending
<1>6. OwnedInv'
  BY <1>1 DEF AddLock, IInv, memory, rings, OwnedInv, Pending
<1>7. PhaseInv'
  BY DEF AddLock, IInv, PhaseInv, InCall
<1>8. QED
  BY <1>2, <1>3, <1>4, <1>5, <1>6, <1>7 DEF IInv

(* The new socket moves from its call to the ring.                         *)
LEMMA AddRegisterKeeps ==
    ASSUME NEW t \in Callers, IInv, AddRegister(t) PROVE IInv'
<1>1. /\ Listed' = Listed \cup {target[t]}
      /\ RingInjective'
      /\ plot_sockets' \in Seq(Sockets)
  BY RingGrows
<1>2. TypeOK'
  BY <1>1 DEF AddRegister, IInv, memory, net, acceptor, TypeOK, CallStates
<1>3. ConnInv'
  BY DEF AddRegister, IInv, memory, net, acceptor, ConnInv
<1>4. RingsConsistent'
  BY <1>1 DEF AddRegister, IInv, memory, RingsConsistent, PendingInv, Pending
<1>5. MutexInv'
  BY DEF AddRegister, IInv, acceptor, MutexInv, AcceptorHolds, CallHolds
<1>6. EventInv'
  BY <1>1 DEF AddRegister, IInv, acceptor, EventInv
<1>7. PendingInv'
  BY <1>1 DEF AddRegister, IInv, memory, TypeOK, PendingInv, Pending
<1>8. OwnedInv'
  BY <1>1 DEF AddRegister, IInv, memory, OwnedInv, Pending
<1>9. PhaseInv'
  BY DEF AddRegister, IInv, PhaseInv, InCall
<1>10. QED
  BY <1>1, <1>2, <1>3, <1>4, <1>5, <1>6, <1>7, <1>8, <1>9 DEF IInv

(* epoll_ctl fails.                                                        *)
LEMMA AddRegisterFailsKeeps ==
    ASSUME NEW t \in Callers, IInv, AddRegisterFails(t) PROVE IInv'
<1>1. UNCHANGED Listed
  BY DEF AddRegisterFails, Listed, rings
<1>2. TypeOK'
  BY DEF AddRegisterFails, IInv, memory, rings, net, acceptor, TypeOK, CallStates
<1>3. RingsConsistent' /\ EventInv' /\ RingInjective' /\ ConnInv'
  BY <1>1 DEF AddRegisterFails, IInv, memory, rings, net, acceptor, RingsConsistent,
     EventInv, RingInjective, ConnInv
<1>4. MutexInv'
  BY DEF AddRegisterFails, IInv, acceptor, MutexInv, AcceptorHolds, CallHolds
<1>5. PendingInv'
  BY <1>1 DEF AddRegisterFails, IInv, memory, PendingInv, Pending
<1>6. OwnedInv'
  BY <1>1 DEF AddRegisterFails, IInv, memory, rings, OwnedInv, Pending
<1>7. PhaseInv'
  BY DEF AddRegisterFails, IInv, PhaseInv, InCall
<1>8. QED
  BY <1>2, <1>3, <1>4, <1>5, <1>6, <1>7 DEF IInv

(* server_add_plot releases the mutex.                                     *)
LEMMA AddUnlockKeeps ==
    ASSUME NEW t \in Callers, IInv, AddUnlock(t) PROVE IInv'
<1>1. UNCHANGED Listed
  BY DEF AddUnlock, Listed, rings
<1>2. TypeOK'
  BY DEF AddUnlock, IInv, memory, rings, net, acceptor, TypeOK, CallStates
<1>3. RingsConsistent' /\ EventInv' /\ RingInjective' /\ ConnInv'
  BY <1>1 DEF AddUnlock, IInv, memory, rings, net, acceptor, RingsConsistent,
     EventInv, RingInjective, ConnInv
<1>4. MutexInv'
  BY DEF AddUnlock, IInv, acceptor, TypeOK, MutexInv, AcceptorHolds, CallHolds
<1>5. PendingInv'
  BY <1>1 DEF AddUnlock, IInv, memory, PendingInv, Pending
<1>6. OwnedInv'
  BY <1>1 DEF AddUnlock, IInv, memory, rings, OwnedInv, Pending
<1>7. PhaseInv'
  BY DEF AddUnlock, IInv, PhaseInv, InCall
<1>8. QED
  BY <1>2, <1>3, <1>4, <1>5, <1>6, <1>7 DEF IInv

(* The error path frees what only it knows.                                *)
LEMMA AddCloseKeeps ==
    ASSUME NEW t \in Callers, IInv, AddClose(t) PROVE IInv'
<1>1. UNCHANGED Listed
  BY DEF AddClose, Listed, rings
<1>2. TypeOK'
  BY DEF AddClose, IInv, rings, acceptor, ResetBacklog, TypeOK, ConnStates, CallStates
<1>3. EventInv' /\ RingInjective'
  BY <1>1 DEF AddClose, IInv, rings, acceptor, EventInv, RingInjective
<1>4. RingsConsistent'
  BY <1>1 DEF AddClose, IInv, rings, RingsConsistent, PendingInv, Pending
<1>5. MutexInv'
  BY DEF AddClose, IInv, acceptor, MutexInv, AcceptorHolds, CallHolds
<1>6. PendingInv'
  BY <1>1 DEF AddClose, IInv, TypeOK, PendingInv, Pending
<1>7. OwnedInv'
  BY <1>1 DEF AddClose, IInv, rings, TypeOK, Pending, OwnedInv
<1>8. ConnInv'
  BY DEF AddClose, IInv, acceptor, ResetBacklog, ConnInv
<1>9. PhaseInv'
  BY DEF AddClose, IInv, PhaseInv, InCall
<1>10. QED
  BY <1>2, <1>3, <1>4, <1>5, <1>6, <1>7, <1>8, <1>9 DEF IInv

(* server_remove_plot takes the mutex.                                     *)
LEMMA RemoveLockKeeps ==
    ASSUME NEW t \in Callers, NEW p \in Ports, IInv, RemoveLock(t, p) PROVE IInv'
<1>1. UNCHANGED Listed
  BY DEF RemoveLock, Listed, rings
<1>2. TypeOK'
  BY DEF RemoveLock, IInv, memory, rings, net, acceptor, TypeOK, CallStates
<1>3. RingsConsistent' /\ EventInv' /\ RingInjective' /\ ConnInv'
  BY <1>1 DEF RemoveLock, IInv, memory, rings, net, acceptor, RingsConsistent,
     EventInv, RingInjective, ConnInv
<1>4. MutexInv'
  BY DEF RemoveLock, IInv, acceptor, TypeOK, MutexInv, AcceptorHolds, CallHolds
<1>5. PendingInv'
  BY <1>1 DEF RemoveLock, IInv, memory, PendingInv, Pending
<1>6. OwnedInv'
  BY <1>1 DEF RemoveLock, IInv, memory, rings, OwnedInv, Pending
<1>7. PhaseInv'
  BY DEF RemoveLock, PhaseInv
<1>8. QED
  BY <1>2, <1>3, <1>4, <1>5, <1>6, <1>7 DEF IInv

(* The head moves from one ring to the other.                              *)
LEMMA RemoveParkKeeps ==
    ASSUME NEW t \in Callers, IInv, RemovePark(t) PROVE IInv'
<1>1. /\ Listed' = Listed \ {Head(plot_sockets)}
      /\ RingInjective'
      /\ plot_sockets' \in Seq(Sockets)
      /\ Head(plot_sockets) \in Listed \cap Sockets
  BY RingLosesHead
<1>2. TypeOK'
  BY <1>1 DEF RemovePark, IInv, acceptor, ResetBacklog, TypeOK, ConnStates, CallStates
<1>3. RingsConsistent'
  BY <1>1 DEF RemovePark, IInv, TypeOK, RingsConsistent
<1>4. MutexInv'
  BY DEF RemovePark, IInv, acceptor, MutexInv, AcceptorHolds, CallHolds
<1>5. EventInv'
  BY <1>1 DEF RemovePark, IInv, acceptor, MutexInv, AcceptorHolds, CallHolds, EventInv
<1>6. PendingInv'
  BY <1>1 DEF RemovePark, IInv, PendingInv, Pending
<1>7. OwnedInv'
  BY <1>1 DEF RemovePark, IInv, OwnedInv, Pending
<1>8. ConnInv'
  BY DEF RemovePark, IInv, acceptor, ResetBacklog, ConnInv
<1>9. PhaseInv'
  BY DEF RemovePark, IInv, PhaseInv, InCall
<1>10. QED
  BY <1>1, <1>2, <1>3, <1>4, <1>5, <1>6, <1>7, <1>8, <1>9 DEF IInv

(* No plot is found.                                                       *)
LEMMA RemoveNotFoundKeeps ==
    ASSUME NEW t \in Callers, IInv, RemoveNotFound(t) PROVE IInv'
<1>1. UNCHANGED Listed
  BY DEF RemoveNotFound, Listed, rings
<1>2. TypeOK'
  BY DEF RemoveNotFound, IInv, memory, rings, net, acceptor, TypeOK, CallStates
<1>3. RingsConsistent' /\ EventInv' /\ RingInjective' /\ ConnInv'
  BY <1>1 DEF RemoveNotFound, IInv, memory, rings, net, acceptor, RingsConsistent,
     EventInv, RingInjective, ConnInv
<1>4. MutexInv'
  BY DEF RemoveNotFound, IInv, acceptor, MutexInv, AcceptorHolds, CallHolds
<1>5. PendingInv'
  BY <1>1 DEF RemoveNotFound, IInv, memory, PendingInv, Pending
<1>6. OwnedInv'
  BY <1>1 DEF RemoveNotFound, IInv, memory, rings, OwnedInv, Pending
<1>7. PhaseInv'
  BY DEF RemoveNotFound, IInv, PhaseInv, InCall
<1>8. QED
  BY <1>2, <1>3, <1>4, <1>5, <1>6, <1>7 DEF IInv

(* server_remove_plot releases the mutex.                                  *)
LEMMA RemoveUnlockKeeps ==
    ASSUME NEW t \in Callers, IInv, RemoveUnlock(t) PROVE IInv'
<1>1. UNCHANGED Listed
  BY DEF RemoveUnlock, Listed, rings
<1>2. TypeOK'
  BY DEF RemoveUnlock, IInv, memory, rings, net, acceptor, TypeOK, CallStates
<1>3. RingsConsistent' /\ EventInv' /\ RingInjective' /\ ConnInv'
  BY <1>1 DEF RemoveUnlock, IInv, memory, rings, net, acceptor, RingsConsistent,
     EventInv, RingInjective, ConnInv
<1>4. MutexInv'
  BY DEF RemoveUnlock, IInv, acceptor, TypeOK, MutexInv, AcceptorHolds, CallHolds
<1>5. PendingInv'
  BY <1>1 DEF RemoveUnlock, IInv, memory, PendingInv, Pending
<1>6. OwnedInv'
  BY <1>1 DEF RemoveUnlock, IInv, memory, rings, OwnedInv, Pending
<1>7. PhaseInv'
  BY DEF RemoveUnlock, IInv, PhaseInv, InCall
<1>8. QED
  BY <1>2, <1>3, <1>4, <1>5, <1>6, <1>7 DEF IInv

(* server_destroy begins.                                                  *)
LEMMA DestroyCancelKeeps ==
    ASSUME IInv, DestroyCancel PROVE IInv'
<1>1. UNCHANGED Listed
  BY DEF DestroyCancel, Listed, rings
<1>2. TypeOK'
  BY DEF DestroyCancel, IInv, memory, rings, net, acceptor, calls, TypeOK, Phases
<1>3. RingsConsistent' /\ MutexInv' /\ EventInv' /\ RingInjective' /\ PendingInv' /\
   OwnedInv' /\ ConnInv'
  BY <1>1 DEF DestroyCancel, IInv, memory, rings, net, acceptor, calls,
     RingsConsistent, MutexInv, AcceptorHolds, CallHolds, EventInv, RingInjective,
     PendingInv, Pending, OwnedInv, ConnInv
<1>4. PhaseInv'
  BY DEF DestroyCancel, calls, PhaseInv, InCall
<1>5. QED
  BY <1>2, <1>3, <1>4 DEF IInv

(* The acceptor has ended.                                                 *)
LEMMA DestroyJoinKeeps ==
    ASSUME IInv, DestroyJoin PROVE IInv'
<1>1. UNCHANGED Listed
  BY DEF DestroyJoin, Listed, rings
<1>2. TypeOK'
  BY DEF DestroyJoin, IInv, memory, rings, net, acceptor, calls, TypeOK, Phases
<1>3. RingsConsistent' /\ MutexInv' /\ EventInv' /\ RingInjective' /\ PendingInv' /\
   OwnedInv' /\ ConnInv'
  BY <1>1 DEF DestroyJoin, IInv, memory, rings, net, acceptor, calls, RingsConsistent,
     MutexInv, AcceptorHolds, CallHolds, EventInv, RingInjective, PendingInv, Pending,
     OwnedInv, ConnInv
<1>4. PhaseInv'
  BY DEF DestroyJoin, IInv, acceptor, calls, PhaseInv, InCall
<1>5. QED
  BY <1>2, <1>3, <1>4 DEF IInv

(* Everything left is freed.                                               *)
LEMMA DestroyFreeKeeps ==
    ASSUME IInv, DestroyFree PROVE IInv'
<1>1. /\ Listed' = {} /\ RingInjective'
      /\ plot_sockets' \in Seq(Sockets)
  BY DEF DestroyFree, Listed, RingInjective
<1>2. TypeOK'
  BY DEF DestroyFree, IInv, acceptor, calls, ResetBacklog, TypeOK, ConnStates, Phases
<1>3. MutexInv'
  BY DEF DestroyFree, IInv, acceptor, calls, MutexInv, AcceptorHolds, CallHolds
<1>4. RingsConsistent'
  BY <1>1 DEF DestroyFree, RingsConsistent
<1>5. EventInv'
  BY DEF DestroyFree, IInv, acceptor, EventInv, PhaseInv
<1>6. PendingInv'
  BY DEF DestroyFree, IInv, calls, PendingInv, Pending, PhaseInv, InCall
<1>7. OwnedInv'
  BY DEF DestroyFree, IInv, RingsConsistent, Pending, OwnedInv, PhaseInv, InCall
<1>8. ConnInv'
  BY DEF DestroyFree, IInv, acceptor, ResetBacklog, ConnInv
<1>9. PhaseInv'
  BY DEF DestroyFree, IInv, acceptor, calls, PhaseInv, InCall
<1>10. QED
  BY <1>1, <1>2, <1>3, <1>4, <1>5, <1>6, <1>7, <1>8, <1>9 DEF IInv

-----------------------------------------------------------------------------
(* Every step preserves the invariant.                                     *)
LEMMA NextKeeps == IInv /\ [Next]_vars => IInv'
<1>. SUFFICES ASSUME IInv, [Next]_vars PROVE IInv'
  OBVIOUS
<1>1. CASE \E c \in Conns, s \in Sockets : Connect(c, s)
  BY <1>1, ConnectKeeps
<1>2. CASE AcceptorStep
  BY <1>2, EpollWaitKeeps, AcceptorLockKeeps, AcceptorCheckKeeps,
     AcceptorCleanupKeeps, AcceptorAcceptKeeps, AcceptorAcceptFailsKeeps,
     AcceptorBindKeeps, AcceptorUnlockKeeps, AcceptorCancelledKeeps
     DEF AcceptorStep
<1>3. ASSUME NEW t \in Callers, CallBegin(t) PROVE IInv'
  BY <1>3, AddOpenKeeps, AddOpenFailsKeeps, RemoveLockKeeps DEF CallBegin
<1>4. ASSUME NEW t \in Callers, CallStep(t) PROVE IInv'
  BY <1>4, AddLockKeeps, AddRegisterKeeps, AddRegisterFailsKeeps, AddUnlockKeeps,
     AddCloseKeeps, RemoveParkKeeps, RemoveNotFoundKeeps, RemoveUnlockKeeps
     DEF CallStep
<1>5. CASE Destroy
  BY <1>5, DestroyCancelKeeps, DestroyJoinKeeps, DestroyFreeKeeps DEF Destroy
<1>6. CASE UNCHANGED vars
  <2>1. UNCHANGED Listed
    BY <1>6 DEF vars, rings, Listed
  <2>2. /\ UNCHANGED <<mem, sockfd, active, port, plot_sockets, inactive_plot_sockets, epoll>>
        /\ UNCHANGED <<conn, lsock, apc, ev, clientfd, cpc, target, arg>>
        /\ UNCHANGED <<plot_sockets_mtx, phase>>
    BY <1>6 DEF vars, memory, rings, net, acceptor, calls
  <2>3. TypeOK' /\ RingsConsistent' /\ MutexInv' /\ EventInv' /\ RingInjective'
    BY <2>1, <2>2 DEF IInv, TypeOK, RingsConsistent, MutexInv, AcceptorHolds, CallHolds,
       EventInv, RingInjective
  <2>4. PendingInv' /\ OwnedInv' /\ ConnInv' /\ PhaseInv'
    BY <2>1, <2>2 DEF IInv, PendingInv, Pending, OwnedInv, ConnInv, PhaseInv, InCall
  <2>5. QED
    BY <2>3, <2>4 DEF IInv
<1>7. QED
  BY <1>1, <1>2, <1>3, <1>4, <1>5, <1>6 DEF Next

(* Who holds which mutex, who owns which socket, and where the acceptor's  *)
(* pointer may point: the inductive invariant holds always (server.c).     *)
THEOREM InvariantKept == Spec => []IInv
<1>1. QED
  BY InitIInv, NextKeeps, PTL DEF Spec

-----------------------------------------------------------------------------
(* The pointer of an epoll event stays valid until the acceptor has used   *)
(* it for the last time, however many plots are removed meanwhile          *)
(* (server.c:73-94).                                                       *)
THEOREM EventPointersNeverDangle == Spec => []EventPointerValid
<1>1. IInv => EventPointerValid
  <2>. SUFFICES ASSUME IInv,
                       apc \in {"lock", "check", "skip", "cleanup", "accept", "bind"}
                PROVE  ev \in Sockets /\ mem[ev] = "allocated"
    BY DEF EventPointerValid
  <2>1. ev \in Listed \cup inactive_plot_sockets
    BY DEF IInv, EventInv
  <2>2. ev # None
    <3>1. Listed \subseteq Sockets
      BY DEF IInv, TypeOK, Listed
    <3>2. QED
      BY <2>1, <3>1 DEF IInv, TypeOK
  <2>3. QED
    BY <2>1, <2>2 DEF IInv, TypeOK, RingsConsistent
<1>2. QED
  BY <1>1, InvariantKept, PTL

(* accept and the hand-off work on a plot that is active and listening     *)
(* (server.c:75-94).                                                       *)
THEOREM AcceptedOnActivePlots == Spec => []AcceptsOnlyActive
<1>1. IInv => AcceptsOnlyActive
  BY DEF IInv, EventInv, RingsConsistent, AcceptsOnlyActive
<1>2. QED
  BY <1>1, InvariantKept, PTL

(* The rings, the interest list and the memory agree (server.c:143-245).   *)
THEOREM RingsStayConsistent == Spec => []RingsConsistent
<1>1. IInv => RingsConsistent
  BY DEF IInv
<1>2. QED
  BY <1>1, InvariantKept, PTL

(* A connection reaches a worker only while its plot is active, and stays  *)
(* there (server.c:87-103).                                                *)
THEOREM HandedOffFromActivePlots == Spec => HandOffOnlyActive
<1>1. ASSUME IInv, [Next]_vars PROVE [HandOffAction]_vars
  <2>. SUFFICES ASSUME Next PROVE HandOffAction
    BY <1>1
  <2>1. ASSUME NEW ok \in BOOLEAN, AcceptorBind(ok) PROVE HandOffAction
    BY <1>1, <2>1 DEF AcceptorBind, HandOffAction, IInv, TypeOK, ConnInv, EventInv,
       RingsConsistent
  <2>2. ASSUME \A c \in Conns : UNCHANGED conn[c] \/ (conn[c] # "handed" /\ conn'[c] # "handed")
        PROVE  HandOffAction
    BY <2>2 DEF HandOffAction
  <2>3. ASSUME NEW c \in Conns, NEW s \in Sockets, Connect(c, s) PROVE HandOffAction
    BY <1>1, <2>2, <2>3 DEF Connect, IInv, TypeOK
  <2>4. ASSUME AcceptorStep, \A ok \in BOOLEAN : ~AcceptorBind(ok) PROVE HandOffAction
    <3>1. CASE UNCHANGED conn
      BY <2>2, <3>1
    <3>2. ASSUME NEW c \in Conns, AcceptorAccept(c) PROVE HandOffAction
      BY <1>1, <2>2, <3>2 DEF AcceptorAccept, Backlog, IInv, TypeOK
    <3>3. QED
      BY <2>4, <3>1, <3>2 DEF AcceptorStep, EpollWait, AcceptorLock, AcceptorCheck,
         AcceptorCleanup, AcceptorAcceptFails, AcceptorUnlock, AcceptorCancelled, net
  <2>5. ASSUME NEW S, ResetBacklog(S) PROVE HandOffAction
    BY <2>2, <2>5 DEF ResetBacklog
  <2>6. ASSUME NEW t \in Callers, CallBegin(t) \/ CallStep(t) PROVE HandOffAction
    <3>1. CASE UNCHANGED conn
      BY <2>2, <3>1
    <3>2. QED
      BY <2>5, <2>6, <3>1 DEF CallBegin, CallStep, AddOpen, AddOpenFails, AddLock,
         AddRegister, AddRegisterFails, AddUnlock, AddClose, RemoveLock, RemovePark,
         RemoveNotFound, RemoveUnlock, net
  <2>7. CASE Destroy
    <3>1. CASE UNCHANGED conn
      BY <2>2, <3>1
    <3>2. QED
      BY <2>5, <2>7, <3>1 DEF Destroy, DestroyCancel, DestroyJoin, DestroyFree, net
  <2>8. QED
    BY <2>1, <2>3, <2>4, <2>6, <2>7 DEF Next
<1>2. QED
  BY <1>1, InvariantKept, PTL DEF Spec, HandOffOnlyActive

(* A destroyed server leaves nothing allocated, listening or half accepted *)
(* (server.c:217-245).                                                     *)
THEOREM DestroyedServerReleasesAll == Spec => []DestroyReleasesAll
<1>1. IInv => DestroyReleasesAll
  <2>. SUFFICES ASSUME IInv, phase = "destroyed" PROVE DestroyReleasesAll
    BY DEF DestroyReleasesAll
  <2>1. plot_sockets = <<>> /\ inactive_plot_sockets = {} /\ apc = "dead"
        /\ \A t \in Callers : ~InCall(t)
    BY DEF IInv, PhaseInv
  <2>2. Listed = {}
    BY <2>1 DEF Listed
  <2>3. \A t \in Callers : ~Pending(t)
    BY <2>1 DEF Pending, InCall
  <2>4. \A s \in Sockets : mem[s] # "allocated" /\ sockfd[s] = "closed"
    BY <2>1, <2>2, <2>3 DEF IInv, TypeOK, OwnedInv
  <2>5. \A c \in Conns : conn[c] \notin {"queued", "accepted"}
    BY <2>1, <2>4 DEF IInv, ConnInv
  <2>6. QED
    BY <2>4, <2>5 DEF DestroyReleasesAll
<1>2. QED
  BY <1>1, InvariantKept, PTL
=============================================================================
