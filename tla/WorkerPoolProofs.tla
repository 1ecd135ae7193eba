-------------------------- MODULE WorkerPoolProofs --------------------------
(***************************************************************************)
(* Machine-checked proofs about WorkerPool, for any number of workers and  *)
(* clients.  PoolInv is inductive; it carries what the scan has read.      *)
(***************************************************************************)
EXTENDS WorkerPool, TLAPS

(* Workers are numbered from 1.                                            *)
LEMMA WorkerIds ==
    \A w : w \in Workers <=> w \in Nat /\ 1 <= w /\ w <= WorkersNr
BY PoolAssumption DEF Workers

USE PoolAssumption, WorkerIds

(* No worker exists and no count has been read.                            *)
LEMMA InitPoolInv == Init => PoolInv
<1>. SUFFICES ASSUME Init PROVE PoolInv
  OBVIOUS
<1>1. TypeOK
  <2>1. pool \in PoolStates /\ left \in BOOLEAN
    BY DEF Init, PoolStates
  <2>2. next \in 1 .. WorkersNr + 1 /\ laziest_worker \in Workers
        /\ min_clients_nr \in Nat /\ added \in 0 .. MaxClients
    BY DEF Init
  <2>3. worker \in [Workers -> {"none", "alive", "null", "destroyed"}]
    BY DEF Init
  <2>4. clients_nr \in [Workers -> Nat] /\ seen \in [Workers -> Nat]
    BY DEF Init
  <2>5. QED
    BY <2>1, <2>2, <2>3, <2>4 DEF TypeOK
<1>2. ScanInv /\ WorkersInv /\ Balanced /\ DestroyStopsAll
  BY DEF Init, ScanInv, WorkersInv, Balanced, DestroyStopsAll
<1>3. QED
  BY <1>1, <1>2 DEF PoolInv

(* Making the pool: no worker has a client yet.                            *)
LEMMA CreateKeepsPoolInv ==
    ASSUME PoolInv, PoolCreate \/ PoolCreateFails \/ WorkerCreate
                    \/ FirstWorkerFails \/ LaterWorkerFails
    PROVE  PoolInv'
<1>1. CASE PoolCreate \/ PoolCreateFails
  <2>1. UNCHANGED <<worker, next, clients_nr, scan, added, left>>
    BY <1>1 DEF PoolCreate, PoolCreateFails
  <2>2. pool = "unmade" /\ pool' \in {"creating", "null", "aborted"}
    BY <1>1 DEF PoolCreate, PoolCreateFails
  <2>3. TypeOK'
    BY <2>1, <2>2 DEF scan, PoolInv, TypeOK, PoolStates
  <2>4. ScanInv' /\ WorkersInv' /\ Balanced' /\ DestroyStopsAll'
    BY <2>1, <2>2 DEF PoolInv, ScanInv, WorkersInv, Balanced, DestroyStopsAll
  <2>5. QED
    BY <2>3, <2>4 DEF PoolInv
<1>2. CASE WorkerCreate \/ FirstWorkerFails
  <2>1. next \in Nat /\ next <= WorkersNr /\ pool' \in {"alive", "creating"}
        /\ next' = next + 1 /\ (pool' = "creating" => next # WorkersNr)
    BY <1>2 DEF WorkerCreate, FirstWorkerFails, WorkerEntered, PoolInv, WorkersInv, TypeOK
  <2>2. TypeOK'
    BY <1>2, <2>1 DEF WorkerCreate, FirstWorkerFails, WorkerEntered, scan, PoolInv, TypeOK,
       PoolStates
  <2>3. \A w \in Workers : clients_nr'[w] = 0
    BY <1>2 DEF WorkerCreate, FirstWorkerFails, PoolInv, WorkersInv
  <2>4. ScanInv' /\ WorkersInv' /\ Balanced' /\ DestroyStopsAll'
    BY <2>1, <2>3 DEF ScanInv, WorkersInv, Balanced, DestroyStopsAll
  <2>5. QED
    BY <2>2, <2>4 DEF PoolInv
<1>3. CASE LaterWorkerFails
  BY <1>3 DEF LaterWorkerFails, scan, PoolInv, TypeOK, PoolStates, ScanInv, WorkersInv,
     Balanced, DestroyStopsAll
<1>4. QED
  BY <1>1, <1>2, <1>3

(* Reading the counts: the minimum so far is kept.                         *)
LEMMA ScanKeepsPoolInv ==
    ASSUME PoolInv, ScanBegin \/ ScanStep PROVE PoolInv'
<1>1. CASE ScanBegin
  <2>1. TypeOK'
    BY <1>1 DEF ScanBegin, PoolInv, TypeOK, PoolStates
  <2>2. ScanInv'
    BY <1>1 DEF ScanBegin, PoolInv, TypeOK, ScanInv
  <2>3. WorkersInv' /\ Balanced' /\ DestroyStopsAll'
    BY <1>1 DEF ScanBegin, PoolInv, TypeOK, WorkersInv, Balanced, DestroyStopsAll
  <2>4. QED
    BY <2>1, <2>2, <2>3 DEF PoolInv
<1>2. CASE ScanStep
  <2>1. TypeOK'
    BY <1>2 DEF ScanStep, PoolInv, TypeOK, PoolStates
  <2>2. ScanInv'
    BY <1>2 DEF ScanStep, PoolInv, TypeOK, ScanInv
  <2>3. WorkersInv' /\ Balanced' /\ DestroyStopsAll'
    BY <1>2 DEF ScanStep, PoolInv, TypeOK, WorkersInv, Balanced, DestroyStopsAll
  <2>4. QED
    BY <2>1, <2>2, <2>3 DEF PoolInv
<1>3. QED
  BY <1>1, <1>2

(* The scan has read every worker: the chosen one is the laziest.          *)
LEMMA ScanFindsLaziest ==
    ASSUME PoolInv, ScanDone
    PROVE  /\ LaziestChosen
           /\ ~left => \A w \in Workers : clients_nr[laziest_worker] <= clients_nr[w]
<1>1. \A w \in Workers : w < next
  BY DEF ScanDone, PoolInv, TypeOK
<1>2. QED
  BY <1>1 DEF ScanDone, PoolInv, TypeOK, ScanInv, LaziestChosen

(* Clients come to the laziest worker, and leave.                          *)
LEMMA ClientsKeepPoolInv ==
    ASSUME PoolInv, AddClient \/ AddClientFails \/ \E w \in Workers : ClientLeaves(w)
    PROVE  PoolInv'
<1>1. CASE AddClient
  <2>1. TypeOK'
    BY <1>1 DEF AddClient, scan, PoolInv, TypeOK, PoolStates
  <2>2. ScanInv' /\ WorkersInv' /\ DestroyStopsAll'
    BY <1>1 DEF AddClient, ScanInv, WorkersInv, DestroyStopsAll
  <2>3. Balanced'
    BY <1>1, ScanFindsLaziest DEF AddClient, ScanDone, PoolInv, TypeOK, Balanced
  <2>4. QED
    BY <2>1, <2>2, <2>3 DEF PoolInv
<1>2. CASE AddClientFails
  <2>1. TypeOK'
    BY <1>2 DEF AddClientFails, scan, PoolInv, TypeOK, PoolStates
  <2>2. ScanInv' /\ WorkersInv' /\ DestroyStopsAll'
    BY <1>2 DEF AddClientFails, ScanInv, WorkersInv, DestroyStopsAll
  <2>3. Balanced'
    BY <1>2 DEF AddClientFails, ScanDone, PoolInv, Balanced
  <2>4. QED
    BY <2>1, <2>2, <2>3 DEF PoolInv
<1>3. ASSUME NEW w \in Workers, ClientLeaves(w) PROVE PoolInv'
  <2>1. TypeOK' /\ Balanced'
    BY <1>3 DEF ClientLeaves, scan, PoolInv, TypeOK, Balanced
  <2>2. ScanInv'
    BY <1>3 DEF ClientLeaves, scan, PoolInv, TypeOK, ScanInv
  <2>3. WorkersInv' /\ DestroyStopsAll'
    BY <1>3 DEF ClientLeaves, scan, PoolInv, TypeOK, WorkersInv, DestroyStopsAll
  <2>4. QED
    BY <2>1, <2>2, <2>3 DEF PoolInv
<1>4. QED
  BY <1>1, <1>2, <1>3

(* Destroying the workers one after the other.                             *)
LEMMA DestroyKeepsPoolInv ==
    ASSUME PoolInv, DestroyBegin \/ DestroyWorker PROVE PoolInv'
<1>1. CASE DestroyBegin
  <2>1. TypeOK'
    BY <1>1 DEF DestroyBegin, scan, PoolInv, TypeOK, PoolStates
  <2>2. ScanInv' /\ WorkersInv' /\ Balanced' /\ DestroyStopsAll'
    BY <1>1 DEF DestroyBegin, ScanInv, WorkersInv, Balanced, DestroyStopsAll
  <2>3. QED
    BY <2>1, <2>2 DEF PoolInv
<1>2. CASE DestroyWorker
  <2>1. TypeOK'
    BY <1>2 DEF DestroyWorker, scan, PoolInv, TypeOK, PoolStates, WorkersInv
  <2>2. ScanInv' /\ Balanced'
    BY <1>2 DEF DestroyWorker, ScanInv, Balanced
  <2>3. WorkersInv' /\ DestroyStopsAll'
    BY <1>2 DEF DestroyWorker, PoolInv, TypeOK, WorkersInv, DestroyStopsAll
  <2>4. QED
    BY <2>1, <2>2, <2>3 DEF PoolInv
<1>3. QED
  BY <1>1, <1>2

(* Every step preserves the invariant.                                     *)
LEMMA NextPoolInv == PoolInv /\ [Next]_vars => PoolInv'
<1>. SUFFICES ASSUME PoolInv, [Next]_vars PROVE PoolInv'
  OBVIOUS
<1>1. CASE UNCHANGED vars
  BY <1>1 DEF vars, scan, PoolInv, TypeOK, ScanInv, WorkersInv, Balanced, DestroyStopsAll
<1>2. CASE Next
  BY <1>2, CreateKeepsPoolInv, ScanKeepsPoolInv, ClientsKeepPoolInv,
     DestroyKeepsPoolInv DEF Next
<1>3. QED
  BY <1>1, <1>2

-----------------------------------------------------------------------------
(* The counts read one by one, and possibly stale, never mislead the       *)
(* acceptor: at the time of the hand-off the chosen worker serves no more  *)
(* clients than any worker did when it was looked at.                      *)
THEOREM ChoosesLaziest == Spec => []LaziestChosen
<1>1. PoolInv => LaziestChosen
  BY ScanFindsLaziest DEF LaziestChosen
<1>2. QED
  BY <1>1, InitPoolInv, NextPoolInv, PTL DEF Spec

(* While nobody leaves, no worker is ahead of another by two clients,      *)
(* whatever the number of workers (server_worker_pool.c:40-56).            *)
THEOREM StaysBalanced == Spec => []Balanced
<1>1. PoolInv => Balanced
  BY DEF PoolInv
<1>2. QED
  BY <1>1, InitPoolInv, NextPoolInv, PTL DEF Spec

(* Destruction stops every worker that was created, also where the creation*)
(* of the pool failed half-way (server_worker_pool.c:21-37, 58-65).        *)
THEOREM DestructionStopsAll == Spec => []DestroyStopsAll
<1>1. PoolInv => DestroyStopsAll
  BY DEF PoolInv
<1>2. QED
  BY <1>1, InitPoolInv, NextPoolInv, PTL DEF Spec
=============================================================================
