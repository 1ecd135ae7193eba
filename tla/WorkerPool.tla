----------------------------- MODULE WorkerPool -----------------------------
(***************************************************************************)
(* The pool of workers (src/server/server_worker_pool.c).  The acceptor    *)
(* gives a connection to the worker that serves the fewest clients.  It    *)
(* reads the counts one after the other, each under that worker's own      *)
(* mutex, while the workers go on disconnecting clients.                   *)
(***************************************************************************)
EXTENDS Integers

CONSTANTS
    WorkersNr,   \* pool->workers_nr
    MaxClients,  \* bound: clients added in all
    MayFail      \* whether malloc and server_worker_create may fail

ASSUME PoolAssumption ==
    /\ WorkersNr \in Nat \ {0}
    /\ MaxClients \in Nat
    /\ MayFail \in BOOLEAN

Workers == 1 .. WorkersNr

VARIABLES
    pool,        \* "unmade", "creating", "alive", "scanning", "destroying",
                 \* "destroyed", "null" (not made) or "aborted"
    worker,      \* "none", "alive", "null" or "destroyed", per worker
    next,        \* the index of the loop that is running
    clients_nr,  \* per worker
    laziest_worker, min_clients_nr,
    seen,        \* history: the count that the scan read, per worker
    added,       \* history: clients added in all
    left         \* history: whether a client has ever left

scan == <<laziest_worker, min_clients_nr, seen>>
vars == <<pool, worker, next, clients_nr, scan, added, left>>

Init ==
    /\ pool = "unmade"
    /\ worker = [w \in Workers |-> "none"]
    /\ next = 1
    /\ clients_nr = [w \in Workers |-> 0]
    /\ laziest_worker = 1
    /\ min_clients_nr = 0
    /\ seen = [w \in Workers |-> 0]
    /\ added = 0
    /\ left = FALSE

-----------------------------------------------------------------------------
(* server_worker_pool_create *)

PoolCreate ==
    /\ pool = "unmade"
    /\ pool' = "creating"
    /\ UNCHANGED <<worker, next, clients_nr, scan, added, left>>

(* malloc fails: of the pool, or, unnoticed, of the array of workers.      *)
PoolCreateFails ==
    /\ MayFail
    /\ pool = "unmade"
    /\ pool' \in {"null", "aborted"}
    /\ UNCHANGED <<worker, next, clients_nr, scan, added, left>>

(* One round of the loop has made entry next of the array.                 *)
WorkerEntered(entry) ==
    /\ worker' = [worker EXCEPT ![next] = entry]
    /\ next' = next + 1
    /\ pool' = IF next = WorkersNr THEN "alive" ELSE "creating"

WorkerCreate ==
    /\ pool = "creating"
    /\ WorkerEntered("alive")
    /\ UNCHANGED <<clients_nr, scan, added, left>>

(* The first worker cannot be made: nothing to destroy, so nothing jumps   *)
(* out of the loop, which goes on with a null entry.                       *)
FirstWorkerFails ==
    /\ MayFail
    /\ pool = "creating" /\ next = 1
    /\ WorkerEntered("null")
    /\ UNCHANGED <<clients_nr, scan, added, left>>

(* A later one: the jump out of the loop comes after the first destroy,    *)
(* which aborts if the first entry is null.                                *)
LaterWorkerFails ==
    /\ MayFail
    /\ pool = "creating" /\ next > 1
    /\ IF worker[1] = "null"
       THEN pool' = "aborted" /\ UNCHANGED worker
       ELSE pool' = "null" /\ worker' = [worker EXCEPT ![1] = "destroyed"]
    /\ UNCHANGED <<next, clients_nr, scan, added, left>>

-----------------------------------------------------------------------------
(* server_worker_pool_add_client, called by the acceptor only *)

(* server_worker_get_clients_nr asserts that there is a worker.            *)
ScanBegin ==
    /\ pool = "alive"
    /\ IF worker[1] = "null" THEN pool' = "aborted" ELSE pool' = "scanning"
    /\ laziest_worker' = 1
    /\ min_clients_nr' = clients_nr[1]
    /\ seen' = [seen EXCEPT ![1] = clients_nr[1]]
    /\ next' = 2
    /\ UNCHANGED <<worker, clients_nr, added, left>>

(* Mutant: the comparison is the wrong way round.                          *)
ScanStepBusiest ==
    /\ pool = "scanning" /\ next <= WorkersNr
    /\ seen' = [seen EXCEPT ![next] = clients_nr[next]]
    /\ IF min_clients_nr < clients_nr[next]
       THEN laziest_worker' = next /\ min_clients_nr' = clients_nr[next]
       ELSE UNCHANGED <<laziest_worker, min_clients_nr>>
    /\ next' = next + 1
    /\ UNCHANGED <<pool, worker, clients_nr, added, left>>

ScanStep ==
    /\ pool = "scanning" /\ next <= WorkersNr
    /\ seen' = [seen EXCEPT ![next] = clients_nr[next]]
    /\ IF min_clients_nr > clients_nr[next]
       THEN laziest_worker' = next /\ min_clients_nr' = clients_nr[next]
       ELSE UNCHANGED <<laziest_worker, min_clients_nr>>
    /\ next' = next + 1
    /\ UNCHANGED <<pool, worker, clients_nr, added, left>>

ScanDone == pool = "scanning" /\ next > WorkersNr

(* Mutant: the last worker that was looked at gets the client.             *)
AddClientToLast ==
    /\ ScanDone
    /\ added < MaxClients
    /\ clients_nr' = [clients_nr EXCEPT ![WorkersNr] = @ + 1]
    /\ added' = added + 1
    /\ pool' = "alive"
    /\ UNCHANGED <<worker, next, scan, left>>

(* server_worker_add_client of the laziest worker.                         *)
AddClient ==
    /\ ScanDone
    /\ added < MaxClients
    /\ clients_nr' = [clients_nr EXCEPT ![laziest_worker] = @ + 1]
    /\ added' = added + 1
    /\ pool' = "alive"
    /\ UNCHANGED <<worker, next, scan, left>>

AddClientFails ==
    /\ MayFail
    /\ ScanDone
    /\ pool' = "alive"
    /\ UNCHANGED <<worker, next, clients_nr, scan, added, left>>

(* A worker disconnects a client, at any time.                             *)
ClientLeaves(w) ==
    /\ worker[w] = "alive"
    /\ clients_nr[w] > 0
    /\ clients_nr' = [clients_nr EXCEPT ![w] = @ - 1]
    /\ left' = TRUE
    /\ UNCHANGED <<pool, worker, next, scan, added>>

-----------------------------------------------------------------------------
(* server_worker_pool_destroy: server_destroy has joined the acceptor.     *)

DestroyBegin ==
    /\ pool = "alive"
    /\ pool' = "destroying"
    /\ next' = 1
    /\ UNCHANGED <<worker, clients_nr, scan, added, left>>

(* Mutant: the loop stops one worker early.                                *)
DestroyWorkerButLast ==
    /\ pool = "destroying"
    /\ IF worker[next] = "null"
       THEN pool' = "aborted" /\ UNCHANGED <<worker, clients_nr, next>>
       ELSE /\ worker' = [worker EXCEPT ![next] = "destroyed"]
            /\ clients_nr' = [clients_nr EXCEPT ![next] = 0]
            /\ next' = next + 1
            /\ pool' = IF next >= WorkersNr - 1 THEN "destroyed" ELSE pool
    /\ UNCHANGED <<scan, added, left>>

(* server_worker_destroy joins the worker and disconnects its clients.     *)
DestroyWorker ==
    /\ pool = "destroying"
    /\ IF worker[next] = "null"
       THEN pool' = "aborted" /\ UNCHANGED <<worker, clients_nr, next>>
       ELSE /\ worker' = [worker EXCEPT ![next] = "destroyed"]
            /\ clients_nr' = [clients_nr EXCEPT ![next] = 0]
            /\ next' = next + 1
            /\ pool' = IF next = WorkersNr THEN "destroyed" ELSE pool
    /\ UNCHANGED <<scan, added, left>>

Next ==
    \/ PoolCreate \/ PoolCreateFails
    \/ WorkerCreate \/ FirstWorkerFails \/ LaterWorkerFails
    \/ ScanBegin \/ ScanStep \/ AddClient \/ AddClientFails
    \/ \E w \in Workers : ClientLeaves(w)
    \/ DestroyBegin \/ DestroyWorker

Spec == Init /\ [][Next]_vars

-----------------------------------------------------------------------------
(* Properties *)

PoolStates == {"unmade", "creating", "alive", "scanning", "destroying",
               "destroyed", "null", "aborted"}

(* Types of all variables.                                                 *)
TypeOK ==
    /\ pool \in PoolStates
    /\ worker \in [Workers -> {"none", "alive", "null", "destroyed"}]
    /\ next \in 1 .. WorkersNr + 1
    /\ clients_nr \in [Workers -> Nat]
    /\ laziest_worker \in Workers
    /\ min_clients_nr \in Nat
    /\ seen \in [Workers -> Nat]
    /\ added \in 0 .. MaxClients
    /\ left \in BOOLEAN

(* When the acceptor adds the client, the chosen worker serves no more     *)
(* clients than any worker did when its count was read, although every     *)
(* count may be stale by then (server_worker_pool.c:45-55).                *)
LaziestChosen ==
    ScanDone => \A w \in Workers : clients_nr[laziest_worker] <= seen[w]

(* As long as no client has left, the numbers of clients of two workers    *)
(* differ by one at most: nothing is added behind the back of the scan.    *)
Balanced ==
    ~left /\ pool \in {"alive", "scanning"} =>
        \A v, w \in Workers : clients_nr[v] <= clients_nr[w] + 1

(* A destroyed pool leaves no worker thread running and no client          *)
(* connected, also if clients left meanwhile.                              *)
DestroyStopsAll ==
    pool = "destroyed" =>
        \A w \in Workers : worker[w] = "destroyed" /\ clients_nr[w] = 0

-----------------------------------------------------------------------------
(* The inductive invariant *)

(* What the scan knows: the minimum of what it has read, which the chosen  *)
(* worker has not exceeded since.                                          *)
ScanInv ==
    pool = "scanning" =>
        /\ laziest_worker < next
        /\ min_clients_nr = seen[laziest_worker]
        /\ \A w \in Workers : w < next =>
              /\ min_clients_nr <= seen[w]
              /\ clients_nr[w] <= seen[w]
              /\ ~left => clients_nr[w] = seen[w]

(* Which workers exist while the pool is made, used and destroyed.         *)
WorkersInv ==
    /\ pool \in {"unmade", "creating"} =>
          next <= WorkersNr /\ \A w \in Workers : clients_nr[w] = 0
    /\ pool = "destroying" =>
          /\ next <= WorkersNr
          /\ \A w \in Workers : w < next => worker[w] = "destroyed" /\ clients_nr[w] = 0

(* The scan's knowledge and the state of the workers agree at every step;  *)
(* what the proofs carry (server_worker_pool.c:12-65).                     *)
PoolInv == TypeOK /\ ScanInv /\ WorkersInv /\ Balanced /\ DestroyStopsAll
=============================================================================
