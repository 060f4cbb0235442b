------------------------------- MODULE Backend -------------------------------
(* The pooled DuckDB connections of backend/mod.rs.                          *)
(*                                                                           *)
(* A pool is opened one connection at a time on the data file and is shared  *)
(* by every request that checks a connection out: a checkout takes the next  *)
(* index round robin and never waits.  One connection (a slot <<pool, i>>)   *)
(* carries three pieces of shared state: the mutex that serialises queries,  *)
(* the latch that remembers the first query failure until somebody takes it, *)
(* and the interrupt handle that aborts whatever query is running.           *)
(*                                                                           *)
(* The module defines that state and the steps on it; Serving.tla conjoins   *)
(* the steps with the request and reload code that calls them.               *)
EXTENDS Naturals

CONSTANTS
    Req,        \* the requests (workers) that use the connections
    Pool,       \* identities of the pools alive at one time
    PoolSize,   \* connections per pool (MALLARDCUBE_POOL_SIZE)
    MaxVersion, \* the data file is replaced at most MaxVersion - 1 times
    None        \* "no request"

ASSUME PoolSizeAssumption == PoolSize \in Nat \ {0}
ASSUME MaxVersionAssumption == MaxVersion \in Nat \ {0}
ASSUME NoneAssumption == None \notin Req

Conn == 0 .. PoolSize - 1
Slot == Pool \X Conn
Version == 1 .. MaxVersion
Closed == 0

VARIABLES
    data,        \* the version of the data file a connection has open, or Closed
    sidecar,     \* has the connection attached the aggregation sidecar?
    next,        \* the round-robin cursor of each pool
    failure,     \* the latch: whose query failed first since it was taken
    running,     \* whose query holds the connection's mutex
    interrupted  \* who interrupted the query that is running

backendVars == <<data, sidecar, next, failure, running, interrupted>>

BackendTypeOK ==
    /\ data \in [Slot -> Version \union {Closed}]
    /\ sidecar \in [Slot -> BOOLEAN]
    /\ next \in [Pool -> Conn]
    /\ failure \in [Slot -> Req \union {None}]
    /\ running \in [Slot -> Req \union {None}]
    /\ interrupted \in [Slot -> Req \union {None}]

\* The pool `first` open on version v; every other identity is unused.
BackendInit(first, v, attached) ==
    /\ data = [s \in Slot |-> IF s[1] = first THEN v ELSE Closed]
    /\ sidecar = [s \in Slot |-> s[1] = first /\ attached]
    /\ next = [p \in Pool |-> 0]
    /\ failure = [s \in Slot |-> None]
    /\ running = [s \in Slot |-> None]
    /\ interrupted = [s \in Slot |-> None]

\* A pool identity is taken for a new pool: nothing is open in it yet.
ResetPool(p) ==
    /\ data' = [s \in Slot |-> IF s[1] = p THEN Closed ELSE data[s]]
    /\ sidecar' = [s \in Slot |-> s[1] # p /\ sidecar[s]]
    /\ next' = [next EXCEPT ![p] = 0]
    /\ failure' = [s \in Slot |-> IF s[1] = p THEN None ELSE failure[s]]
    /\ UNCHANGED <<running, interrupted>>

\* Mutant: the sidecar is not attached to the new pool.
OpenConnectionBare(p, c, v, attached) ==
    /\ data' = [data EXCEPT ![<<p, c>>] = v]
    /\ UNCHANGED <<sidecar, next, failure, running, interrupted>>

\* Mutant: only the first connection is opened on the file, the others are
\* clones of a handle kept from startup.
OpenConnectionCloned(p, c, v, attached) ==
    /\ data' = [data EXCEPT ![<<p, c>>] = IF c = 0 THEN v ELSE 1]
    /\ sidecar' = [sidecar EXCEPT ![<<p, c>>] = attached]
    /\ UNCHANGED <<next, failure, running, interrupted>>

\* One turn of the loop in BackendPool::open.
OpenConnection(p, c, v, attached) ==
    /\ data' = [data EXCEPT ![<<p, c>>] = v]
    /\ sidecar' = [sidecar EXCEPT ![<<p, c>>] = attached]
    /\ UNCHANGED <<next, failure, running, interrupted>>

\* Mutant: the cursor is not reduced modulo the pool size.
CheckoutUnbounded(p) ==
    /\ next' = [next EXCEPT ![p] = next[p] + 1]
    /\ UNCHANGED <<data, sidecar, failure, running, interrupted>>

\* BackendPool::checkout: fetch_add on the cursor, modulo the pool size.
Checkout(p) ==
    /\ next' = [next EXCEPT ![p] = (next[p] + 1) % PoolSize]
    /\ UNCHANGED <<data, sidecar, failure, running, interrupted>>

\* lock_conn, then the engine starts the query.
BeginQuery(s, r) ==
    /\ running[s] = None
    /\ running' = [running EXCEPT ![s] = r]
    /\ UNCHANGED <<data, sidecar, next, failure, interrupted>>

\* Mutant: record_failure with its condition inverted.
LatchedInverted(s, r) == IF failure[s] = None THEN None ELSE r

\* record_failure keeps the first failure only.
Latched(s, r) == IF failure[s] = None THEN r ELSE failure[s]

\* Mutant: the guard of the connection's mutex is leaked.
EndQueryLocked(s, r, recorded) ==
    /\ running[s] = r
    /\ interrupted' = [interrupted EXCEPT ![s] = None]
    /\ failure' = IF recorded THEN [failure EXCEPT ![s] = Latched(s, r)] ELSE failure
    /\ UNCHANGED <<data, sidecar, next, running>>

\* The query ends and its guard is dropped.  A failed one may be recorded.
EndQuery(s, r, recorded) ==
    /\ running[s] = r
    /\ running' = [running EXCEPT ![s] = None]
    /\ interrupted' = [interrupted EXCEPT ![s] = None]
    /\ failure' = IF recorded
                  THEN [failure EXCEPT ![s] = Latched(s, r)]
                  ELSE failure
    /\ UNCHANGED <<data, sidecar, next>>

TakeFailure(s) ==
    /\ failure' = [failure EXCEPT ![s] = None]
    /\ UNCHANGED <<data, sidecar, next, running, interrupted>>

\* The engine forgets an interrupt that arrives when no query is running.
Interrupt(s, r) ==
    /\ interrupted' = IF running[s] = None
                      THEN interrupted
                      ELSE [interrupted EXCEPT ![s] = r]
    /\ UNCHANGED <<data, sidecar, next, failure, running>>
=============================================================================
