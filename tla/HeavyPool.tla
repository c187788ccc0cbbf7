----------------------------- MODULE HeavyPool ------------------------------
(***************************************************************************)
(* The worker processes of the server (src/src/goa2/server/workers.py):    *)
(* one cached process pool for every match, discarded when it breaks,      *)
(* while other callers may hold it, wait in it or have just fetched it.    *)
(***************************************************************************)
EXTENDS Naturals, FiniteSets

CONSTANTS
    Callers,      \* tasks that call run_heavy, one call at a time
    Workers,      \* worker processes of a pool
    MaxFaults     \* bound: worker deaths and RuntimeErrors of jobs

ASSUME PoolAssumption ==
    /\ IsFiniteSet(Callers) /\ Workers \in Nat \ {0} /\ MaxFaults \in Nat

VARIABLES
    pool,     \* number of the cached pool, 0 if none (_pool)
    made,     \* pools created
    broken,   \* pools a worker of which died
    call,     \* per caller: progress of its call of run_heavy
    faults

poolVars == <<pool, made, broken, call, faults>>

NoPool == 0
PoolIds == 1 .. MaxFaults + 1

Call == [pc : {"idle", "calling", "queued", "running"}, on : PoolIds \cup {NoPool},
         retry : BOOLEAN,
         result : {"none", "ok", "invalid", "broken", "runtime"}]

NoCall == [pc |-> "idle", on |-> NoPool, retry |-> FALSE, result |-> "none"]

PoolInit ==
    /\ pool = NoPool /\ made = 0 /\ broken = {} /\ faults = 0
    /\ call = [c \in Callers |-> NoCall]

\* A call begins; its caller says when.
Call_(c) == call' = [call EXCEPT ![c] = [NoCall EXCEPT !.pc = "calling"]]

Ended(r) == [NoCall EXCEPT !.result = r]

\* get_heavy_pool, and _discard_heavy_pool: only the pool that failed is
\* forgotten, never its replacement.
Fetched(cached) == IF cached = NoPool THEN made + 1 ELSE cached

\* Mutant: whatever is cached is forgotten.
MutForgotten(p) == NoPool

Forgotten(p) == IF pool = p THEN NoPool ELSE pool

\* The job is handed to pool q, which refuses it if it is broken.
Handed(x, q) == IF q \in broken THEN Ended("broken")
                ELSE [x EXCEPT !.pc = "queued", !.on = q]

\* Fetching the pool and submitting the job is one step of the event loop.
Submit(c) ==
    /\ call[c].pc = "calling"
    /\ LET q == Fetched(pool)
       IN  /\ call' = [call EXCEPT ![c] = Handed(@, q)]
           /\ pool' = IF q \in broken THEN Forgotten(q) ELSE q
           /\ made' = IF q > made THEN q ELSE made
    /\ UNCHANGED <<broken, faults>>

\* BrokenProcessPool while the job waits or runs.
Broke(c) ==
    /\ call[c].pc \in {"queued", "running"} /\ call[c].on \in broken
    /\ pool' = IF call[c].retry THEN pool ELSE Forgotten(call[c].on)
    /\ call' = [call EXCEPT ![c] = Ended("broken")]
    /\ UNCHANGED <<made, broken, faults>>

Busy(p) == {c \in Callers : call[c].pc = "running" /\ call[c].on = p}

\* A free worker takes the job; it ends, or raises what its caller expects.
Start(c) ==
    /\ call[c].pc = "queued" /\ call[c].on \notin broken
    /\ Cardinality(Busy(call[c].on)) < Workers
    /\ call' = [call EXCEPT ![c].pc = "running"]
    /\ UNCHANGED <<pool, made, broken, faults>>

Finish(c) ==
    /\ call[c].pc = "running" /\ call[c].on \notin broken
    /\ \E r \in {"ok", "invalid"} : call' = [call EXCEPT ![c] = Ended(r)]
    /\ UNCHANGED <<pool, made, broken, faults>>

\* The job raises a RuntimeError, as the engine does for an endless loop.  The
\* first time it is taken for the refusal of a pool that was shut down: the
\* pool is discarded and the job submitted to a fresh one.
JobFails(c) ==
    /\ call[c].pc = "running" /\ call[c].on \notin broken
    /\ faults < MaxFaults /\ faults' = faults + 1
    /\ IF call[c].retry
       THEN call' = [call EXCEPT ![c] = Ended("runtime")] /\ UNCHANGED <<pool, made>>
       ELSE LET p == call[c].on
                q == Fetched(Forgotten(p))
            IN  /\ call' = [call EXCEPT ![c] = Handed([@ EXCEPT !.retry = TRUE], q)]
                /\ pool' = q /\ made' = IF q > made THEN q ELSE made
    /\ UNCHANGED broken

\* A worker process dies.
Die(p) ==
    /\ p <= made /\ p \notin broken
    /\ faults < MaxFaults /\ faults' = faults + 1
    /\ broken' = broken \cup {p}
    /\ UNCHANGED <<pool, made, call>>

PoolStep(c) == Submit(c) \/ Broke(c) \/ Start(c) \/ Finish(c)

PoolNext == (\E c \in Callers : PoolStep(c) \/ JobFails(c)) \/ (\E p \in PoolIds : Die(p))

PoolTypeOK ==
    /\ pool \in PoolIds \cup {NoPool} /\ made \in 0 .. MaxFaults + 1
    /\ broken \subseteq PoolIds
    /\ call \in [Callers -> Call] /\ faults \in 0 .. MaxFaults

-----------------------------------------------------------------------------
(* Properties. *)

\* A pool is given up only after one of its workers died or one of its own
\* jobs raised a RuntimeError; what fails elsewhere, or in a pool that was
\* replaced since, leaves it in place.
ReplacementKept ==
    [][pool # NoPool /\ pool' # pool =>
           pool \in broken \/ \E c \in Callers : call[c].on = pool /\ call'[c].retry]_poolVars
=============================================================================
