------------------------------ MODULE ArqPool ------------------------------
(***************************************************************************)
(* _get_arq_pool: the client of ARQ's Redis, one for each API process,     *)
(* created by the first call that needs it, under an asyncio lock with a   *)
(* second look inside it.  The caller gives up after half a second, while  *)
(* it waits for the lock or while it connects.                             *)
(***************************************************************************)
CONSTANTS
    Jobs,    \* calls that need the pool, named by their jobs
    Procs,   \* API processes
    ProcOf,  \* [Jobs -> Procs]
    None

ASSUME ProcOfAssumption == ProcOf \in [Jobs -> Procs] /\ None \notin Jobs

VARIABLES
    pool,      \* processes whose _ARQ_POOL is set
    poolLock,  \* who is inside async with _ARQ_POOL_LOCK, for each process
    getting    \* where each call is in _get_arq_pool

poolVars == <<pool, poolLock, getting>>

PoolInit ==
    /\ pool = {}
    /\ poolLock = [p \in Procs |-> None]
    /\ getting = [c \in Jobs |-> "idle"]

HasPool(c) == ProcOf[c] \in pool

LockIsFree(c) == poolLock[ProcOf[c]] = None

\* The pool is there, at the first look or at the one inside the lock.
UsePool(c) ==
    /\ HasPool(c)
    /\ getting[c] # "creating"
    /\ getting[c] = "waiting" => LockIsFree(c)
    /\ getting' = [getting EXCEPT ![c] = "idle"]
    /\ UNCHANGED <<pool, poolLock>>

AwaitPoolLock(c) ==
    /\ getting[c] = "idle"
    /\ ~HasPool(c)
    /\ getting' = [getting EXCEPT ![c] = "waiting"]
    /\ UNCHANGED <<pool, poolLock>>

\* Mutant of EnterPoolLock: no second look inside the lock.
EnterWithoutLooking(c) ==
    /\ getting[c] = "waiting"
    /\ LockIsFree(c)
    /\ getting' = [getting EXCEPT ![c] = "creating"]
    /\ poolLock' = [poolLock EXCEPT ![ProcOf[c]] = c]
    /\ UNCHANGED pool

\* await create_pool(...) begins, with the lock held.
EnterPoolLock(c) ==
    /\ getting[c] = "waiting"
    /\ LockIsFree(c)
    /\ ~HasPool(c)
    /\ getting' = [getting EXCEPT ![c] = "creating"]
    /\ poolLock' = [poolLock EXCEPT ![ProcOf[c]] = c]
    /\ UNCHANGED pool

CreatePool(c) ==
    /\ getting[c] = "creating"
    /\ pool' = pool \cup {ProcOf[c]}
    /\ poolLock' = [poolLock EXCEPT ![ProcOf[c]] = None]
    /\ getting' = [getting EXCEPT ![c] = "idle"]

(***************************************************************************)
(* wait_for cancels the call, or create_pool raises: leaving async with    *)
(* releases the lock, and _ARQ_POOL stays as it is.                        *)
(***************************************************************************)
GetPoolFails(c) ==
    /\ getting[c] # "idle"
    /\ getting' = [getting EXCEPT ![c] = "idle"]
    /\ poolLock' = [p \in Procs |-> IF poolLock[p] = c THEN None ELSE poolLock[p]]
    /\ UNCHANGED pool

GetPool(c) == UsePool(c) \/ CreatePool(c)

AwaitPool(c) == AwaitPoolLock(c) \/ EnterPoolLock(c)

\* Pool and lock are memory of the process.
ForgetPool(p) ==
    /\ pool' = pool \ {p}
    /\ poolLock' = [poolLock EXCEPT ![p] = None]
    /\ getting' = [c \in Jobs |-> IF ProcOf[c] = p THEN "idle" ELSE getting[c]]
=============================================================================
