------------------------- MODULE WorkerPoolManager -------------------------
(***************************************************************************)
(* WorkerPoolManager (internal/handler/worker_pool_manager.go): the map    *)
(* from URLs to worker pools behind a read-write lock, the requests that   *)
(* submit their jobs through it, and its Shutdown.                         *)
(*                                                                         *)
(* What a request does while it holds the lock waits for nothing, so it is *)
(* one step, taken when Shutdown does not hold the lock; Shutdown holds it *)
(* while it waits for the workers of one pool after another. A pool is its *)
(* number in order of creation and the length of its queue; BotWorkerPool  *)
(* is the detail.                                                          *)
(***************************************************************************)
EXTENDS Naturals, Sequences, FiniteSets

CONSTANTS
    Request,     \* calls of Submit
    Url,         \* URLs of webhooks
    NoUrl,       \* the empty string, which a list of URLs may hold
    QueueSize,   \* capacity of a pool's queue
    MaxPools     \* bound on the pools created, for model checking

ASSUME ManagerAssumption ==
    /\ NoUrl \notin Url
    /\ QueueSize \in Nat \ {0}
    /\ MaxPools \in Nat

Pool == 1..MaxPools

VARIABLES
    pools,     \* the map: pools[u] is the pool of u, 0 while there is none
    made,      \* how many pools CreatePool has made
    load,      \* load[p]: jobs waiting in the queue of pool p
    shut,      \* pools whose Shutdown has returned
    locked,    \* does Shutdown hold the write lock?
    kpc,       \* where Shutdown is
    mpc,       \* mpc[r]: where the call of Submit by r is
    urls,      \* urls[r]: its argument
    idx,       \* idx[r]: the position its loop is at
    held,      \* held[r]: the pool getOrCreatePool returned to it
    dropped,   \* dropped[r]: its local of that name, by position in urls[r]
    fate       \* history: what became of each position of urls[r] so far

poolVars == <<pools, made, load, shut>>
closeVars == <<locked, kpc>>
callVars == <<mpc, urls, idx, held, dropped, fate>>
managerVars == <<poolVars, closeVars, callVars>>

ManagerInit ==
    /\ pools = [u \in Url |-> 0] /\ made = 0
    /\ load = [p \in Pool |-> 0] /\ shut = {}
    /\ locked = FALSE /\ kpc = "open"
    /\ mpc = [r \in Request |-> "idle"]
    /\ urls = [r \in Request |-> <<>>]
    /\ idx = [r \in Request |-> 1]
    /\ held = [r \in Request |-> 0]
    /\ dropped = [r \in Request |-> <<>>]
    /\ fate = [r \in Request |-> <<>>]

Published == {pools[u] : u \in {v \in Url : pools[v] # 0}}
AtUrl(r) == urls[r][idx[r]]
InLoop(r) == mpc[r] = "loop" /\ idx[r] <= Len(urls[r])

-----------------------------------------------------------------------------
(* Submit *)

SubmitCall(r, list) ==
    /\ mpc[r] = "idle"
    /\ mpc' = [mpc EXCEPT ![r] = "loop"]
    /\ urls' = [urls EXCEPT ![r] = list]
    /\ UNCHANGED <<poolVars, closeVars, idx, held, dropped, fate>>

(* the position is dealt with: on to the next one *)
Settle(r, f) ==
    /\ fate' = [fate EXCEPT ![r] = Append(@, f)]
    /\ idx' = [idx EXCEPT ![r] = @ + 1]
    /\ held' = [held EXCEPT ![r] = 0]
    /\ mpc' = [mpc EXCEPT ![r] = "loop"]
    /\ urls' = urls

SkipEmpty(r) ==
    /\ InLoop(r) /\ AtUrl(r) = NoUrl
    /\ Settle(r, "skipped")
    /\ UNCHANGED <<poolVars, closeVars, dropped>>

Got(r, p) == /\ held' = [held EXCEPT ![r] = p]
             /\ mpc' = [mpc EXCEPT ![r] = "submit"]

(* getOrCreatePool under the read lock *)
LookUpPool(r) ==
    /\ InLoop(r) /\ AtUrl(r) # NoUrl
    /\ ~locked
    /\ IF pools[AtUrl(r)] # 0
       THEN Got(r, pools[AtUrl(r)])
       ELSE mpc' = [mpc EXCEPT ![r] = "create"] /\ held' = held
    /\ UNCHANGED <<poolVars, closeVars, urls, idx, dropped, fate>>

(* Mutant of CreatePool: no second lookup under the write lock. *)
CreateUnchecked(r) ==
    /\ mpc[r] = "create"
    /\ ~locked /\ made + 1 \in Pool
    /\ made' = made + 1
    /\ pools' = [pools EXCEPT ![AtUrl(r)] = made + 1]
    /\ Got(r, made + 1)
    /\ UNCHANGED <<load, shut, closeVars, urls, idx, dropped, fate>>

(* getOrCreatePool under the write lock: look again, create, publish *)
CreatePool(r) ==
    /\ mpc[r] = "create"
    /\ ~locked
    /\ IF pools[AtUrl(r)] # 0
       THEN Got(r, pools[AtUrl(r)]) /\ UNCHANGED <<pools, made>>
       ELSE /\ made + 1 \in Pool
            /\ made' = made + 1
            /\ pools' = [pools EXCEPT ![AtUrl(r)] = made + 1]
            /\ Got(r, made + 1)
    /\ UNCHANGED <<load, shut, closeVars, urls, idx, dropped, fate>>

(* pool.Submit accepts: nothing asks whether the pool has been shut down.  *)
PoolAccepts(r) ==
    /\ mpc[r] = "submit"
    /\ load[held[r]] < QueueSize
    /\ load' = [load EXCEPT ![held[r]] = @ + 1]
    /\ Settle(r, "accepted")
    /\ UNCHANGED <<pools, made, shut, closeVars, dropped>>

(* Mutant of PoolRejects: the URL is not appended to the dropped ones. *)
RejectSilently(r) ==
    /\ mpc[r] = "submit"
    /\ Settle(r, "dropped")
    /\ UNCHANGED <<poolVars, closeVars, dropped>>

(* pool.Submit rejects: the queue is full, or the request's time too short *)
PoolRejects(r) ==
    /\ mpc[r] = "submit"
    /\ dropped' = [dropped EXCEPT ![r] = Append(@, idx[r])]
    /\ Settle(r, "dropped")
    /\ UNCHANGED <<poolVars, closeVars>>

SubmitReturns(r) ==
    /\ mpc[r] = "loop" /\ idx[r] > Len(urls[r])
    /\ mpc' = [mpc EXCEPT ![r] = "returned"]
    /\ UNCHANGED <<poolVars, closeVars, urls, idx, held, dropped, fate>>

SubmitStep(r) ==
    \/ SkipEmpty(r) \/ LookUpPool(r) \/ CreatePool(r)
    \/ PoolAccepts(r) \/ PoolRejects(r) \/ SubmitReturns(r)

-----------------------------------------------------------------------------
(* The workers of a pool take a job; none of them is left once its         *)
(* Shutdown has returned.                                                  *)
Serve(p) ==
    /\ p \notin shut /\ load[p] > 0
    /\ load' = [load EXCEPT ![p] = @ - 1]
    /\ UNCHANGED <<pools, made, shut, closeVars, callVars>>

(* Mutant of TakeLock: the map is read without the write lock. *)
TakeNoLock ==
    /\ kpc = "open"
    /\ kpc' = "closing" /\ locked' = FALSE
    /\ UNCHANGED <<poolVars, callVars>>

(* Shutdown: take the lock, shut one pool after the other, release it.     *)
TakeLock ==
    /\ kpc = "open"
    /\ kpc' = "closing" /\ locked' = TRUE
    /\ UNCHANGED <<poolVars, callVars>>

(* pool.Shutdown() returns *)
ShutPool ==
    /\ kpc = "closing"
    /\ \E p \in Published \ shut : shut' = shut \cup {p}
    /\ UNCHANGED <<pools, made, load, closeVars, callVars>>

ReleaseLock ==
    /\ kpc = "closing"
    /\ Published \subseteq shut
    /\ kpc' = "closed" /\ locked' = FALSE
    /\ UNCHANGED <<poolVars, callVars>>

CloseStep == ShutPool \/ ReleaseLock

-----------------------------------------------------------------------------
(* Properties *)

ManagerTypeOK ==
    /\ pools \in [Url -> Pool \cup {0}] /\ made \in Nat
    /\ load \in [Pool -> 0..QueueSize] /\ shut \subseteq Pool
    /\ locked \in BOOLEAN /\ kpc \in {"open", "closing", "closed"}
    /\ mpc \in [Request -> {"idle", "loop", "create", "submit", "returned"}]
    /\ urls \in [Request -> Seq(Url \cup {NoUrl})]
    /\ idx \in [Request -> Nat] /\ held \in [Request -> Pool \cup {0}]
    /\ dropped \in [Request -> Seq(Nat)]
    /\ fate \in [Request -> Seq({"skipped", "accepted", "dropped"})]
    /\ \A r \in Request :
          /\ idx[r] = Len(fate[r]) + 1 /\ idx[r] <= Len(urls[r]) + 1
          /\ held[r] # 0 <=> mpc[r] = "submit"

(* Every pool ever created is the pool of exactly one URL: requests that   *)
(* race to create the first pool of a URL leave none behind whose workers  *)
(* nobody would ever shut down.                                            *)
NoOrphanPool ==
    /\ Published = 1..made
    /\ \A u, v \in Url : pools[u] = pools[v] /\ pools[u] # 0 => u = v

(* A request submits to the pool that is published for its URL, and goes   *)
(* on being so until it has submitted.                                     *)
SubmitsToPublished ==
    \A r \in Request : mpc[r] = "submit" => held[r] = pools[AtUrl(r)]

(* Requests that find no pool for a URL side by side end up with one: it   *)
(* is published, each of them submits to it, and none is left behind.      *)
OnePoolPerUrl == NoOrphanPool /\ SubmitsToPublished

(* A pool once published for a URL is never replaced by another, and none  *)
(* is created while Shutdown goes through the map: the ones it shuts are   *)
(* all there are when it releases the lock.                                *)
PoolsStay == [][/\ \A u \in Url : pools[u] # 0 => pools'[u] = pools[u]
                /\ kpc = "closing" => pools' = pools]_managerVars

IsDropped(r, i) == \E n \in 1..Len(dropped[r]) : dropped[r][n] = i

(* When Submit has returned, each URL of its list is with a pool or among  *)
(* the dropped ones it returns, in order, none twice and none forgotten.   *)
NoneForgotten ==
    \A r \in Request :
        /\ mpc[r] = "returned" => Len(fate[r]) = Len(urls[r])
        /\ \A m, n \in 1..Len(dropped[r]) :
              m < n => dropped[r][m] < dropped[r][n]
        /\ \A i \in 1..Len(fate[r]) :
              /\ fate[r][i] = "dropped" <=> IsDropped(r, i)
              /\ fate[r][i] \in (IF urls[r][i] = NoUrl THEN {"skipped"}
                                 ELSE {"accepted", "dropped"})
=============================================================================
