------------------------ MODULE ALBProcessor_proofs ------------------------
(***************************************************************************)
(* Proofs about ALBProcessor and the WorkerPoolManager it drives, for any  *)
(* requests, lists of URLs and sizes.                                      *)
(*                                                                         *)
(* The processor moves the manager only by the manager's own operations,   *)
(* so what concerns pools is proved of these (ManagerNext). The rest       *)
(* follows from where a request is: its loop over the URLs, then its loop  *)
(* over the dropped ones, each with what the positions behind it became.   *)
(***************************************************************************)
EXTENDS ALBProcessor, FiniteSetTheorems, TLAPS

Lists == {WebhookURLs, CloudWebhookURLs, EnterpriseWebhookURLs}

ManagerNext ==
    \/ \E r \in Request, list \in Lists : SubmitCall(r, list)
    \/ \E r \in Request : SubmitStep(r)
    \/ \E p \in Pool : Serve(p)
    \/ TakeLock
    \/ CloseStep

(* Whatever the processor does is an operation of the manager or does not  *)
(* concern it. *)
LEMMA OnlyOperations == [Next]_vars => [ManagerNext]_managerVars
<1> SUFFICES ASSUME [Next]_vars PROVE [ManagerNext]_managerVars
  OBVIOUS
<1>1. ASSUME NEW r \in Request, Process(r) PROVE [ManagerNext]_managerVars
  <2>1. CASE HealthCheck(r) \/ Submitted(r) \/ StartOverflow(r)
             \/ DropOverflow(r) \/ Answer(r)
    BY <2>1 DEF HealthCheck, Submitted, StartOverflow, DropOverflow, Answer
  <2>2. CASE Arrive(r)
    <3> PICK e \in Event : IF Select(e) = <<>> THEN UNCHANGED managerVars
                           ELSE SubmitCall(r, Select(e))
      BY <2>2 DEF Arrive
    <3>1. Select(e) \in Lists
      BY DEF Select, Lists
    <3> QED BY <3>1 DEF ManagerNext
  <2>3. CASE Submitting(r)
    BY <2>3 DEF Submitting, ManagerNext
  <2> QED BY <1>1, <2>1, <2>2, <2>3 DEF Process
<1>2. ASSUME NEW r \in Request, NEW i \in 1..Longest, OverflowStep(r, i)
      PROVE [ManagerNext]_managerVars
  BY <1>2 DEF OverflowStep, CountActive, CountInactive, ReleaseSlot,
              MoveOverflow
<1>3. CASE \E p \in Pool : ServeStep(p)
  BY <1>3 DEF ServeStep, ManagerNext
<1>4. CASE BeginShutdown \/ ShutPools
  BY <1>4 DEF BeginShutdown, ShutPools, ManagerNext
<1>5. CASE PoolsShut \/ ShutdownReturns
  BY <1>5 DEF PoolsShut, ShutdownReturns
<1>6. CASE Terminated \/ UNCHANGED vars
  BY <1>6 DEF Terminated, vars
<1> QED BY <1>1, <1>2, <1>3, <1>4, <1>5, <1>6 DEF Next

-----------------------------------------------------------------------------
(* The manager *)

(* A request that has not begun has dealt with nothing, one that looks for *)
(* a pool or has one is at a URL, and one that has returned is through.    *)
Located ==
    \A r \in Request :
        /\ mpc[r] = "idle" => fate[r] = <<>>
        /\ mpc[r] \in {"create", "submit"} =>
              idx[r] \in 1..Len(urls[r]) /\ AtUrl(r) \in Url
        /\ mpc[r] = "returned" => Len(fate[r]) = Len(urls[r])

Shape == /\ ManagerTypeOK
         /\ Located
         /\ kpc = "closing" => locked

LEMMA ListsAreLists == Lists \subseteq Seq(Url \cup {NoUrl})
BY ALBAssumption DEF Lists

LEMMA ShapeInit == Init => Shape
<1> SUFFICES ASSUME Init PROVE Shape
  OBVIOUS
<1> USE DEF Init, ManagerInit
<1>1. ManagerTypeOK
  <2>1. load \in [Pool -> 0..QueueSize] /\ Len(<<>>) = 0
    BY ManagerAssumption
  <2>2. /\ urls \in [Request -> Seq(Url \cup {NoUrl})]
        /\ dropped \in [Request -> Seq(Nat)]
        /\ fate \in [Request -> Seq({"skipped", "accepted", "dropped"})]
    OBVIOUS
  <2>3. ASSUME NEW r \in Request
        PROVE  /\ idx[r] = Len(fate[r]) + 1 /\ idx[r] <= Len(urls[r]) + 1
               /\ held[r] # 0 <=> mpc[r] = "submit"
    <3>1. fate[r] = <<>> /\ urls[r] = <<>> /\ idx[r] = 1
      OBVIOUS
    <3> QED BY <2>1, <3>1
  <2>4. /\ pools \in [Url -> Pool \cup {0}] /\ made \in Nat /\ shut \subseteq Pool
        /\ locked \in BOOLEAN /\ kpc \in {"open", "closing", "closed"}
        /\ mpc \in [Request -> {"idle", "loop", "create", "submit", "returned"}]
        /\ idx \in [Request -> Nat] /\ held \in [Request -> Pool \cup {0}]
    OBVIOUS
  <2> HIDE DEF Init, ManagerInit
  <2> QED BY <2>1, <2>2, <2>3, <2>4 DEF ManagerTypeOK
<1>2. Located /\ (kpc = "closing" => locked)
  BY DEF Located
<1> QED BY <1>1, <1>2 DEF Shape

(* a position is dealt with *)
LEMMA SettleKeepsShape ==
    ASSUME Shape, NEW r \in Request, idx[r] <= Len(urls[r]),
           NEW f \in {"skipped", "accepted", "dropped"}, Settle(r, f),
           dropped' \in [Request -> Seq(Nat)],
           load' \in [Pool -> 0..QueueSize], UNCHANGED <<pools, made, shut, closeVars>>
    PROVE  Shape'
<1> USE DEF Shape, ManagerTypeOK, Settle, closeVars
<1>1. fate' \in [Request -> Seq({"skipped", "accepted", "dropped"})]
  OBVIOUS
<1>2. Len(fate'[r]) = Len(fate[r]) + 1
  OBVIOUS
<1>3. ManagerTypeOK'
  <2>1. /\ idx' \in [Request -> Nat] /\ held' \in [Request -> Pool \cup {0}]
        /\ mpc' \in [Request -> {"idle", "loop", "create", "submit", "returned"}]
        /\ urls' = urls
    OBVIOUS
  <2>2. ASSUME NEW q \in Request
        PROVE  /\ idx'[q] = Len(fate'[q]) + 1 /\ idx'[q] <= Len(urls'[q]) + 1
               /\ held'[q] # 0 <=> mpc'[q] = "submit"
    <3>1. CASE q = r
      <4>1. /\ idx'[r] = idx[r] + 1 /\ held'[r] = 0 /\ mpc'[r] = "loop"
            /\ idx[r] = Len(fate[r]) + 1 /\ idx[r] \in Nat
        OBVIOUS
      <4> HIDE DEF ManagerTypeOK, Settle
      <4> QED BY <1>2, <2>1, <3>1, <4>1
    <3>2. CASE q # r
      <4>1. /\ idx'[q] = idx[q] /\ held'[q] = held[q] /\ mpc'[q] = mpc[q]
            /\ fate'[q] = fate[q]
        BY <3>2
      <4> HIDE DEF Settle
      <4> QED BY <2>1, <4>1
    <3> QED BY <3>1, <3>2
  <2>3. UNCHANGED <<pools, made, shut, locked, kpc>>
    OBVIOUS
  <2> HIDE DEF Settle
  <2> QED BY <1>1, <2>1, <2>2, <2>3
<1>4. Located'
  BY <1>2 DEF Located, AtUrl
<1> QED BY <1>3, <1>4

LEMMA ShapeNext == Shape /\ [ManagerNext]_managerVars => Shape'
<1> SUFFICES ASSUME Shape, [ManagerNext]_managerVars PROVE Shape'
  OBVIOUS
<1> USE DEF Shape
<1>1. ASSUME NEW r \in Request, NEW list \in Lists, SubmitCall(r, list)
      PROVE Shape'
  <2>1. list \in Seq(Url \cup {NoUrl}) /\ fate[r] = <<>>
    BY <1>1, ListsAreLists DEF SubmitCall, Located
  <2> USE <1>1, <2>1 DEF SubmitCall, poolVars, closeVars
  <2>2. ManagerTypeOK'
    BY DEF ManagerTypeOK
  <2>3. Located'
    BY DEF ManagerTypeOK, Located, AtUrl
  <2> QED BY <2>2, <2>3
<1>2. ASSUME NEW r \in Request, SubmitStep(r) PROVE Shape'
  <2>1. CASE SkipEmpty(r)
    BY <2>1, SettleKeepsShape DEF SkipEmpty, InLoop, poolVars, ManagerTypeOK
  <2>2. CASE PoolAccepts(r)
    <3>1. held[r] \in Pool /\ idx[r] <= Len(urls[r])
      BY <2>2 DEF PoolAccepts, ManagerTypeOK, Located
    <3>2. load' \in [Pool -> 0..QueueSize]
      BY <2>2, <3>1, ManagerAssumption DEF PoolAccepts, ManagerTypeOK
    <3> QED BY <2>2, <3>1, <3>2, SettleKeepsShape DEF PoolAccepts, ManagerTypeOK
  <2>3. CASE PoolRejects(r)
    <3>1. idx[r] <= Len(urls[r]) /\ dropped' \in [Request -> Seq(Nat)]
      BY <2>3 DEF PoolRejects, ManagerTypeOK, Located
    <3> QED BY <2>3, <3>1, SettleKeepsShape
            DEF PoolRejects, poolVars, ManagerTypeOK
  <2>4. CASE LookUpPool(r)
    <3> USE <2>4 DEF LookUpPool, InLoop, Got, poolVars, closeVars
    <3>1. idx[r] \in 1..Len(urls[r]) /\ AtUrl(r) \in Url
      BY DEF ManagerTypeOK, AtUrl
    <3>2. ManagerTypeOK'
      BY <3>1 DEF ManagerTypeOK
    <3>3. Located'
      BY <3>1 DEF ManagerTypeOK, Located, AtUrl
    <3> QED BY <3>2, <3>3
  <2>5. CASE CreatePool(r)
    <3> USE <2>5 DEF CreatePool, Got, closeVars
    <3>1. idx[r] \in 1..Len(urls[r]) /\ AtUrl(r) \in Url
      BY DEF Located
    <3>2. made + 1 \in Pool => made + 1 # 0
      BY DEF ManagerTypeOK
    <3>p. PICK p \in Pool \ {0} :
              /\ pools' = pools \/ pools' = [pools EXCEPT ![AtUrl(r)] = p]
              /\ made' \in Nat
              /\ held' = [held EXCEPT ![r] = p]
      BY <3>1, <3>2 DEF ManagerTypeOK
    <3>m. mpc' = [mpc EXCEPT ![r] = "submit"] /\ mpc[r] = "create"
      OBVIOUS
    <3>3. ManagerTypeOK'
      <4> HIDE DEF CreatePool, Got
      <4>1. UNCHANGED <<load, shut, locked, kpc, urls, idx, dropped, fate>>
        BY <2>5 DEF CreatePool
      <4> QED BY <3>1, <3>p, <3>m, <4>1 DEF ManagerTypeOK
    <3>4. Located'
      BY <3>1 DEF ManagerTypeOK, Located, AtUrl
    <3> QED BY <3>3, <3>4
  <2>6. CASE SubmitReturns(r)
    <3> USE <2>6 DEF SubmitReturns, poolVars, closeVars
    <3>1. ManagerTypeOK'
      BY DEF ManagerTypeOK
    <3>2. Located'
      BY DEF ManagerTypeOK, Located, AtUrl
    <3> QED BY <3>1, <3>2
  <2> QED BY <1>2, <2>1, <2>2, <2>3, <2>4, <2>5, <2>6 DEF SubmitStep
<1>3. ASSUME NEW p \in Pool, Serve(p) PROVE Shape'
  <2> USE <1>3 DEF Serve, closeVars, callVars
  <2>1. load' \in [Pool -> 0..QueueSize]
    BY ManagerAssumption DEF ManagerTypeOK
  <2> QED BY <2>1 DEF ManagerTypeOK, Located, AtUrl
<1>4. CASE TakeLock
  BY <1>4 DEF TakeLock, poolVars, callVars, ManagerTypeOK, Located, AtUrl
<1>5. CASE CloseStep
  <2>1. shut' \subseteq Pool
    BY <1>5 DEF CloseStep, ShutPool, ReleaseLock, poolVars, Published,
                ManagerTypeOK
  <2> QED BY <1>5, <2>1 DEF CloseStep, ShutPool, ReleaseLock, poolVars,
             closeVars, callVars, ManagerTypeOK, Located, AtUrl
<1>6. CASE UNCHANGED managerVars
  BY <1>6 DEF managerVars, poolVars, closeVars, callVars, ManagerTypeOK,
              Located, AtUrl
<1> QED BY <1>1, <1>2, <1>3, <1>4, <1>5, <1>6 DEF ManagerNext

LEMMA PoolsInit == Init => OnePoolPerUrl
BY DEF Init, ManagerInit, OnePoolPerUrl, NoOrphanPool, SubmitsToPublished,
       Published

LEMMA PoolsNext == Shape /\ OnePoolPerUrl /\ [ManagerNext]_managerVars
                      => OnePoolPerUrl'
<1> SUFFICES ASSUME Shape, OnePoolPerUrl, [ManagerNext]_managerVars
             PROVE  OnePoolPerUrl'
  OBVIOUS
<1> USE DEF OnePoolPerUrl
<1>t. /\ pools \in [Url -> Nat] /\ made \in Nat
      /\ mpc \in [Request -> {"idle", "loop", "create", "submit", "returned"}]
      /\ held \in [Request -> Nat]
  BY ManagerAssumption DEF Shape, ManagerTypeOK, Pool
<1>1. ASSUME UNCHANGED <<pools, made>>,
             \A r \in Request : mpc'[r] = "submit" =>
                /\ urls'[r] = urls[r] /\ idx'[r] = idx[r]
                /\ \/ mpc[r] = "submit" /\ held'[r] = held[r]
                   \/ held'[r] = pools[AtUrl(r)]
      PROVE  OnePoolPerUrl'
  BY <1>1 DEF NoOrphanPool, Published, SubmitsToPublished, AtUrl
<1>2. ASSUME NEW r \in Request, CreatePool(r) PROVE OnePoolPerUrl'
  <2> USE <1>t
  <2>1. CASE pools[AtUrl(r)] # 0
    BY <1>1, <1>2, <2>1 DEF CreatePool, Got
  <2>2. CASE pools[AtUrl(r)] = 0
    <3> DEFINE u == AtUrl(r)
    <3>1. /\ u \in Url /\ made' = made + 1
          /\ pools' = [pools EXCEPT ![u] = made + 1]
          /\ held' = [held EXCEPT ![r] = made + 1]
          /\ mpc' = [mpc EXCEPT ![r] = "submit"]
          /\ UNCHANGED <<urls, idx>>
      BY <1>2, <2>2 DEF CreatePool, Got, Shape, Located
    <3>2. \A v \in Url : pools[v] # 0 => pools[v] \in 1..made
      BY DEF NoOrphanPool, Published
    <3>3. Published' = Published \cup {made + 1}
      <4>1. \A v \in Url : pools'[v] = IF v = u THEN made + 1 ELSE pools[v]
        BY <3>1
      <4> QED BY <4>1, <3>1, <2>2 DEF Published
    <3>4. NoOrphanPool'
      BY <3>1, <3>2, <3>3 DEF NoOrphanPool
    <3>5. ASSUME NEW q \in Request, mpc'[q] = "submit"
          PROVE  held'[q] = pools'[AtUrl(q)']
      <4>1. CASE q = r
        BY <3>1, <4>1 DEF AtUrl
      <4>2. CASE q # r
        <5>1. AtUrl(q)' = AtUrl(q) /\ AtUrl(q) \in Url
          BY <3>1, <3>5, <4>2 DEF AtUrl, Shape, Located
        <5>2. held[q] = pools[AtUrl(q)] /\ held[q] # 0
          BY <3>1, <3>5, <4>2 DEF SubmitsToPublished, Shape, ManagerTypeOK
        <5> QED BY <3>1, <4>2, <5>1, <5>2, <2>2
      <4> QED BY <4>1, <4>2
    <3> QED BY <3>4, <3>5 DEF SubmitsToPublished
  <2> QED BY <2>1, <2>2
<1>3. ASSUME NEW r \in Request, SubmitStep(r) PROVE OnePoolPerUrl'
  <2>1. CASE SkipEmpty(r) \/ PoolAccepts(r) \/ PoolRejects(r)
    <3>1. /\ UNCHANGED <<pools, made, urls>>
          /\ mpc' = [mpc EXCEPT ![r] = "loop"]
          /\ idx' = [idx EXCEPT ![r] = @ + 1]
          /\ held' = [held EXCEPT ![r] = 0]
      BY <2>1 DEF SkipEmpty, PoolAccepts, PoolRejects, Settle, poolVars
    <3> QED BY <1>1, <1>t, <3>1
  <2>2. CASE LookUpPool(r)
    BY <1>1, <1>t, <2>2 DEF LookUpPool, Got, poolVars
  <2>3. CASE SubmitReturns(r)
    BY <1>1, <1>t, <2>3 DEF SubmitReturns, poolVars
  <2> QED BY <1>2, <1>3, <2>1, <2>2, <2>3 DEF SubmitStep
<1>4. ASSUME NEW r \in Request, NEW list \in Lists, SubmitCall(r, list)
      PROVE OnePoolPerUrl'
  BY <1>1, <1>t, <1>4 DEF SubmitCall, poolVars
<1>5. CASE (\E p \in Pool : Serve(p)) \/ TakeLock \/ CloseStep
  BY <1>1, <1>5 DEF Serve, TakeLock, CloseStep, ShutPool, ReleaseLock,
                    poolVars, callVars
<1>6. CASE UNCHANGED managerVars
  BY <1>1, <1>6 DEF managerVars, poolVars, callVars
<1> QED BY <1>3, <1>4, <1>5, <1>6 DEF ManagerNext

(* What the operations of the manager keep, whoever calls them. *)
THEOREM ManagerInvariant == Spec => [](Shape /\ OnePoolPerUrl)
<1>1. Init => Shape /\ OnePoolPerUrl
  BY ShapeInit, PoolsInit
<1>2. Shape /\ OnePoolPerUrl /\ [Next]_vars => (Shape /\ OnePoolPerUrl)'
  BY OnlyOperations, ShapeNext, PoolsNext
<1> QED BY <1>1, <1>2, PTL DEF Spec

(* Requests that race to create the first pool of a URL end up with one,   *)
(* whatever their number. *)
THEOREM OnePool == Spec => []OnePoolPerUrl
BY ManagerInvariant, PTL

(* A pool is never replaced, and none is created during Shutdown: it       *)
(* holds the lock from its first step to its last. *)
THEOREM StayingPools == Spec => PoolsStay
<1> DEFINE Stay == /\ \A u \in Url : pools[u] # 0 => pools'[u] = pools[u]
                   /\ kpc = "closing" => pools' = pools
<1>1. ASSUME Shape, [ManagerNext]_managerVars PROVE [Stay]_managerVars
  <2>1. ASSUME NEW r \in Request, SubmitStep(r) PROVE Stay
    <3>1. CASE CreatePool(r)
      BY <1>1, <3>1 DEF CreatePool, Shape, ManagerTypeOK
    <3> QED BY <2>1, <3>1 DEF SubmitStep, SkipEmpty, PoolAccepts, PoolRejects,
                              LookUpPool, SubmitReturns, poolVars
  <2>2. CASE \E r \in Request, list \in Lists : SubmitCall(r, list)
    BY <2>2 DEF SubmitCall, poolVars
  <2>3. CASE (\E p \in Pool : Serve(p)) \/ TakeLock \/ CloseStep
    BY <2>3 DEF Serve, TakeLock, CloseStep, ShutPool, ReleaseLock, poolVars
  <2> QED BY <1>1, <2>1, <2>2, <2>3 DEF ManagerNext
<1>2. Shape /\ [Next]_vars => [Stay]_managerVars
  BY <1>1, OnlyOperations
<1> QED BY <1>2, ManagerInvariant, PTL DEF Spec, PoolsStay

-----------------------------------------------------------------------------
(* What Submit returns *)

(* the dropped positions of r: in order, of those behind, and the ones     *)
(* whose fate it was *)
Fates(r) ==
    /\ Len(dropped[r]) <= Len(fate[r])
    /\ \A n \in 1..Len(dropped[r]) : dropped[r][n] \in 1..Len(fate[r])
    /\ \A m, n \in 1..Len(dropped[r]) : m < n => dropped[r][m] < dropped[r][n]
    /\ \A i \in 1..Len(fate[r]) :
          /\ fate[r][i] = "dropped" <=> IsDropped(r, i)
          /\ fate[r][i] \in (IF urls[r][i] = NoUrl THEN {"skipped"}
                             ELSE {"accepted", "dropped"})

AllFates == \A r \in Request : Fates(r)

LEMMA FatesSuffice == Located /\ AllFates => NoneForgotten
BY DEF Located, AllFates, Fates, NoneForgotten

LEMMA FatesInit == Init => AllFates
<1> SUFFICES ASSUME Init, NEW r \in Request PROVE Fates(r)
  BY DEF AllFates
<1>1. fate[r] = <<>> /\ dropped[r] = <<>>
  BY DEF Init, ManagerInit
<1> QED BY <1>1 DEF Fates

(* a position that is not dropped is dealt with *)
LEMMA KeptOne ==
    ASSUME Shape, AllFates, NEW r \in Request, NEW f \in {"skipped", "accepted"},
           idx[r] <= Len(urls[r]), Settle(r, f), UNCHANGED dropped,
           f = IF AtUrl(r) = NoUrl THEN "skipped" ELSE "accepted"
    PROVE  Fates(r)'
<1> DEFINE n == Len(fate[r])
<1>1. /\ fate[r] \in Seq({"skipped", "accepted", "dropped"}) /\ n \in Nat
      /\ fate'[r] = Append(fate[r], f) /\ idx[r] = n + 1
      /\ urls'[r] = urls[r] /\ dropped'[r] = dropped[r]
      /\ dropped[r] \in Seq(Nat)
  BY DEF Shape, ManagerTypeOK, Settle
<1>2. /\ Len(fate'[r]) = n + 1 /\ fate'[r][n + 1] = f
      /\ \A i \in 1..n : fate'[r][i] = fate[r][i]
  BY <1>1
<1>3. \A i : IsDropped(r, i)' <=> IsDropped(r, i)
  BY <1>1 DEF IsDropped
<1>4. ~IsDropped(r, n + 1)
  BY <1>1 DEF AllFates, Fates, IsDropped
<1>5. urls[r][n + 1] = AtUrl(r)
  BY <1>1 DEF AtUrl
<1>6. \A i \in 1..Len(fate'[r]) : i \in 1..n \/ i = n + 1
  BY <1>1, <1>2
<1>7. /\ Len(dropped'[r]) <= Len(fate'[r])
      /\ \A m \in 1..Len(dropped'[r]) : dropped'[r][m] \in 1..Len(fate'[r])
      /\ \A m, q \in 1..Len(dropped'[r]) :
            m < q => dropped'[r][m] < dropped'[r][q]
  BY <1>1, <1>2 DEF AllFates, Fates
<1>8. ASSUME NEW i \in 1..Len(fate'[r])
      PROVE  /\ fate'[r][i] = "dropped" <=> IsDropped(r, i)'
             /\ fate'[r][i] \in (IF urls'[r][i] = NoUrl THEN {"skipped"}
                                 ELSE {"accepted", "dropped"})
  <2>1. CASE i \in 1..n
    BY <1>1, <1>2, <1>3, <2>1 DEF AllFates, Fates
  <2>2. CASE i = n + 1
    BY <1>1, <1>2, <1>3, <1>4, <1>5, <2>2
  <2> QED BY <1>6, <2>1, <2>2
<1> QED BY <1>7, <1>8 DEF Fates

(* a position is dropped *)
LEMMA DroppedOne ==
    ASSUME Shape, AllFates, NEW r \in Request, PoolRejects(r)
    PROVE  Fates(r)'
<1> DEFINE n == Len(fate[r])
           d == Len(dropped[r])
<1>1. /\ fate[r] \in Seq({"skipped", "accepted", "dropped"}) /\ n \in Nat
      /\ fate'[r] = Append(fate[r], "dropped") /\ idx[r] = n + 1
      /\ dropped'[r] = Append(dropped[r], n + 1) /\ dropped[r] \in Seq(Nat)
      /\ d \in Nat /\ urls'[r] = urls[r]
  BY DEF Shape, ManagerTypeOK, PoolRejects, Settle
<1>2. /\ Len(fate'[r]) = n + 1 /\ fate'[r][n + 1] = "dropped"
      /\ \A i \in 1..n : fate'[r][i] = fate[r][i]
  BY <1>1
<1>3. /\ Len(dropped'[r]) = d + 1 /\ dropped'[r][d + 1] = n + 1
      /\ \A m \in 1..d : dropped'[r][m] = dropped[r][m]
  BY <1>1
<1>4. /\ d <= n /\ \A m \in 1..d : dropped[r][m] \in 1..n
      /\ \A m, q \in 1..d : m < q => dropped[r][m] < dropped[r][q]
  BY DEF AllFates, Fates
<1>5. \A m \in 1..d + 1 : m \in 1..d \/ m = d + 1
  BY <1>1
<1>6. urls[r][n + 1] # NoUrl
  BY <1>1, ManagerAssumption DEF PoolRejects, Shape, Located, AtUrl
<1>n. n \in Nat /\ d \in Nat
  BY <1>1
<1>7. /\ d + 1 <= n + 1
      /\ \A m \in 1..d + 1 : dropped'[r][m] \in 1..n + 1
      /\ \A m, q \in 1..d + 1 : m < q => dropped'[r][m] < dropped'[r][q]
  <2> HIDE DEF n, d
  <2>1. \A m \in 1..d + 1 : dropped'[r][m] \in 1..n + 1
    BY <1>n, <1>3, <1>4, <1>5
  <2>2. ASSUME NEW m \in 1..d + 1, NEW q \in 1..d + 1, m < q
        PROVE  dropped'[r][m] < dropped'[r][q]
    <3>1. m \in 1..d
      BY <1>n, <2>2
    <3>2. CASE q \in 1..d
      BY <1>3, <1>4, <2>2, <3>1, <3>2
    <3>3. CASE q = d + 1
      BY <1>n, <1>3, <1>4, <3>1, <3>3
    <3> QED BY <1>5, <3>2, <3>3
  <2> QED BY <1>n, <1>4, <2>1, <2>2
<1>8. ASSUME NEW i \in 1..n + 1
      PROVE  /\ fate'[r][i] = "dropped" <=> IsDropped(r, i)'
             /\ fate'[r][i] \in (IF urls'[r][i] = NoUrl THEN {"skipped"}
                                 ELSE {"accepted", "dropped"})
  <2>1. CASE i \in 1..n
    <3>1. IsDropped(r, i)' <=> IsDropped(r, i)
      <4> HIDE DEF n
      <4>1. ASSUME NEW m \in 1..d, dropped[r][m] = i PROVE IsDropped(r, i)'
        <5>1. m \in 1..d + 1
          BY <1>n
        <5> QED BY <1>3, <4>1, <5>1 DEF IsDropped
      <4>2. ASSUME NEW m \in 1..d + 1, dropped'[r][m] = i
            PROVE  IsDropped(r, i)
        <5>1. m # d + 1
          BY <1>n, <1>3, <2>1, <4>2
        <5> QED BY <1>3, <1>5, <4>2, <5>1 DEF IsDropped
      <4> QED BY <1>3, <4>1, <4>2 DEF IsDropped
    <3> QED BY <1>1, <1>2, <2>1, <3>1 DEF AllFates, Fates
  <2>2. CASE i = n + 1
    <3>1. IsDropped(r, i)'
      <4>1. d + 1 \in 1..Len(dropped'[r]) /\ dropped'[r][d + 1] = i
        BY <1>n, <1>3, <2>2
      <4> QED BY <4>1 DEF IsDropped
    <3> QED BY <1>1, <1>2, <1>6, <2>2, <3>1
  <2> QED BY <1>1, <2>1, <2>2
<1> HIDE DEF n, d
<1> QED BY <1>2, <1>3, <1>7, <1>8 DEF Fates

LEMMA FatesNext == Shape /\ AllFates /\ [ManagerNext]_managerVars => AllFates'
<1> SUFFICES ASSUME Shape, AllFates, [ManagerNext]_managerVars,
                    NEW r \in Request
             PROVE  Fates(r)'
  BY DEF AllFates
<1>1. ASSUME fate'[r] = fate[r], dropped'[r] = dropped[r],
             urls'[r] = urls[r] \/ fate[r] = <<>>
      PROVE Fates(r)'
  BY <1>1 DEF AllFates, Fates, IsDropped
<1>2. ASSUME NEW q \in Request, SubmitStep(q) PROVE Fates(r)'
  <2>t. /\ fate \in [Request -> Seq({"skipped", "accepted", "dropped"})]
        /\ dropped \in [Request -> Seq(Nat)]
    BY DEF Shape, ManagerTypeOK
  <2>1. CASE SkipEmpty(q) /\ q = r
    BY <2>1, KeptOne DEF SkipEmpty, InLoop
  <2>2. CASE PoolAccepts(q) /\ q = r
    <3>1. idx[r] <= Len(urls[r]) /\ AtUrl(r) # NoUrl
      BY <2>2, ManagerAssumption DEF PoolAccepts, Shape, Located, ManagerTypeOK
    <3> QED BY <2>2, <3>1, KeptOne DEF PoolAccepts
  <2>3. CASE PoolRejects(q) /\ q = r
    BY <2>3, DroppedOne
  <2>4. CASE q # r /\ (SkipEmpty(q) \/ PoolAccepts(q) \/ PoolRejects(q))
    <3>1. fate'[r] = fate[r] /\ dropped'[r] = dropped[r] /\ urls'[r] = urls[r]
      BY <2>t, <2>4 DEF SkipEmpty, PoolAccepts, PoolRejects, Settle
    <3> QED BY <1>1, <3>1
  <2>5. CASE LookUpPool(q) \/ CreatePool(q) \/ SubmitReturns(q)
    BY <1>1, <2>5 DEF LookUpPool, CreatePool, SubmitReturns
  <2> QED BY <1>2, <2>1, <2>2, <2>3, <2>4, <2>5 DEF SubmitStep
<1>3. ASSUME NEW q \in Request, NEW list \in Lists, SubmitCall(q, list)
      PROVE Fates(r)'
  <2>1. q = r => fate[r] = <<>>
    BY <1>3 DEF SubmitCall, Shape, Located
  <2>2. q # r => urls'[r] = urls[r]
    BY <1>3 DEF SubmitCall, Shape, ManagerTypeOK
  <2> QED BY <1>1, <1>3, <2>1, <2>2 DEF SubmitCall
<1>4. CASE (\E p \in Pool : Serve(p)) \/ TakeLock \/ CloseStep
           \/ UNCHANGED managerVars
  BY <1>1, <1>4 DEF Serve, TakeLock, CloseStep, ShutPool, ReleaseLock,
                    callVars, managerVars
<1> QED BY <1>2, <1>3, <1>4 DEF ManagerNext

-----------------------------------------------------------------------------
(* The processor *)

LEMMA LongestIsLongest ==
    /\ Longest \in Nat
    /\ \A list \in Lists : Len(list) <= Longest
    /\ Longest \in {Len(list) : list \in Lists}
<1> DEFINE a == Len(WebhookURLs)
           b == Len(CloudWebhookURLs)
           c == Len(EnterpriseWebhookURLs)
           IsLongest(n) == n \in {a, b, c} /\ \A m \in {a, b, c} : n >= m
<1>1. a \in Nat /\ b \in Nat /\ c \in Nat
  BY ALBAssumption
<1>2. IsLongest(a) \/ IsLongest(b) \/ IsLongest(c)
  <2> HIDE DEF a, b, c
  <2> QED BY <1>1
<1>3. IsLongest(Longest)
  <2>1. Longest = CHOOSE n \in {a, b, c} : \A m \in {a, b, c} : n >= m
    BY DEF Longest
  <2>2. \E n \in {a, b, c} : \A m \in {a, b, c} : n >= m
    BY <1>2
  <2> HIDE DEF a, b, c
  <2> QED BY <2>1, <2>2
<1> QED BY <1>1, <1>3 DEF Lists

LEMMA Selected ==
    ASSUME NEW e \in Event
    PROVE  Select(e) \in Lists /\ (Select(e) = <<>> => Longest = 0)
<1>1. Select(e) \in Lists
  BY DEF Select, Lists
<1>2. ASSUME Select(e) = <<>> PROVE Longest = 0
  <2>1. \A list \in Lists : list = <<>>
    BY <1>2 DEF Select, Lists
  <2>2. PICK list \in Lists : Longest = Len(list)
    BY LongestIsLongest
  <2> QED BY <2>1, <2>2
<1> QED BY <1>1, <1>2

Status == {"none", "spawned", "forwarding", "releasing", "done"}

(* the part of TypeOK that is not the manager's *)
Types ==
    /\ ppc \in [Request -> {"new", "submitting", "dropping"} \cup Responded]
    /\ opc \in [Request -> [1..Longest -> Status]]
    /\ k \in [Request -> Nat \ {0}]
    /\ \A r \in Request : k[r] <= Len(dropped[r]) + 1
    /\ overflowDropped \in Nat
    /\ apc \in {"open", "pools", "timer", "completed", "timedOut"}

(* Where Process is and where Submit is fit together, and a goroutine was  *)
(* started only for a dropped URL that the loop has passed.                *)
Placed ==
    \A r \in Request :
        /\ Len(urls[r]) <= Longest
        /\ ppc[r] = "new" => mpc[r] = "idle"
        /\ ppc[r] \in {"new", "submitting"} => k[r] = 1
        /\ ppc[r] = "dropping" => mpc[r] = "returned"
        /\ ppc[r] = "accepted" => /\ k[r] = Len(dropped[r]) + 1
                                  /\ Longest > 0 => mpc[r] = "returned"
        /\ \A i \in Started(r) :
              \E n \in 1..Len(dropped[r]) : n < k[r] /\ dropped[r][n] = i

(* the counters, with the finiteness that makes their sums meaningful *)
Counted ==
    /\ IsFiniteSet(Overflowing) /\ IsFiniteSet(GivenUp)
    /\ overflowSem = Cardinality(Overflowing) /\ overflowSem <= MaxOverflow
    /\ overflowActive = Cardinality(Forwarding)
    /\ overflowDropped = Cardinality(GivenUp)

AInv == Shape /\ AllFates /\ Types /\ Placed /\ Counted

LEMMA AInvInit == Init => AInv
<1> SUFFICES ASSUME Init PROVE Types /\ Placed /\ Counted
  BY ShapeInit, FatesInit DEF AInv
<1>1. \A r \in Request : urls[r] = <<>> /\ dropped[r] = <<>>
                         /\ k[r] = 1 /\ ppc[r] = "new" /\ mpc[r] = "idle"
  BY DEF Init, ManagerInit
<1>2. \A r \in Request : \A i \in 1..Longest : opc[r][i] = "none"
  BY DEF Init
<1>3. Types
  BY <1>1, LongestIsLongest DEF Init, Types, Status
<1>4. Placed
  BY <1>1, <1>2, LongestIsLongest DEF Placed, Started
<1>5. Overflowing = {} /\ Forwarding = {}
  BY <1>2 DEF Overflowing, Forwarding
<1>6. GivenUp = {}
  BY <1>1 DEF GivenUp
<1>7. Counted
  BY <1>5, <1>6, FS_EmptySet, ALBAssumption DEF Init, Counted
<1> QED BY <1>3, <1>4, <1>7

(* steps that start no goroutine, end none and pass no dropped URL *)
LEMMA CountsUnmoved ==
    ASSUME AInv,
           UNCHANGED <<k, opc, overflowSem, overflowActive, overflowDropped>>,
           \A r \in Request : dropped'[r] = dropped[r] \/ k[r] = 1
    PROVE  Counted'
<1>1. UNCHANGED Overflowing /\ UNCHANGED Forwarding
      /\ \A r \in Request : UNCHANGED Started(r)
  BY DEF Overflowing, Forwarding, Started
<1>2. \A p \in Request \X (1..Longest) :
         p[2] < k[p[1]] => k[p[1]] # 1 /\ dropped'[p[1]] = dropped[p[1]]
  BY LongestIsLongest
<1>3. GivenUp' = GivenUp
  BY <1>1, <1>2 DEF GivenUp
<1> QED BY <1>1, <1>3 DEF AInv, Counted

(* steps that are the manager's, or move ppc or apc only *)
LEMMA PlacesFollow ==
    ASSUME AInv, AllFates', Shape', UNCHANGED <<k, opc>>,
           ppc' \in [Request -> {"new", "submitting", "dropping"} \cup Responded],
           overflowDropped' \in Nat,
           apc' \in {"open", "pools", "timer", "completed", "timedOut"},
           \A r \in Request : dropped'[r] = dropped[r] \/ k[r] = 1,
           \A r \in Request :
              \/ UNCHANGED <<urls[r], mpc[r], ppc[r], dropped[r]>>
              \/ /\ Len(urls'[r]) <= Longest
                 /\ ppc'[r] = "new" => mpc'[r] = "idle"
                 /\ ppc'[r] \in {"new", "submitting"} => k[r] = 1
                 /\ ppc'[r] = "dropping" => mpc'[r] = "returned"
                 /\ ppc'[r] = "accepted" =>
                       /\ k[r] = Len(dropped'[r]) + 1
                       /\ Longest > 0 => mpc'[r] = "returned"
    PROVE  Types' /\ Placed'
<1>1. \A r \in Request : dropped[r] \in Seq(Nat) /\ dropped'[r] \in Seq(Nat)
                         /\ k[r] \in Nat \ {0}
  BY DEF AInv, Shape, ManagerTypeOK, Types
<1>2. Types'
  BY <1>1 DEF AInv, Types
<1>3. ASSUME NEW r \in Request, NEW i \in Started(r)'
      PROVE  \E n \in 1..Len(dropped'[r]) : n < k'[r] /\ dropped'[r][n] = i
  <2>1. i \in Started(r)
    BY <1>3 DEF Started
  <2>2. PICK n \in 1..Len(dropped[r]) : n < k[r] /\ dropped[r][n] = i
    BY <2>1 DEF AInv, Placed
  <2> QED BY <1>1, <2>2
<1>4. Placed'
  BY <1>3 DEF AInv, Placed
<1> QED BY <1>2, <1>4

(* The first loop over the URLs: Process up to the return of Submit. *)
LEMMA SubmittingKeeps ==
    ASSUME AInv, AllFates', Shape', NEW r \in Request,
           \/ HealthCheck(r) \/ Arrive(r) \/ Submitting(r) \/ Submitted(r)
           \/ Answer(r)
    PROVE  Types' /\ Placed' /\ Counted'
<1>t. /\ ppc \in [Request -> {"new", "submitting", "dropping"} \cup Responded]
      /\ mpc \in [Request -> {"idle", "loop", "create", "submit", "returned"}]
      /\ urls \in [Request -> Seq(Url \cup {NoUrl})]
      /\ dropped \in [Request -> Seq(Nat)]
      /\ k \in [Request -> Nat \ {0}] /\ k[r] <= Len(dropped[r]) + 1
      /\ overflowDropped \in Nat
      /\ apc \in {"open", "pools", "timer", "completed", "timedOut"}
  BY DEF AInv, Types, Shape, ManagerTypeOK
<1>p. /\ Len(urls[r]) <= Longest
      /\ ppc[r] = "new" => mpc[r] = "idle"
      /\ ppc[r] \in {"new", "submitting"} => k[r] = 1
      /\ ppc[r] = "dropping" => mpc[r] = "returned"
      /\ mpc[r] = "idle" => dropped[r] = <<>>
  <2>1. mpc[r] = "idle" => Len(dropped[r]) <= 0
    BY DEF AInv, AllFates, Fates, Shape, Located
  <2>2. mpc[r] = "idle" => dropped[r] = <<>>
    BY <1>t, <2>1
  <2> QED BY <2>2 DEF AInv, Placed
<1>1. CASE HealthCheck(r) \/ Submitted(r) \/ Answer(r)
  <2>1. /\ UNCHANGED <<managerVars, k, opc, overflowSem, overflowActive,
                       overflowDropped, apc>>
        /\ \E to \in {"healthy", "dropping", "accepted"} :
              /\ ppc' = [ppc EXCEPT ![r] = to]
              /\ to = "dropping" => mpc[r] = "returned"
              /\ to = "accepted" => /\ k[r] = Len(dropped[r]) + 1
                                    /\ mpc[r] = "returned"
    <3>1. CASE HealthCheck(r)
      BY <3>1 DEF HealthCheck, Respond
    <3>2. CASE Submitted(r)
      BY <3>2 DEF Submitted
    <3>3. CASE Answer(r)
      <4>1. k[r] = Len(dropped[r]) + 1
        BY <1>t, <3>3 DEF Answer
      <4> QED BY <1>p, <3>3, <4>1 DEF Answer, Respond
    <3> QED BY <1>1, <3>1, <3>2, <3>3
  <2>2. UNCHANGED <<urls, mpc, dropped>>
    BY <2>1 DEF managerVars, callVars
  <2>3. Types' /\ Placed'
    BY <1>t, <1>p, <2>1, <2>2, PlacesFollow DEF Responded
  <2> QED BY <2>1, <2>2, <2>3, CountsUnmoved
<1>2. CASE Arrive(r)
  <2> PICK e \in Event :
          IF Select(e) = <<>>
          THEN Respond(r, "accepted") /\ UNCHANGED managerVars
          ELSE /\ ppc' = [ppc EXCEPT ![r] = "submitting"]
               /\ SubmitCall(r, Select(e))
    BY <1>2 DEF Arrive
  <2>1. /\ UNCHANGED <<k, opc, overflowSem, overflowActive, overflowDropped,
                       apc>>
        /\ ppc[r] = "new"
    BY <1>2 DEF Arrive
  <2>2. CASE Select(e) = <<>>
    <3>1. Longest = 0
      BY <2>2, Selected
    <3>2. UNCHANGED <<urls, mpc, dropped>> /\ ppc' = [ppc EXCEPT ![r] = "accepted"]
      BY <2>2 DEF Respond, managerVars, callVars
    <3>3. k[r] = Len(dropped[r]) + 1
      BY <1>p, <2>1
    <3>4. Types' /\ Placed'
      BY <1>t, <1>p, <2>1, <3>1, <3>2, <3>3, PlacesFollow DEF Responded
    <3> QED BY <2>1, <3>2, <3>4, CountsUnmoved
  <2>3. CASE Select(e) # <<>>
    <3>1. /\ ppc' = [ppc EXCEPT ![r] = "submitting"]
          /\ mpc' = [mpc EXCEPT ![r] = "loop"]
          /\ urls' = [urls EXCEPT ![r] = Select(e)]
          /\ dropped' = dropped
      BY <2>3 DEF SubmitCall
    <3>2. Len(Select(e)) <= Longest
      BY Selected, LongestIsLongest
    <3>3. Types' /\ Placed'
      BY <1>t, <1>p, <2>1, <3>1, <3>2, PlacesFollow
    <3> QED BY <2>1, <3>1, <3>3, CountsUnmoved
  <2> QED BY <2>2, <2>3
<1>3. CASE Submitting(r)
  <2>1. /\ UNCHANGED <<ppc, k, opc, overflowSem, overflowActive,
                       overflowDropped, apc>>
        /\ ppc[r] = "submitting" /\ k[r] = 1
    BY <1>3, <1>p DEF Submitting, albVars
  <2>2. /\ urls' = urls
        /\ \A q \in Request : q # r => /\ mpc'[q] = mpc[q]
                                       /\ dropped'[q] = dropped[q]
    <3>1. SubmitStep(r)
      BY <1>3 DEF Submitting
    <3> QED BY <1>t, <3>1 DEF SubmitStep, SkipEmpty, LookUpPool, CreatePool,
               PoolAccepts, PoolRejects, SubmitReturns, Settle, Got
  <2>3. Types' /\ Placed'
    BY <1>t, <1>p, <2>1, <2>2, PlacesFollow
  <2> QED BY <2>1, <2>2, <2>3, CountsUnmoved
<1> QED BY <1>1, <1>2, <1>3

(* the steps of the pools and of Shutdown *)
Others == \/ \E p \in Pool : ServeStep(p)
          \/ BeginShutdown \/ ShutPools \/ PoolsShut \/ ShutdownReturns
          \/ Terminated \/ UNCHANGED vars

LEMMA OthersKeep ==
    ASSUME AInv, AllFates', Shape', Others
    PROVE  Types' /\ Placed' /\ Counted'
<1>1. /\ UNCHANGED <<callVars, ppc, k, opc, overflowSem, overflowActive,
                     overflowDropped>>
      /\ apc' \in {"open", "pools", "timer", "completed", "timedOut"}
  BY DEF Others, AInv, Types, ServeStep, Serve, BeginShutdown, TakeLock, ShutPools,
         CloseStep, ShutPool, ReleaseLock, PoolsShut, ShutdownReturns,
         Terminated, vars, albVars, managerVars
<1>2. UNCHANGED <<urls, mpc, dropped>>
  BY <1>1 DEF callVars
<1>3. Types' /\ Placed'
  BY <1>1, <1>2, PlacesFollow DEF AInv, Types
<1> QED BY <1>1, <1>2, <1>3, CountsUnmoved

(* The second loop: a goroutine for the next dropped URL. *)
LEMMA StartKeeps ==
    ASSUME AInv, NEW r \in Request, StartOverflow(r)
    PROVE  Types' /\ Placed' /\ Counted'
<1> DEFINE n == k[r]
           i == dropped[r][n]
<1>1. /\ UNCHANGED <<urls, mpc, dropped, ppc, fate, overflowActive,
                     overflowDropped, apc>>
      /\ ppc[r] = "dropping" /\ overflowSem < MaxOverflow
      /\ overflowSem' = overflowSem + 1
      /\ opc' = [opc EXCEPT ![r][i] = "spawned"]
      /\ k' = [k EXCEPT ![r] = n + 1]
  BY DEF StartOverflow, Dropping, managerVars, callVars
<1>2. /\ n \in 1..Len(dropped[r]) /\ n \in Nat /\ Len(dropped[r]) \in Nat
      /\ \A q \in Request : k[q] \in Nat /\ k[q] <= Len(dropped[q]) + 1
      /\ k \in [Request -> Nat \ {0}]
  BY DEF StartOverflow, Dropping, AInv, Types, Shape, ManagerTypeOK
<1>3. i \in 1..Longest
  <2>1. i \in 1..Len(fate[r]) /\ Len(fate[r]) <= Len(urls[r])
        /\ Len(urls[r]) \in Nat /\ Len(fate[r]) \in Nat
    BY <1>2 DEF AInv, AllFates, Fates, Shape, ManagerTypeOK
  <2>2. Len(urls[r]) <= Longest
    BY DEF AInv, Placed
  <2> QED BY <2>1, <2>2, LongestIsLongest
<1>4. \A m \in 1..Len(dropped[r]) : m < n => dropped[r][m] # i
  <2>1. \A m \in 1..Len(dropped[r]) :
           m < n => dropped[r][m] < i /\ dropped[r][m] \in Nat /\ i \in Nat
    BY <1>2, <1>3 DEF AInv, AllFates, Fates, Shape, ManagerTypeOK
  <2> QED BY <2>1
<1>5. opc[r][i] = "none"
  <2>1. i \notin Started(r)
    BY <1>4 DEF AInv, Placed
  <2> QED BY <1>3, <2>1 DEF Started
<1> HIDE DEF n, i
<1>6. /\ opc'[r][i] = "spawned"
      /\ \A q \in Request, j \in 1..Longest :
            ~(q = r /\ j = i) => opc'[q][j] = opc[q][j]
  BY <1>1, <1>3 DEF AInv, Types
<1>7. /\ Started(r)' = Started(r) \cup {i}
      /\ \A q \in Request : q # r => Started(q)' = Started(q)
  BY <1>3, <1>6 DEF Started
<1>8. Types'
  <2>1. opc' \in [Request -> [1..Longest -> Status]]
    BY <1>1, <1>3 DEF AInv, Types, Status
  <2>2. k' \in [Request -> Nat \ {0}]
        /\ \A q \in Request : k'[q] <= Len(dropped[q]) + 1
    BY <1>1, <1>2
  <2> QED BY <1>1, <2>1, <2>2 DEF AInv, Types
<1>9. Placed'
  <2>1. ASSUME NEW q \in Request, NEW j \in Started(q)'
        PROVE  \E m \in 1..Len(dropped[q]) : m < k'[q] /\ dropped[q][m] = j
    <3>1. CASE q = r /\ j = i
      BY <1>1, <1>2, <3>1 DEF i
    <3>2. CASE ~(q = r /\ j = i)
      <4>1. j \in Started(q)
        BY <1>7, <2>1, <3>2
      <4>2. PICK m \in 1..Len(dropped[q]) : m < k[q] /\ dropped[q][m] = j
        BY <4>1 DEF AInv, Placed
      <4>3. m \in Nat /\ k[q] <= k'[q] /\ k'[q] \in Nat
        BY <1>1, <1>2 DEF n
      <4> QED BY <1>2, <4>2, <4>3
    <3> QED BY <3>1, <3>2
  <2>2. \A q \in Request : q # r => k'[q] = k[q]
    BY <1>1, <1>2
  <2> QED BY <1>1, <2>1, <2>2 DEF AInv, Placed
<1>10. Overflowing' = Overflowing \cup {<<r, i>>} /\ <<r, i>> \notin Overflowing
  BY <1>3, <1>5, <1>6 DEF Overflowing
<1>11. Forwarding' = Forwarding
  <2>1. \A p \in Request \X (1..Longest) :
           opc'[p[1]][p[2]] = "forwarding" <=> opc[p[1]][p[2]] = "forwarding"
    BY <1>5, <1>6
  <2> QED BY <2>1 DEF Forwarding, Overflowing
<1>12. GivenUp' = GivenUp
  <2>1. ASSUME NEW p \in Request \X (1..Longest)
        PROVE  p \in GivenUp' <=> p \in GivenUp
    <3> PICK q \in Request, m \in 1..Longest : p = <<q, m>>
      OBVIOUS
    <3>1. p[1] = q /\ p[2] = m /\ m \in Nat
      BY LongestIsLongest
    <3>2. CASE q # r
      BY <1>1, <1>2, <1>7, <3>1, <3>2 DEF GivenUp
    <3>3. CASE q = r /\ m < n
      <4>1. m \in 1..Len(dropped[r]) /\ dropped[r][m] # i /\ m < n + 1
        BY <1>2, <1>4, <3>1, <3>3 DEF n, i
      <4> QED BY <1>1, <1>2, <1>7, <3>1, <3>3, <4>1 DEF GivenUp, n
    <3>4. CASE q = r /\ m = n
      BY <1>1, <1>2, <1>7, <3>1, <3>4 DEF GivenUp, n, i
    <3>5. CASE q = r /\ m > n
      BY <1>1, <1>2, <3>1, <3>5 DEF GivenUp, n
    <3> QED BY <1>2, <3>1, <3>2, <3>3, <3>4, <3>5
  <2> QED BY <2>1 DEF GivenUp
<1>13. IsFiniteSet(Overflowing') /\ overflowSem' = Cardinality(Overflowing')
  BY <1>1, <1>10, FS_AddElement DEF AInv, Counted
<1>14. overflowSem' <= MaxOverflow
  <2>1. overflowSem \in Nat
    BY FS_CardinalityType DEF AInv, Counted
  <2> QED BY <1>1, <2>1, ALBAssumption
<1>15. Counted'
  BY <1>1, <1>11, <1>12, <1>13, <1>14 DEF AInv, Counted
<1> QED BY <1>8, <1>9, <1>15

(* The second loop: no slot is left for the next dropped URL. *)
LEMMA DropKeeps ==
    ASSUME AInv, NEW r \in Request, DropOverflow(r)
    PROVE  Types' /\ Placed' /\ Counted'
<1> DEFINE n == k[r]
<1>1. /\ UNCHANGED <<urls, mpc, dropped, ppc, fate, opc, overflowSem,
                     overflowActive, apc>>
      /\ ppc[r] = "dropping"
      /\ overflowDropped' = overflowDropped + 1
      /\ k' = [k EXCEPT ![r] = n + 1]
  BY DEF DropOverflow, Dropping, managerVars, callVars
<1>2. /\ n \in 1..Len(dropped[r]) /\ n \in Nat /\ Len(dropped[r]) \in Nat
      /\ \A q \in Request : k[q] \in Nat /\ k[q] <= Len(dropped[q]) + 1
      /\ k \in [Request -> Nat \ {0}]
  BY DEF DropOverflow, Dropping, AInv, Types, Shape, ManagerTypeOK
<1>3. n \in 1..Longest
  <2>1. /\ Len(dropped[r]) <= Len(fate[r]) /\ Len(fate[r]) <= Len(urls[r])
        /\ Len(urls[r]) \in Nat /\ Len(fate[r]) \in Nat
    BY DEF AInv, AllFates, Fates, Shape, ManagerTypeOK
  <2>2. Len(urls[r]) <= Longest
    BY DEF AInv, Placed
  <2> QED BY <1>2, <2>1, <2>2, LongestIsLongest
<1>4. dropped[r][n] \notin Started(r)
  <2>1. ASSUME NEW m \in 1..Len(dropped[r]), m < n
        PROVE  dropped[r][m] # dropped[r][n]
    <3>1. dropped[r][m] < dropped[r][n]
          /\ dropped[r][m] \in Nat /\ dropped[r][n] \in Nat
      BY <1>2, <2>1 DEF AInv, AllFates, Fates, Shape, ManagerTypeOK
    <3> QED BY <3>1
  <2> QED BY <2>1 DEF AInv, Placed
<1> HIDE DEF n
<1>5. \A q \in Request : Started(q)' = Started(q)
  BY <1>1 DEF Started
<1>6. \A q \in Request : k'[q] = IF q = r THEN n + 1 ELSE k[q]
  BY <1>1, <1>2
<1>7. Types'
  BY <1>1, <1>2, <1>6 DEF AInv, Types
<1>8. Placed'
  <2>1. ASSUME NEW q \in Request, NEW j \in Started(q)'
        PROVE  \E m \in 1..Len(dropped[q]) : m < k'[q] /\ dropped[q][m] = j
    <3>1. PICK m \in 1..Len(dropped[q]) : m < k[q] /\ dropped[q][m] = j
      BY <1>5, <2>1 DEF AInv, Placed
    <3>2. m \in Nat /\ k[q] <= k'[q] /\ k'[q] \in Nat
      BY <1>2, <1>6 DEF n
    <3> QED BY <1>2, <3>1, <3>2
  <2> QED BY <1>1, <1>6, <2>1 DEF AInv, Placed
<1>9. UNCHANGED Overflowing /\ UNCHANGED Forwarding
  BY <1>1 DEF Overflowing, Forwarding
<1>10. GivenUp' = GivenUp \cup {<<r, n>>} /\ <<r, n>> \notin GivenUp
  <2>1. ASSUME NEW p \in Request \X (1..Longest)
        PROVE  p \in GivenUp' <=> p \in GivenUp \/ p = <<r, n>>
    <3> PICK q \in Request, m \in 1..Longest : p = <<q, m>>
      OBVIOUS
    <3>1. p[1] = q /\ p[2] = m /\ m \in Nat
      BY LongestIsLongest
    <3>2. CASE q # r
      BY <1>1, <1>5, <1>6, <3>1, <3>2 DEF GivenUp
    <3>3. CASE q = r /\ m # n
      <4>1. m < n + 1 <=> m < n
        BY <1>2, <3>1, <3>3
      <4> QED BY <1>1, <1>5, <1>6, <3>1, <3>3, <4>1 DEF GivenUp, n
    <3>4. CASE q = r /\ m = n
      BY <1>1, <1>2, <1>4, <1>5, <1>6, <3>1, <3>4 DEF GivenUp
    <3> QED BY <3>2, <3>3, <3>4
  <2>2. <<r, n>> \notin GivenUp
    BY <1>2 DEF GivenUp, n
  <2> QED BY <1>3, <2>1, <2>2 DEF GivenUp
<1>11. Counted'
  BY <1>1, <1>9, <1>10, FS_AddElement DEF AInv, Counted
<1> QED BY <1>7, <1>8, <1>11

(* An overflow goroutine goes on. *)
LEMMA OverflowKeeps ==
    ASSUME AInv, NEW r \in Request, NEW i \in 1..Longest, OverflowStep(r, i)
    PROVE  Types' /\ Placed' /\ Counted'
<1>1. /\ UNCHANGED <<urls, mpc, dropped, ppc, fate, k, overflowDropped, apc>>
      /\ opc[r][i] \in {"spawned", "forwarding", "releasing"}
      /\ \E to \in {"forwarding", "releasing", "done"} :
            opc' = [opc EXCEPT ![r][i] = to]
  BY DEF OverflowStep, CountActive, CountInactive, ReleaseSlot, MoveOverflow,
         managerVars, callVars
<1>2. /\ \A q \in Request, j \in 1..Longest :
            ~(q = r /\ j = i) => opc'[q][j] = opc[q][j]
      /\ opc'[r][i] # "none"
      /\ opc' \in [Request -> [1..Longest -> Status]]
  BY <1>1 DEF AInv, Types, Status
<1>3. \A q \in Request : Started(q)' = Started(q)
  <2> TAKE q \in Request
  <2>1. \A j \in 1..Longest : opc'[q][j] # "none" <=> opc[q][j] # "none"
    BY <1>1, <1>2
  <2> QED BY <2>1 DEF Started
<1>4. Types' /\ Placed'
  <2>1. Types'
    BY <1>1, <1>2 DEF AInv, Types
  <2>2. Placed'
    BY <1>1, <1>3 DEF AInv, Placed
  <2> QED BY <2>1, <2>2
<1>5. GivenUp' = GivenUp
  BY <1>1, <1>3 DEF GivenUp
<1> DEFINE p == <<r, i>>
<1>6. p \in Request \X (1..Longest) /\ p[1] = r /\ p[2] = i
      /\ \A q \in Request \X (1..Longest) :
            q # p => opc'[q[1]][q[2]] = opc[q[1]][q[2]]
  <2>1. ASSUME NEW q \in Request \X (1..Longest), q # p
        PROVE  opc'[q[1]][q[2]] = opc[q[1]][q[2]]
    <3>1. q = <<q[1], q[2]>> /\ q[1] \in Request /\ q[2] \in 1..Longest
      OBVIOUS
    <3>2. ~(q[1] = r /\ q[2] = i)
      BY <2>1, <3>1
    <3> QED BY <1>2, <3>1, <3>2
  <2> QED BY <2>1
<1>7. p \in Overflowing
  BY <1>1, <1>6 DEF Overflowing
<1> HIDE DEF p
<1>8. IsFiniteSet(Overflowing) /\ IsFiniteSet(Forwarding)
  <2>1. Forwarding \subseteq Overflowing
    BY DEF Forwarding
  <2> QED BY <2>1, FS_Subset DEF AInv, Counted
<1>9. CASE CountActive(r, i)
  <2>1. opc[r][i] = "spawned" /\ opc'[r][i] = "forwarding"
    BY <1>9 DEF CountActive, MoveOverflow, AInv, Types
  <2>2. Overflowing' = Overflowing
    BY <1>6, <1>7, <2>1 DEF Overflowing
  <2>3. Forwarding' = Forwarding \cup {p} /\ p \notin Forwarding
    BY <1>6, <1>7, <2>1, <2>2 DEF Forwarding, Overflowing
  <2>4. Cardinality(Forwarding') = Cardinality(Forwarding) + 1
    BY <1>8, <2>3, FS_AddElement
  <2>5. overflowSem' = overflowSem /\ overflowActive' = overflowActive + 1
    BY <1>9 DEF CountActive
  <2> QED BY <1>1, <1>4, <1>5, <2>2, <2>4, <2>5 DEF AInv, Counted
<1>10. CASE CountInactive(r, i)
  <2>1. opc[r][i] = "forwarding" /\ opc'[r][i] = "releasing"
    BY <1>10 DEF CountInactive, MoveOverflow, AInv, Types
  <2>2. Overflowing' = Overflowing
    BY <1>6, <1>7, <2>1 DEF Overflowing
  <2>3. Forwarding' = Forwarding \ {p} /\ p \in Forwarding
    BY <1>6, <1>7, <2>1, <2>2 DEF Forwarding, Overflowing
  <2>4. Cardinality(Forwarding') = Cardinality(Forwarding) - 1
    BY <1>8, <2>3, FS_RemoveElement
  <2>5. overflowSem' = overflowSem /\ overflowActive' = overflowActive - 1
    BY <1>10 DEF CountInactive
  <2> QED BY <1>1, <1>4, <1>5, <2>2, <2>4, <2>5 DEF AInv, Counted
<1>11. CASE ReleaseSlot(r, i)
  <2>1. opc[r][i] = "releasing" /\ opc'[r][i] = "done"
    BY <1>11 DEF ReleaseSlot, MoveOverflow, AInv, Types
  <2>2. Overflowing' = Overflowing \ {p}
    BY <1>6, <1>7, <2>1 DEF Overflowing
  <2>3. Forwarding' = Forwarding
    <3>1. \A q \in Request \X (1..Longest) :
             opc'[q[1]][q[2]] = "forwarding" <=> opc[q[1]][q[2]] = "forwarding"
      BY <1>6, <2>1
    <3> QED BY <3>1 DEF Forwarding, Overflowing
  <2>4. /\ IsFiniteSet(Overflowing')
        /\ Cardinality(Overflowing') = Cardinality(Overflowing) - 1
        /\ Cardinality(Overflowing) \in Nat
    BY <1>7, <1>8, <2>2, FS_RemoveElement, FS_CardinalityType
  <2>5. overflowSem' = overflowSem - 1 /\ overflowActive' = overflowActive
    BY <1>11 DEF ReleaseSlot
  <2> QED BY <1>1, <1>4, <1>5, <2>3, <2>4, <2>5, ALBAssumption DEF AInv, Counted
<1> QED BY <1>9, <1>10, <1>11 DEF OverflowStep

LEMMA AInvNext == AInv /\ [Next]_vars => AInv'
<1> SUFFICES ASSUME AInv, [Next]_vars PROVE AInv'
  OBVIOUS
<1>1. Shape' /\ AllFates'
  BY OnlyOperations, ShapeNext, FatesNext DEF AInv
<1>2. ASSUME NEW r \in Request, Process(r) PROVE Types' /\ Placed' /\ Counted'
  <2>1. CASE StartOverflow(r)
    BY <2>1, StartKeeps
  <2>2. CASE DropOverflow(r)
    BY <2>2, DropKeeps
  <2>3. CASE \/ HealthCheck(r) \/ Arrive(r) \/ Submitting(r) \/ Submitted(r)
             \/ Answer(r)
    BY <1>1, <2>3, SubmittingKeeps
  <2> QED BY <1>2, <2>1, <2>2, <2>3 DEF Process
<1>3. ASSUME NEW r \in Request, NEW i \in 1..Longest, OverflowStep(r, i)
      PROVE  Types' /\ Placed' /\ Counted'
  BY <1>3, OverflowKeeps
<1>4. ASSUME Others PROVE Types' /\ Placed' /\ Counted'
  BY <1>1, <1>4, OthersKeep
<1>5. Types' /\ Placed' /\ Counted'
  BY <1>2, <1>3, <1>4 DEF Next, Others
<1> QED BY <1>1, <1>5 DEF AInv

(* The invariant of processor and manager, from which the rest follows.   *)
THEOREM ProcessorInvariant == Spec => []AInv
BY AInvInit, AInvNext, PTL DEF Spec

(* Slots of the semaphore are neither leaked nor given back twice, for any *)
(* number of requests, lists and slots. *)
THEOREM AccountedSlots == Spec => []SlotsAccounted
<1>1. AInv => SlotsAccounted
  <2> SUFFICES ASSUME AInv PROVE SlotsAccounted
    OBVIOUS
  <2>1. IsFiniteSet(Forwarding)
    <3>1. Forwarding \subseteq Overflowing
      BY DEF Forwarding
    <3> QED BY <3>1, FS_Subset DEF AInv, Counted
  <2>2. overflowSem \in 0..MaxOverflow /\ overflowActive \in Nat
    <3>1. overflowSem \in Nat /\ overflowActive \in Nat
      BY <2>1, FS_CardinalityType DEF AInv, Counted
    <3> QED BY <3>1, ALBAssumption DEF AInv, Counted
  <2>3. TypeOK
    BY <2>2 DEF AInv, Shape, Types, Status, TypeOK
  <2> QED BY <2>3 DEF AInv, Counted, SlotsAccounted
<1> QED BY <1>1, ProcessorInvariant, PTL

(* Every URL of a request comes out once: with a pool, with an overflow    *)
(* goroutine, or among those counted as given up.                          *)
THEOREM AccountedUrls == Spec => []EveryUrlAccounted
<1>1. AInv => EveryUrlAccounted
  BY FatesSuffice DEF AInv, Shape, Placed, Counted, EveryUrlAccounted, IsDropped
<1> QED BY <1>1, ProcessorInvariant, PTL
=============================================================================
