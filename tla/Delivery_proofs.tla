--------------------------- MODULE Delivery_proofs ---------------------------
(***************************************************************************)
(* Proofs about Delivery, for every number of invocations and every set of *)
(* lists of webhooks, also lists that name a webhook more than once.       *)
(*                                                                         *)
(* The inductive invariant IInv follows a job through the composition: it  *)
(* is in no place before Submit came to it, then in the channel of its     *)
(* webhook exactly while it is "queued", and from there in the hands of    *)
(* one goroutine. All steps but Submit and Take leave the channels alone   *)
(* and move at most one job, which JobStepMoves says once for all of them. *)
(***************************************************************************)
EXTENDS Delivery, FiniteSetTheorems, TLAPS

Stage == {"none", "alb", "answered", "sns", "acknowledged", "failed"}
State == {"none", "queued", "dropped"} \cup Busy \cup Ended

EventTypes ==
    /\ clock \in 1..MaxTime
    /\ stage \in [Request -> Stage]
    /\ urls \in [Request -> Lists \cup {<<>>}]
    /\ at \in [Request -> Nat \ {0}]
    /\ deadline \in [Request -> Nat]
    /\ tries \in [Request -> Nat]
    /\ sends \in [Request -> Nat]
    /\ published \in [Request -> Nat]

JobTypes ==
    /\ queue \in [Url -> Seq(Job)]
    /\ job \in [Job -> State]
    /\ overflow \subseteq Job

Types == EventTypes /\ JobTypes /\ workers \in [Url -> Nat]

(* Submit's loop has come to every job there is. *)
Places ==
    /\ \A r \in Request : at[r] <= Len(urls[r]) + 1
    /\ \A r \in Request : stage[r] = "none" => urls[r] = <<>>
    /\ \A p \in Job : job[p] # "none" => p[2] < at[p[1]]

(* The channel of a webhook holds its jobs that are queued, each once; an  *)
(* overflow goroutine has no job that ever was in a channel. *)
Channels ==
    /\ \A u \in Url : Len(queue[u]) <= QueueSize
    /\ \A u \in Url, p \in Job : \A i \in 1..Len(queue[u]) :
          queue[u][i] = p => job[p] = "queued" /\ To(p) = u
    /\ \A u \in Url : \A i, k \in 1..Len(queue[u]) :
          queue[u][i] = queue[u][k] => i = k
    /\ \A u \in Url, p \in Job : job[p] = "queued" /\ To(p) = u =>
          \E i \in 1..Len(queue[u]) : queue[u][i] = p
    /\ \A p \in overflow : job[p] \notin {"none", "queued", "dropped", "taken"}

Goroutines ==
    /\ \A u \in Url : /\ Cardinality(Working(u)) <= workers[u]
                      /\ workers[u] <= Workers
    /\ Cardinality(Overflowing) <= Slots

(* While an SNS event runs, SNS took no more copies of it than earlier     *)
(* runs and the sends of this one explain. *)
Counted(r) ==
    /\ stage[r] = "none" => published[r] = 0
    /\ stage[r] = "sns" =>
          /\ sends[r] < MaxSends
          /\ published[r] + MaxSends <= MaxSends * tries[r] + sends[r]
    /\ stage[r] # "sns" => sends[r] = 0
    /\ stage[r] = "acknowledged" => published[r] > 0
    /\ stage[r] = "failed" => tries[r] = MaxTries
    /\ tries[r] <= MaxTries
    /\ published[r] <= MaxSends * tries[r]

Publishing == \A r \in Request : Counted(r)

IInv == /\ Types
        /\ Places
        /\ Channels
        /\ Goroutines
        /\ Publishing

-----------------------------------------------------------------------------
(***************************************************************************)
(* Where a job goes                                                        *)
(***************************************************************************)

LEMMA Constants ==
    /\ Invocations \in Nat /\ Budget \in Nat
    /\ QueueSize \in Nat \ {0} /\ Workers \in Nat \ {0} /\ Slots \in Nat \ {0}
    /\ InitialWorkers \in Nat \ {0} /\ InitialWorkers <= Workers
    /\ MaxTries \in Nat \ {0} /\ MaxSends \in Nat \ {0}
    /\ MaxTime \in Nat \ {0}
  BY DeliveryAssumption

LEMMA PlacesOfLists ==
    ASSUME NEW list \in Lists
    PROVE  /\ list \in Seq(Url) /\ Len(list) \in Nat
           /\ \A i \in 1..Len(list) : i \in Place /\ list[i] \in Url
  BY DeliveryAssumption DEF Place

LEMMA PlaceNat == Place \subseteq Nat \ {0}
<1> SUFFICES ASSUME NEW i \in Place PROVE i \in Nat \ {0}
  OBVIOUS
<1>1. PICK list \in Lists : i \in DOMAIN list
  BY DEF Place
<1>2. list \in Seq(Url)
  BY DeliveryAssumption
<1> QED BY <1>1, <1>2

LEMMA JobFinite == IsFiniteSet(Job)
<1>1. IsFiniteSet(Request)
  BY FS_Interval, Constants DEF Request
<1> QED BY <1>1, FS_Product, DeliveryAssumption DEF Job

LEMMA UrlsAreLists ==
    ASSUME Types, NEW r \in Request
    PROVE  /\ Len(urls[r]) \in Nat
           /\ \A i \in 1..Len(urls[r]) : i \in Place /\ urls[r][i] \in Url
<1>1. CASE urls[r] = <<>>
  BY <1>1
<1>2. CASE urls[r] \in Lists
  BY <1>2, PlacesOfLists
<1> QED BY <1>1, <1>2 DEF Types, EventTypes

(* A job Submit has come to has a webhook, and its event has arrived. *)
LEMMA OnItsWay ==
    ASSUME Types, Places, NEW p \in Job, job[p] # "none"
    PROVE  /\ p[1] \in Request /\ p[2] \in 1..Len(urls[p[1]])
           /\ To(p) \in Url
           /\ stage[p[1]] # "none"
<1>1. p[1] \in Request /\ p[2] \in Nat \ {0}
  BY PlaceNat DEF Job
<1>2. p[2] < at[p[1]] /\ at[p[1]] <= Len(urls[p[1]]) + 1
  BY <1>1 DEF Places
<1>3. at[p[1]] \in Nat
  BY <1>1 DEF Types, EventTypes
<1>4. p[2] \in 1..Len(urls[p[1]])
  BY <1>1, <1>2, <1>3, UrlsAreLists
<1>5. urls[p[1]] # <<>>
  BY <1>4
<1> QED BY <1>1, <1>4, <1>5, UrlsAreLists DEF To, Places

(* The one Submit comes to next is new. *)
LEMMA NextPlace ==
    ASSUME Types, Places, NEW r \in Request, ~Submitted(r)
    PROVE  /\ <<r, at[r]>> \in Job /\ To(<<r, at[r]>>) \in Url
           /\ job[<<r, at[r]>>] = "none"
<1>1. at[r] \in Nat \ {0} /\ Len(urls[r]) \in Nat
  BY UrlsAreLists DEF Types, EventTypes
<1>2. at[r] \in 1..Len(urls[r])
  BY <1>1 DEF Submitted
<1>3. <<r, at[r]>> \in Job /\ To(<<r, at[r]>>) \in Url
  BY <1>2, UrlsAreLists DEF Job, To
<1>4. ASSUME job[<<r, at[r]>>] # "none" PROVE FALSE
  BY <1>1, <1>3, <1>4 DEF Places
<1> QED BY <1>3, <1>4

(* The steps before, beside and after the way of a job. *)
Aside == /\ UNCHANGED <<job, queue, overflow>>
         /\ \A r \in Request : /\ stage[r] # "none" => UNCHANGED urls[r]
                               /\ UNCHANGED at[r]

(* The steps of the goroutine that has job p, which it moves to `to`. *)
Moves(p, to) ==
    /\ Move(p, to) /\ UNCHANGED <<stage, urls, at, queue>>
    /\ \/ /\ job[p] \in Busy
          /\ to \in {"asking", "calling"} \cup (Ended \ {"lost"})
          /\ UNCHANGED overflow
       \/ job[p] = "dropped" /\ to = "lost" /\ UNCHANGED overflow
       \/ /\ job[p] = "dropped" /\ to = "asking"
          /\ overflow' = overflow \cup {p}
          /\ Cardinality(Overflowing) < Slots

LEMMA JobStepMoves ==
    ASSUME NEW p \in Job, JobStep(p)
    PROVE  \E to \in State : Moves(p, to)
<1>1. ASSUME Overflow(p) PROVE Moves(p, "asking") \/ Moves(p, "lost")
  BY <1>1 DEF Overflow, Moves
<1>2. ASSUME Check(p) PROVE Moves(p, "asking") \/ Moves(p, "skipped")
  BY <1>2 DEF Check, Moves, Busy, Ended
<1>3. ASSUME AllowRequest(p) PROVE Moves(p, "calling") \/ Moves(p, "refused")
  BY <1>3 DEF AllowRequest, Moves, Busy, Ended
<1>4. ASSUME Ends(p) PROVE Moves(p, "delivered") \/ Moves(p, "failed")
  BY <1>4 DEF Ends, Moves, Busy, Ended
<1>5. ASSUME CutOff(p) PROVE Moves(p, "failed")
  BY <1>5 DEF CutOff, Moves, Busy, Ended
<1> QED BY <1>1, <1>2, <1>3, <1>4, <1>5 DEF JobStep, State, Busy, Ended

LEMMA StepsOfAJob ==
    ASSUME Types, Places, [Next]_vars
    PROVE  \/ Aside
           \/ \E r \in Request : Submit(r)
           \/ \E u \in Url : Take(u)
           \/ \E p \in Job, to \in State : Moves(p, to)
<1>1. ASSUME Tick \/ UNCHANGED vars PROVE Aside
  BY <1>1 DEF Tick, vars, Aside
<1>2. ASSUME NEW r \in Request, Arrive(r) PROVE Aside
  BY <1>2 DEF Arrive, Aside, Types, EventTypes
<1>3. ASSUME NEW r \in Request, Answer(r) PROVE Aside
  BY <1>3 DEF Answer, Aside
<1>4. ASSUME NEW r \in Request, SendAgain(r) \/ Publish(r) \/ PublishFails(r)
      PROVE  Aside
  BY <1>4 DEF SendAgain, Publish, PublishFails, Aside
<1>5. ASSUME NEW u \in Url, Retire(u) \/ Hire(u) PROVE Aside
  BY <1>5 DEF Retire, Hire, Aside
<1> QED BY <1>1, <1>2, <1>3, <1>4, <1>5, JobStepMoves DEF Next

LEMMA ToKept ==
    ASSUME Types, Places, [Next]_vars
    PROVE  \A p \in Job : job[p] # "none" => To(p)' = To(p)
<1> SUFFICES ASSUME NEW p \in Job, job[p] # "none" PROVE To(p)' = To(p)
  OBVIOUS
<1>1. p[1] \in Request /\ stage[p[1]] # "none"
  BY OnItsWay
<1>2. CASE Aside
  BY <1>1, <1>2 DEF Aside, To
<1>3. ASSUME NEW r \in Request, Submit(r) PROVE To(p)' = To(p)
  BY <1>3 DEF Submit, To
<1>4. ASSUME NEW u \in Url, Take(u) PROVE To(p)' = To(p)
  BY <1>4 DEF Take, To
<1>5. ASSUME NEW q \in Job, NEW to \in State, Moves(q, to) PROVE To(p)' = To(p)
  BY <1>5 DEF Moves, To
<1> QED BY <1>2, <1>3, <1>4, <1>5, StepsOfAJob

-----------------------------------------------------------------------------
(***************************************************************************)
(* Types and places                                                        *)
(***************************************************************************)

LEMMA Products ==
    \A n \in Nat : /\ MaxSends * n \in Nat /\ MaxSends * 0 = 0
                   /\ MaxSends * (n + 1) = MaxSends * n + MaxSends
  BY Constants

LEMMA InitTypes == Init => Types /\ Places /\ Publishing
<1> SUFFICES ASSUME Init PROVE Types /\ Places /\ Publishing
  OBVIOUS
<1>1. <<>> \in Seq(Job) /\ Len(<<>>) = 0
  OBVIOUS
<1>2. Types
  <2>1. EventTypes
    BY Constants DEF Init, EventTypes, Stage
  <2>2. JobTypes
    BY <1>1 DEF Init, JobTypes, State
  <2>3. workers \in [Url -> Nat]
    BY Constants DEF Init
  <2> QED BY <2>1, <2>2, <2>3 DEF Types
<1>3. Places
  BY <1>1 DEF Init, Places, Job
<1>4. Publishing
  BY Products, Constants DEF Init, Publishing, Counted
<1> QED BY <1>2, <1>3, <1>4

LEMMA SentTypes ==
    ASSUME EventTypes, NEW r \in Request, SentOrNot(r)
    PROVE  /\ published' \in [Request -> Nat]
           /\ published'[r] = published[r] \/ published'[r] = published[r] + 1
           /\ \A q \in Request : q # r => published'[q] = published[q]
<1>1. CASE published' = published
  BY <1>1 DEF EventTypes
<1>2. CASE published' = [published EXCEPT ![r] = @ + 1]
  BY <1>2 DEF EventTypes
<1> QED BY <1>1, <1>2 DEF SentOrNot

LEMMA NextEventTypes ==
    ASSUME Types, [Next]_vars
    PROVE  EventTypes'
<1> USE DEF Types, EventTypes
<1>1. ASSUME Tick PROVE EventTypes'
  <2>1. clock' \in 1..MaxTime
    BY <1>1, Constants DEF Tick
  <2> QED BY <1>1, <2>1 DEF Tick, snsVars
<1>2. ASSUME UNCHANGED vars PROVE EventTypes'
  BY <1>2 DEF vars, snsVars
<1>3. ASSUME NEW r \in Request, Arrive(r) PROVE EventTypes'
  <2>1. PICK event \in [arn : BOOLEAN, record : BOOLEAN, urls : Lists] :
           /\ stage' = [stage EXCEPT ![r] = Route(event)]
           /\ urls' = IF Route(event) = "alb"
                      THEN [urls EXCEPT ![r] = event.urls] ELSE urls
    BY <1>3 DEF Arrive
  <2>2. Route(event) \in Stage /\ event.urls \in Lists
    BY DEF Route, Stage
  <2>3. stage' \in [Request -> Stage] /\ urls' \in [Request -> Lists \cup {<<>>}]
    BY <2>1, <2>2
  <2>4. clock + Budget \in Nat
    BY Constants
  <2>5. deadline' \in [Request -> Nat] /\ tries' \in [Request -> Nat]
    BY <1>3, <2>4 DEF Arrive
  <2> QED BY <1>3, <2>3, <2>5 DEF Arrive
<1>4. ASSUME NEW r \in Request, Answer(r) PROVE EventTypes'
  BY <1>4 DEF Answer, snsVars, Stage
<1>5. ASSUME NEW r \in Request, Publish(r) PROVE EventTypes'
  BY <1>5 DEF Publish, Stage
<1>6. ASSUME NEW r \in Request, PublishFails(r) PROVE EventTypes'
  <2>1. published' \in [Request -> Nat] /\ sends' \in [Request -> Nat]
    <3>1. published' \in [Request -> Nat]
      BY <1>6, SentTypes DEF PublishFails
    <3> QED BY <1>6, <3>1 DEF PublishFails
  <2>2. clock + Budget \in Nat
    BY Constants
  <2>3. CASE tries[r] < MaxTries
    <3>1. deadline' \in [Request -> Nat]
      BY <1>6, <2>2, <2>3 DEF PublishFails
    <3>2. tries' \in [Request -> Nat]
      <4>1. tries' = [tries EXCEPT ![r] = @ + 1]
        BY <1>6, <2>3 DEF PublishFails
      <4> QED BY <4>1
    <3> QED BY <1>6, <2>1, <2>3, <3>1, <3>2 DEF PublishFails
  <2>4. CASE ~(tries[r] < MaxTries)
    BY <1>6, <2>1, <2>4 DEF PublishFails, Stage
  <2> QED BY <2>3, <2>4
<1>7. ASSUME NEW r \in Request, Submit(r) PROVE EventTypes'
  BY <1>7 DEF Submit, snsVars
<1>8. ASSUME NEW u \in Url, Retire(u) \/ Hire(u) \/ Take(u) PROVE EventTypes'
  BY <1>8 DEF Retire, Hire, Take, snsVars
<1>9. ASSUME NEW p \in Job, JobStep(p) PROVE EventTypes'
  <2>1. UNCHANGED <<clock, stage, urls, at, deadline, snsVars>>
    BY <1>9 DEF JobStep, Overflow, Check, AllowRequest, Ends, CutOff
  <2> QED BY <2>1 DEF snsVars
<1>10. ASSUME NEW r \in Request, SendAgain(r) PROVE EventTypes'
  <2>1. published' \in [Request -> Nat]
    BY <1>10, SentTypes DEF SendAgain
  <2>2. sends' = [sends EXCEPT ![r] = @ + 1]
        /\ UNCHANGED <<clock, stage, urls, at, deadline, tries>>
    BY <1>10 DEF SendAgain
  <2>3. sends' \in [Request -> Nat]
    BY <2>2
  <2> QED BY <2>1, <2>2, <2>3
<1> QED BY <1>1, <1>2, <1>3, <1>4, <1>5, <1>6, <1>7, <1>8, <1>9, <1>10 DEF Next

LEMMA NextJobTypes ==
    ASSUME Types, Places, [Next]_vars
    PROVE  JobTypes'
<1> USE DEF Types, JobTypes
<1>1. CASE Aside
  BY <1>1 DEF Aside
<1>2. ASSUME NEW r \in Request, Submit(r) PROVE JobTypes'
  <2> DEFINE p == <<r, at[r]>>
  <2>1. p \in Job /\ To(p) \in Url
    BY <1>2, NextPlace DEF Submit
  <2>2. queue' = queue \/ queue' = [queue EXCEPT ![To(p)] = Append(@, p)]
    BY <1>2 DEF Submit
  <2>3. job' = [job EXCEPT ![p] = "queued"] \/ job' = [job EXCEPT ![p] = "dropped"]
    BY <1>2 DEF Submit, Move
  <2> HIDE DEF p
  <2>4. queue' \in [Url -> Seq(Job)]
    <3>1. Append(queue[To(p)], p) \in Seq(Job)
      BY <2>1
    <3> QED BY <2>2, <3>1
  <2>5. job' \in [Job -> State]
    BY <2>3 DEF State
  <2> QED BY <1>2, <2>4, <2>5 DEF Submit
<1>3. ASSUME NEW u \in Url, Take(u) PROVE JobTypes'
  <2>1. queue[u] \in Seq(Job) /\ queue[u] # <<>>
    BY <1>3 DEF Take
  <2>2. Head(queue[u]) \in Job /\ Tail(queue[u]) \in Seq(Job)
    BY <2>1
  <2>3. queue' \in [Url -> Seq(Job)] /\ job' \in [Job -> State]
    BY <1>3, <2>2 DEF Take, Move, State, Busy
  <2> QED BY <1>3, <2>3 DEF Take
<1>4. ASSUME NEW p \in Job, NEW to \in State, Moves(p, to) PROVE JobTypes'
  BY <1>4 DEF Moves, Move
<1> QED BY <1>1, <1>2, <1>3, <1>4, StepsOfAJob

LEMMA JobFinites ==
    ASSUME JobTypes
    PROVE  /\ IsFiniteSet(Overflowing) /\ Cardinality(Overflowing) \in Nat
           /\ \A u \in Url : /\ IsFiniteSet(Working(u))
                             /\ Cardinality(Working(u)) \in Nat
<1>1. Overflowing \subseteq Job /\ \A u \in Url : Working(u) \subseteq Job
  BY DEF Overflowing, Working, JobTypes
<1> QED BY <1>1, JobFinite, FS_Subset, FS_CardinalityType

(* Who may change the number of workers of u. *)
LEMMA WorkersChange ==
    ASSUME Types, [Next]_vars, NEW u \in Url
    PROVE  \/ workers'[u] = workers[u]
           \/ /\ Cardinality(Working(u)) < workers[u]
              /\ workers'[u] = workers[u] - 1
              /\ UNCHANGED <<job, overflow, urls>>
           \/ workers[u] < Workers /\ workers'[u] = workers[u] + 1
<1> USE DEF Types
<1>1. CASE Tick \/ UNCHANGED vars
  BY <1>1 DEF Tick, vars
<1>2. CASE \E r \in Request : \/ Arrive(r) \/ Submit(r) \/ Answer(r)
                            \/ SendAgain(r) \/ Publish(r) \/ PublishFails(r)
  BY <1>2 DEF Arrive, Submit, Answer, SendAgain, Publish, PublishFails
<1>3. ASSUME NEW v \in Url, Retire(v)
      PROVE  \/ workers'[u] = workers[u]
             \/ /\ Cardinality(Working(u)) < workers[u]
                /\ workers'[u] = workers[u] - 1
                /\ UNCHANGED <<job, overflow, urls>>
  BY <1>3 DEF Retire, Idle
<1>4. ASSUME NEW v \in Url, Hire(v)
      PROVE  \/ workers'[u] = workers[u]
             \/ workers[u] < Workers /\ workers'[u] = workers[u] + 1
  BY <1>4 DEF Hire
<1>5. CASE \E v \in Url : Take(v)
  BY <1>5 DEF Take
<1>6. CASE \E p \in Job : JobStep(p)
  BY <1>6 DEF JobStep, Overflow, Check, AllowRequest, Ends, CutOff
<1> HIDE DEF Types
<1> QED BY <1>1, <1>2, <1>3, <1>4, <1>5, <1>6 DEF Next

LEMMA NextWorkerTypes ==
    ASSUME Types, [Next]_vars
    PROVE  workers' \in [Url -> Nat]
<1>1. workers' = [u \in Url |-> workers'[u]]
  <2> USE DEF Types
  <2>1. CASE Tick \/ UNCHANGED vars
    BY <2>1 DEF Tick, vars
  <2>2. CASE \E r \in Request : \/ Arrive(r) \/ Submit(r) \/ Answer(r)
                              \/ SendAgain(r) \/ Publish(r) \/ PublishFails(r)
    BY <2>2 DEF Arrive, Submit, Answer, SendAgain, Publish, PublishFails
  <2>3. CASE \E v \in Url : Retire(v) \/ Hire(v) \/ Take(v)
    BY <2>3 DEF Retire, Hire, Take
  <2>4. CASE \E p \in Job : JobStep(p)
    BY <2>4 DEF JobStep, Overflow, Check, AllowRequest, Ends, CutOff
  <2> HIDE DEF Types
  <2> QED BY <2>1, <2>2, <2>3, <2>4 DEF Next
<1>2. ASSUME NEW u \in Url PROVE workers'[u] \in Nat
  <2>1. workers[u] \in Nat /\ Cardinality(Working(u)) \in Nat
    BY JobFinites DEF Types
  <2> QED BY <2>1, WorkersChange
<1> QED BY <1>1, <1>2

LEMMA NextTypes ==
    ASSUME Types, Places, [Next]_vars
    PROVE  Types'
  BY NextEventTypes, NextJobTypes, NextWorkerTypes DEF Types

LEMMA NextPlaces ==
    ASSUME Types, Places, Channels, [Next]_vars
    PROVE  Places'
<1>1. CASE Tick \/ UNCHANGED vars
  BY <1>1 DEF Tick, vars, Places
<1>2. ASSUME NEW r \in Request, Arrive(r) PROVE Places'
  <2>1. /\ stage[r] = "none" /\ stage' = [stage EXCEPT ![r] = stage'[r]]
        /\ stage'[r] # "none" /\ UNCHANGED <<at, job>>
    BY <1>2 DEF Arrive, Route, Types, EventTypes, JobTypes
  <2>2. urls' = [urls EXCEPT ![r] = urls'[r]]
    BY <1>2 DEF Arrive, Types, EventTypes, JobTypes
  <2>3. urls[r] = <<>> /\ at[r] <= 1 /\ Len(urls'[r]) \in Nat
    <3>1. urls[r] = <<>> /\ Len(urls[r]) = 0
      BY <2>1 DEF Places
    <3> QED BY <3>1, NextTypes, UrlsAreLists, <1>2, PlacesOfLists DEF Places, Types, EventTypes, JobTypes, Arrive
  <2>4. ASSUME NEW q \in Request PROVE at'[q] <= Len(urls'[q]) + 1
    <3>1. CASE q = r
      BY <2>1, <2>3, <3>1 DEF Types, EventTypes
    <3>2. CASE q # r
      <4>1. urls'[q] = urls[q] /\ at'[q] = at[q]
        BY <2>1, <2>2, <3>2 DEF Types, EventTypes
      <4> QED BY <4>1 DEF Places
    <3> QED BY <3>1, <3>2
  <2>5. \A q \in Request : stage'[q] = "none" => urls'[q] = <<>>
    BY <2>1, <2>2 DEF Places, Types, EventTypes, JobTypes
  <2> QED BY <2>1, <2>4, <2>5 DEF Places
<1>3. ASSUME NEW r \in Request,
             Answer(r) \/ SendAgain(r) \/ Publish(r) \/ PublishFails(r)
      PROVE  Places'
  BY <1>3 DEF Answer, SendAgain, Publish, PublishFails, Places, Types,
     EventTypes, JobTypes
<1>4. ASSUME NEW r \in Request, Submit(r) PROVE Places'
  <2> DEFINE p == <<r, at[r]>>
  <2>1. at[r] \in Nat /\ Len(urls[r]) \in Nat
    BY UrlsAreLists DEF Types, EventTypes, JobTypes
  <2>2. at[r] <= Len(urls[r]) /\ at' = [at EXCEPT ![r] = @ + 1]
        /\ UNCHANGED <<stage, urls>>
    BY <1>4, <2>1 DEF Submit, Submitted
  <2>3. job' = [job EXCEPT ![p] = "queued"] \/ job' = [job EXCEPT ![p] = "dropped"]
    BY <1>4 DEF Submit, Move
  <2>4. \A q \in Request : at'[q] <= Len(urls'[q]) + 1
    BY <2>1, <2>2 DEF Places, Types, EventTypes, JobTypes
  <2>5. \A q \in Job : job'[q] # "none" => q[2] < at'[q[1]]
    <3> SUFFICES ASSUME NEW q \in Job, job'[q] # "none" PROVE q[2] < at'[q[1]]
      OBVIOUS
    <3>1. CASE q = p
      BY <2>1, <2>2, <3>1 DEF Types, EventTypes, JobTypes
    <3>2. CASE q # p
      <4>1. job[q] # "none"
        BY <2>3, <3>2 DEF Types, EventTypes, JobTypes
      <4>2. q[1] \in Request /\ q[2] \in Nat
        BY PlaceNat DEF Job
      <4>3. q[2] < at[q[1]]
        BY <4>1 DEF Places
      <4>4. at[q[1]] \in Nat /\ (at'[q[1]] = at[q[1]] \/ at'[q[1]] = at[q[1]] + 1)
        BY <2>2, <4>2 DEF Types, EventTypes
      <4> QED BY <4>2, <4>3, <4>4
    <3> QED BY <3>1, <3>2
  <2> QED BY <2>2, <2>4, <2>5 DEF Places
<1>5. ASSUME NEW u \in Url, Take(u) PROVE Places'
  <2>1. \A q \in Job : q # Head(queue[u]) => job'[q] = job[q]
    BY <1>5 DEF Take, Move, Types, EventTypes, JobTypes
  <2>2. job[Head(queue[u])] # "none"
    <3>1. queue[u] \in Seq(Job) /\ queue[u] # <<>>
      BY <1>5 DEF Take, Types, EventTypes, JobTypes
    <3>2. /\ Head(queue[u]) = queue[u][1] /\ 1 \in 1..Len(queue[u])
          /\ Head(queue[u]) \in Job
      BY <3>1
    <3> QED BY <3>2 DEF Channels
  <2> QED BY <1>5, <2>1, <2>2 DEF Take, Places
<1>6. ASSUME NEW p \in Job, NEW to \in State, Moves(p, to) PROVE Places'
  <2>1. job[p] # "none" /\ \A q \in Job : q # p => job'[q] = job[q]
    BY <1>6 DEF Moves, Move, Busy, Types, EventTypes, JobTypes
  <2> QED BY <1>6, <2>1 DEF Moves, Places
<1>7. ASSUME NEW u \in Url, Retire(u) \/ Hire(u) PROVE Places'
  BY <1>7 DEF Retire, Hire, Places
<1> QED BY <1>1, <1>2, <1>3, <1>4, <1>5, <1>6, <1>7, JobStepMoves DEF Next

-----------------------------------------------------------------------------
(***************************************************************************)
(* Channels                                                                *)
(***************************************************************************)

LEMMA InitChannels == Init => Channels
  BY Constants DEF Init, Channels

(* A job that is new, dropped or in the hands of a goroutine is in no      *)
(* channel, so that moving it on, but not back, leaves them sound. *)
LEMMA MoveChannels ==
    ASSUME Types, Places, Channels, [Next]_vars, NEW p \in Job, NEW to \in State,
           Move(p, to), job[p] # "queued", to # "queued", UNCHANGED queue,
           \A q \in overflow' :
              IF q = p THEN to \notin {"none", "queued", "dropped", "taken"}
              ELSE q \in overflow
    PROVE  Channels'
<1>1. job'[p] = to /\ \A q \in Job : q # p => job'[q] = job[q]
  BY DEF Move, Types, JobTypes
<1>2. \A u \in Url : queue[u] \in Seq(Job) /\ Len(queue[u]) \in Nat
  BY DEF Types, JobTypes
<1>3. ASSUME NEW u \in Url, NEW q \in Job, NEW i \in 1..Len(queue[u]),
             queue[u][i] = q
      PROVE  job'[q] = "queued" /\ To(q)' = u
  <2>1. job[q] = "queued" /\ To(q) = u
    BY <1>3 DEF Channels
  <2> QED BY <1>1, <2>1, ToKept
<1>4. \A u \in Url, q \in Job : \A i \in 1..Len(queue'[u]) :
         queue'[u][i] = q => job'[q] = "queued" /\ To(q)' = u
  BY <1>3
<1>5. \A u \in Url, q \in Job : job'[q] = "queued" /\ To(q)' = u =>
         \E i \in 1..Len(queue'[u]) : queue'[u][i] = q
  BY <1>1, ToKept DEF Channels
<1>6. \A q \in overflow' : job'[q] \notin {"none", "queued", "dropped", "taken"}
  BY <1>1 DEF Channels, Types, JobTypes
<1> QED BY <1>4, <1>5, <1>6 DEF Channels

LEMMA SubmitChannels ==
    ASSUME Types, Places, Channels, [Next]_vars,
           NEW r \in Request, Submit(r)
    PROVE  Channels'
<1>1. PICK p \in Job : p = <<r, at[r]>>
  BY NextPlace DEF Submit
<1>2. PICK u \in Url : u = To(p)
  BY <1>1, NextPlace DEF Submit
<1>3. job[p] = "none" /\ UNCHANGED <<urls, overflow>>
  BY <1>1, NextPlace DEF Submit
<1>4. p \notin overflow
  BY <1>3 DEF Channels
<1>5. CASE Move(p, "dropped") /\ UNCHANGED queue
  BY <1>3, <1>4, <1>5, MoveChannels DEF State
<1>6. CASE /\ Len(queue[u]) < QueueSize
           /\ queue' = [queue EXCEPT ![u] = Append(@, p)]
           /\ Move(p, "queued")
  <2>1. To(p)' = u /\ \A q \in Job : job[q] # "none" => To(q)' = To(q)
    BY <1>3, <1>2, ToKept DEF To
  <2>2. job'[p] = "queued" /\ \A q \in Job : q # p => job'[q] = job[q]
    BY <1>3, <1>6 DEF Move, Types, JobTypes
  <2>3. \A v \in Url : /\ queue[v] \in Seq(Job) /\ Len(queue[v]) \in Nat
                       /\ v # u => queue'[v] = queue[v]
    BY <1>6 DEF Types, JobTypes
  <2>4. /\ queue'[u] = Append(queue[u], p)
        /\ Len(queue'[u]) = Len(queue[u]) + 1
        /\ queue'[u][Len(queue[u]) + 1] = p
        /\ \A i \in 1..Len(queue[u]) : queue'[u][i] = queue[u][i]
    <3>1. queue'[u] = Append(queue[u], p)
      BY <1>3, <1>6 DEF Types, JobTypes
    <3> QED BY <1>3, <2>3, <3>1
  <2>5. ASSUME NEW v \in Url, NEW q \in Job, NEW i \in 1..Len(queue[v]),
               queue[v][i] = q
        PROVE  q # p /\ job[q] = "queued" /\ To(q)' = v
    <3>1. job[q] = "queued" /\ To(q) = v
      BY <2>5 DEF Channels
    <3> QED BY <1>3, <2>1, <3>1
  <2>6. \A v \in Url : Len(queue'[v]) <= QueueSize
    BY <1>6, <2>3, <2>4, Constants DEF Channels
  <2>7. ASSUME NEW v \in Url, NEW q \in Job, NEW i \in 1..Len(queue'[v]),
               queue'[v][i] = q
        PROVE  job'[q] = "queued" /\ To(q)' = v
    <3>1. CASE v = u /\ i = Len(queue[u]) + 1
      BY <2>1, <2>2, <2>4, <2>7, <3>1
    <3>2. CASE ~(v = u /\ i = Len(queue[u]) + 1)
      <4>1. i \in 1..Len(queue[v]) /\ queue'[v][i] = queue[v][i]
        <5>1. CASE v = u
          <6>1. i \in 1..Len(queue[u])
            BY <2>3, <2>4, <3>2, <5>1
          <6> QED BY <2>4, <5>1, <6>1
        <5>2. CASE v # u
          BY <2>3, <5>2
        <5> QED BY <5>1, <5>2
      <4> QED BY <2>2, <2>5, <2>7, <4>1
    <3> QED BY <3>1, <3>2
  <2>8. ASSUME NEW v \in Url, NEW i \in 1..Len(queue'[v]),
               NEW k \in 1..Len(queue'[v]), queue'[v][i] = queue'[v][k]
        PROVE  i = k
    <3>1. CASE v = u
      <4>1. \A n \in 1..Len(queue'[u]) :
               \/ n = Len(queue[u]) + 1 /\ queue'[u][n] = p
               \/ /\ n \in 1..Len(queue[u]) /\ queue'[u][n] = queue[u][n]
                  /\ queue[u][n] # p
        <5>1. \A n \in 1..Len(queue[u]) : queue[u][n] # p
          BY <1>3, <2>5
        <5> QED BY <1>3, <2>3, <2>4, <5>1
      <4>2. \A n, m \in 1..Len(queue[u]) : queue[u][n] = queue[u][m] => n = m
        BY <1>3 DEF Channels
      <4> QED BY <2>8, <3>1, <4>1, <4>2
    <3>2. CASE v # u
      BY <2>3, <2>8, <3>2 DEF Channels
    <3> QED BY <3>1, <3>2
  <2>9. ASSUME NEW v \in Url, NEW q \in Job, job'[q] = "queued", To(q)' = v
        PROVE  \E i \in 1..Len(queue'[v]) : queue'[v][i] = q
    <3>1. CASE q = p
      <4>1. Len(queue[u]) + 1 \in 1..Len(queue'[u])
        BY <1>3, <2>3, <2>4
      <4> QED BY <2>1, <2>4, <2>9, <3>1, <4>1
    <3>2. CASE q # p
      <4>1. job[q] = "queued" /\ To(q) = v
        BY <2>1, <2>2, <2>9, <3>2
      <4>2. PICK i \in 1..Len(queue[v]) : queue[v][i] = q
        BY <4>1 DEF Channels
      <4> QED BY <1>3, <2>3, <2>4, <4>2
    <3> QED BY <3>1, <3>2
  <2>10. \A q \in overflow' : job'[q] \notin {"none", "queued", "dropped", "taken"}
    BY <1>3, <1>4, <2>2 DEF Channels, Types, JobTypes
  <2> QED BY <2>6, <2>7, <2>8, <2>9, <2>10 DEF Channels
<1> QED BY <1>5, <1>6, <1>1, <1>2 DEF Submit

(* What Take receives, and what it leaves. *)
LEMMA TakeHead ==
    ASSUME Types, Channels, NEW u \in Url, Take(u)
    PROVE  /\ Head(queue[u]) = queue[u][1] /\ 1 \in 1..Len(queue[u])
           /\ Head(queue[u]) \in Job
           /\ job[Head(queue[u])] = "queued" /\ To(Head(queue[u])) = u
           /\ queue'[u] = Tail(queue[u])
           /\ Len(queue'[u]) = Len(queue[u]) - 1
           /\ \A i \in 1..Len(queue'[u]) : queue'[u][i] = queue[u][i + 1]
           /\ \A v \in Url : v # u => queue'[v] = queue[v]
           /\ job'[Head(queue[u])] = "taken"
           /\ \A q \in Job : q # Head(queue[u]) => job'[q] = job[q]
<1>1. queue[u] \in Seq(Job) /\ queue[u] # <<>>
  BY DEF Take, Types, JobTypes
<1>2. Head(queue[u]) = queue[u][1] /\ 1 \in 1..Len(queue[u]) /\ Head(queue[u]) \in Job
  BY <1>1
<1>3. job[Head(queue[u])] = "queued" /\ To(Head(queue[u])) = u
  BY <1>2 DEF Channels
<1>4. /\ queue'[u] = Tail(queue[u])
      /\ \A v \in Url : v # u => queue'[v] = queue[v]
  BY DEF Take, Types, JobTypes
<1>5. /\ Len(queue'[u]) = Len(queue[u]) - 1
      /\ \A i \in 1..Len(queue'[u]) : queue'[u][i] = queue[u][i + 1]
  BY <1>1, <1>4
<1>6. job'[Head(queue[u])] = "taken"
      /\ \A q \in Job : q # Head(queue[u]) => job'[q] = job[q]
  BY <1>2 DEF Take, Move, Types, JobTypes
<1> QED BY <1>2, <1>3, <1>4, <1>5, <1>6

LEMMA TakeChannels ==
    ASSUME Types, Places, Channels, [Next]_vars, NEW u \in Url, Take(u)
    PROVE  Channels'
<1> DEFINE h == Head(queue[u])
<1>1. UNCHANGED overflow /\ h \notin overflow
  BY TakeHead DEF Take, Channels
<1>2. \A v \in Url : queue[v] \in Seq(Job) /\ Len(queue[v]) \in Nat
  BY DEF Types, JobTypes
<1>3. /\ h = queue[u][1] /\ 1 \in 1..Len(queue[u]) /\ h \in Job
      /\ job[h] = "queued" /\ To(h) = u
      /\ Len(queue'[u]) = Len(queue[u]) - 1
      /\ \A i \in 1..Len(queue'[u]) : queue'[u][i] = queue[u][i + 1]
      /\ \A v \in Url : v # u => queue'[v] = queue[v]
      /\ job'[h] = "taken"
      /\ \A q \in Job : q # h => job'[q] = job[q]
  BY TakeHead
<1> HIDE DEF h
<1>4. ASSUME NEW v \in Url, NEW i \in 1..Len(queue'[v])
      PROVE  \E k \in 1..Len(queue[v]) :
                /\ queue'[v][i] = queue[v][k]
                /\ v = u => k = i + 1
                /\ v # u => k = i
  <2>1. CASE v = u
    <3>1. i + 1 \in 1..Len(queue[u])
      BY <1>2, <1>3, <2>1
    <3> QED BY <1>3, <2>1, <3>1
  <2>2. CASE v # u
    BY <1>3, <2>2
  <2> QED BY <2>1, <2>2
<1>5. ASSUME NEW v \in Url, NEW q \in Job, NEW i \in 1..Len(queue'[v]),
             queue'[v][i] = q
      PROVE  job'[q] = "queued" /\ To(q)' = v
  <2>1. PICK k \in 1..Len(queue[v]) : queue[v][k] = q /\ (v = u => k = i + 1)
    BY <1>4, <1>5
  <2>2. job[q] = "queued" /\ To(q) = v
    BY <2>1 DEF Channels
  <2>3. q # h
    <3>1. CASE v = u
      <4>1. k # 1
        BY <2>1, <3>1
      <4> QED BY <1>3, <2>1, <3>1, <4>1 DEF Channels
    <3>2. CASE v # u
      BY <1>3, <2>2, <3>2
    <3> QED BY <3>1, <3>2
  <2> QED BY <1>3, <2>2, <2>3, ToKept
<1>6. \A v \in Url : Len(queue'[v]) <= QueueSize
  BY <1>2, <1>3, Constants DEF Channels
<1>7. ASSUME NEW v \in Url, NEW i \in 1..Len(queue'[v]),
             NEW k \in 1..Len(queue'[v]), queue'[v][i] = queue'[v][k]
      PROVE  i = k
  <2>1. \A n, m \in 1..Len(queue[v]) : queue[v][n] = queue[v][m] => n = m
    BY DEF Channels
  <2>2. PICK n \in 1..Len(queue[v]) : /\ queue'[v][i] = queue[v][n]
                                      /\ v = u => n = i + 1
                                      /\ v # u => n = i
    BY <1>4
  <2>3. PICK m \in 1..Len(queue[v]) : /\ queue'[v][k] = queue[v][m]
                                      /\ v = u => m = k + 1
                                      /\ v # u => m = k
    BY <1>4
  <2>4. n = m
    BY <1>7, <2>1, <2>2, <2>3
  <2>5. i \in Int /\ k \in Int
    OBVIOUS
  <2> QED BY <2>2, <2>3, <2>4, <2>5
<1>8. ASSUME NEW v \in Url, NEW q \in Job, job'[q] = "queued", To(q)' = v
      PROVE  \E i \in 1..Len(queue'[v]) : queue'[v][i] = q
  <2>1. job[q] = "queued" /\ To(q) = v /\ q # h
    BY <1>3, <1>8, ToKept
  <2>2. PICK i \in 1..Len(queue[v]) : queue[v][i] = q
    BY <2>1 DEF Channels
  <2>3. CASE v = u
    <3>1. i # 1 /\ i \in Nat
      BY <1>3, <2>1, <2>2, <2>3
    <3>2. i - 1 \in 1..Len(queue'[u]) /\ (i - 1) + 1 = i
      BY <1>2, <1>3, <2>2, <2>3, <3>1
    <3>3. queue'[u][i - 1] = q
      BY <1>3, <2>2, <2>3, <3>2
    <3> QED BY <2>3, <3>2, <3>3
  <2>4. CASE v # u
    BY <1>3, <2>2, <2>4
  <2> QED BY <2>3, <2>4
<1>9. \A q \in overflow' : job'[q] \notin {"none", "queued", "dropped", "taken"}
  BY <1>1, <1>3 DEF Channels, Types, JobTypes
<1> QED BY <1>5, <1>6, <1>7, <1>8, <1>9 DEF Channels

LEMMA NextChannels ==
    ASSUME Types, Places, Channels, [Next]_vars
    PROVE  Channels'
<1>1. CASE Aside
  <2>1. UNCHANGED <<job, queue, overflow>>
    BY <1>1 DEF Aside
  <2>2. \A q \in Job : job[q] = "queued" => To(q)' = To(q)
    BY ToKept
  <2> QED BY <2>1, <2>2 DEF Channels
<1>2. ASSUME NEW p \in Job, NEW to \in State, Moves(p, to) PROVE Channels'
  <2>1. /\ Move(p, to) /\ job[p] # "queued" /\ to # "queued" /\ UNCHANGED queue
    BY <1>2 DEF Moves, Busy, Ended
  <2>2. \A q \in overflow' :
           IF q = p THEN to \notin {"none", "queued", "dropped", "taken"}
           ELSE q \in overflow
    <3>1. p \in overflow => job[p] # "dropped"
      BY DEF Channels
    <3> QED BY <1>2, <3>1 DEF Moves, Busy, Ended
  <2> QED BY <2>1, <2>2, MoveChannels
<1> QED BY <1>1, <1>2, SubmitChannels, TakeChannels, StepsOfAJob

-----------------------------------------------------------------------------
(***************************************************************************)
(* Workers and slots                                                       *)
(***************************************************************************)

LEMMA OneMore ==
    ASSUME NEW S, IsFiniteSet(S), NEW x, NEW T \in SUBSET (S \cup {x}), NEW N \in Nat,
           Cardinality(S) < N
    PROVE  Cardinality(T) <= N
<1>1. /\ IsFiniteSet(S \cup {x})
      /\ Cardinality(S \cup {x}) = IF x \in S THEN Cardinality(S)
                                              ELSE Cardinality(S) + 1
  BY FS_AddElement
<1>2. Cardinality(S) \in Nat /\ Cardinality(T) \in Nat
      /\ Cardinality(T) <= Cardinality(S \cup {x})
  BY <1>1, FS_Subset, FS_CardinalityType
<1> QED BY <1>1, <1>2

LEMMA Finites ==
    ASSUME Types
    PROVE  /\ IsFiniteSet(Overflowing) /\ Cardinality(Overflowing) \in Nat
           /\ \A u \in Url : /\ IsFiniteSet(Working(u))
                             /\ Cardinality(Working(u)) \in Nat
                             /\ workers[u] \in Nat
  BY JobFinites DEF Types

(* Only Take gives the workers of a webhook a job, one. *)
LEMMA WorkingGrows ==
    ASSUME Types, Places, Channels, [Next]_vars, NEW u \in Url
    PROVE  \/ Working(u)' \subseteq Working(u)
           \/ Take(u) /\ Working(u)' \subseteq Working(u) \cup {Head(queue[u])}
<1> USE DEF Working
<1>1. CASE Aside
  <2>1. Working(u)' \subseteq Working(u)
    BY <1>1, ToKept DEF Aside, Busy
  <2> QED BY <2>1
<1>2. ASSUME NEW r \in Request, Submit(r) PROVE Working(u)' \subseteq Working(u)
  <2>1. PICK p \in Job : p = <<r, at[r]>>
    BY <1>2, NextPlace DEF Submit
  <2>2. job'[p] \notin Busy /\ \A q \in Job : q # p => job'[q] = job[q]
    BY <1>2, <2>1 DEF Submit, Move, Busy, Types, JobTypes
  <2> QED BY <1>2, <2>2, ToKept DEF Submit, Busy
<1>3. ASSUME NEW v \in Url, Take(v)
      PROVE  \/ Working(u)' \subseteq Working(u)
             \/ v = u /\ Working(u)' \subseteq Working(u) \cup {Head(queue[u])}
  <2>1. PICK h \in Job : h = Head(queue[v])
    BY <1>3, TakeHead
  <2>2. To(h)' = v /\ \A q \in Job : q # h => job'[q] = job[q]
    BY <1>3, <2>1, TakeHead, ToKept
  <2>3. UNCHANGED overflow
    BY <1>3 DEF Take
  <2> QED BY <2>1, <2>2, <2>3, ToKept DEF Busy
<1>4. ASSUME NEW p \in Job, NEW to \in State, Moves(p, to)
      PROVE  Working(u)' \subseteq Working(u)
  <2>1. \A q \in Job : q # p => job'[q] = job[q]
    BY <1>4 DEF Moves, Move, Types, JobTypes
  <2>2. job'[p] = to /\ overflow \subseteq overflow'
    BY <1>4 DEF Moves, Move, Types, JobTypes
  <2>3. p \notin overflow' /\ to \in Busy => job[p] \in Busy
    BY <1>4 DEF Moves, Busy, Ended
  <2> QED BY <2>1, <2>2, <2>3, ToKept DEF Busy
<1> QED BY <1>1, <1>2, <1>3, <1>4, StepsOfAJob

LEMMA NextGoroutines ==
    ASSUME Types, Places, Channels, Goroutines, [Next]_vars
    PROVE  Goroutines'
<1>1. ASSUME NEW u \in Url
      PROVE  Cardinality(Working(u)') <= workers'[u] /\ workers'[u] <= Workers
  <2>1. workers'[u] <= Workers
    BY WorkersChange, Finites, Constants DEF Goroutines
  <2>2. CASE Working(u)' \subseteq Working(u)
    <3>1. Cardinality(Working(u)') <= Cardinality(Working(u))
          /\ Cardinality(Working(u)') \in Nat
      BY <2>2, Finites, FS_Subset, FS_CardinalityType
    <3> QED BY <2>1, <3>1, WorkersChange, Finites, Constants DEF Goroutines
  <2>3. CASE Take(u) /\ Working(u)' \subseteq Working(u) \cup {Head(queue[u])}
    <3>1. Cardinality(Working(u)) < workers[u] /\ workers' = workers
      BY <2>3 DEF Take, Idle
    <3>2. Cardinality(Working(u)') <= workers[u]
      BY <2>3, <3>1, Finites, OneMore
    <3> QED BY <2>1, <3>1, <3>2
  <2> QED BY <2>2, <2>3, WorkingGrows
<1>2. Cardinality(Overflowing') <= Slots
  <2>1. ASSUME Overflowing' \subseteq Overflowing
        PROVE  Cardinality(Overflowing') <= Slots
    <3>1. Cardinality(Overflowing') <= Cardinality(Overflowing)
          /\ Cardinality(Overflowing') \in Nat
      BY <2>1, Finites, FS_Subset, FS_CardinalityType
    <3> QED BY <3>1, Finites, Constants DEF Goroutines
  <2>2. CASE Aside
    BY <2>1, <2>2 DEF Aside, Overflowing
  <2>3. ASSUME NEW p \in Job, job[p] \in {"none", "queued"}, UNCHANGED overflow,
               \A q \in Job : q # p => job'[q] = job[q]
        PROVE  Overflowing' \subseteq Overflowing
    BY <2>3 DEF Overflowing, Channels, Types, JobTypes
  <2>4. ASSUME NEW r \in Request, Submit(r)
        PROVE  Overflowing' \subseteq Overflowing
    <3>1. PICK p \in Job : p = <<r, at[r]>>
      BY <2>4, NextPlace DEF Submit
    <3>2. job[p] = "none" /\ UNCHANGED overflow
          /\ \A q \in Job : q # p => job'[q] = job[q]
      BY <2>4, <3>1, NextPlace DEF Submit, Move, Types, JobTypes
    <3> QED BY <2>3, <3>2
  <2>5. ASSUME NEW u \in Url, Take(u) PROVE Overflowing' \subseteq Overflowing
    BY <2>3, <2>5, TakeHead DEF Take
  <2>6. ASSUME NEW p \in Job, NEW to \in State, Moves(p, to)
        PROVE  Cardinality(Overflowing') <= Slots
    <3>1. \A q \in Job : q # p => job'[q] = job[q]
      BY <2>6 DEF Moves, Move, Types, JobTypes
    <3>2. CASE job[p] \in Busy /\ UNCHANGED overflow
      <4>1. Overflowing' \subseteq Overflowing
        BY <3>1, <3>2 DEF Overflowing, Busy, Ended, Types, JobTypes
      <4> QED BY <2>1, <4>1
    <3>3. CASE job[p] = "dropped" /\ UNCHANGED overflow
      <4>1. Overflowing' \subseteq Overflowing
        BY <3>1, <3>3 DEF Overflowing, Channels, Types, JobTypes
      <4> QED BY <2>1, <4>1
    <3>4. CASE overflow' = overflow \cup {p} /\ Cardinality(Overflowing) < Slots
      <4>1. Overflowing' \subseteq Overflowing \cup {p}
        BY <3>1, <3>4 DEF Overflowing, Types, JobTypes
      <4> QED BY <3>4, <4>1, Finites, OneMore, Constants
    <3> QED BY <2>6, <3>2, <3>3, <3>4 DEF Moves
  <2> QED BY <2>1, <2>2, <2>4, <2>5, <2>6, StepsOfAJob
<1> QED BY <1>1, <1>2 DEF Goroutines

LEMMA InitGoroutines == Init => Goroutines
<1> SUFFICES ASSUME Init PROVE Goroutines
  OBVIOUS
<1>1. Overflowing = {} /\ \A u \in Url : Working(u) = {}
  BY DEF Init, Overflowing, Working, Busy
<1>2. \A u \in Url : workers[u] = InitialWorkers
  BY DEF Init
<1>3. \A u \in Url : Cardinality(Working(u)) <= workers[u] /\ workers[u] <= Workers
  BY <1>1, <1>2, FS_EmptySet, Constants
<1>4. Cardinality(Overflowing) <= Slots
  BY <1>1, FS_EmptySet, Constants
<1> QED BY <1>3, <1>4 DEF Goroutines

-----------------------------------------------------------------------------
(***************************************************************************)
(* SNS events                                                              *)
(***************************************************************************)

LEMMA NextPublishing ==
    ASSUME Types, Publishing, [Next]_vars
    PROVE  Publishing'
<1> USE DEF Publishing, Types, EventTypes
<1>1. ASSUME UNCHANGED <<stage, snsVars>> PROVE Publishing'
  BY <1>1 DEF snsVars, Counted
<1>2. ASSUME NEW r \in Request, Counted(r)',
             \A q \in Request : q # r =>
                /\ stage'[q] = stage[q] /\ tries'[q] = tries[q]
                /\ sends'[q] = sends[q] /\ published'[q] = published[q]
      PROVE  Publishing'
  BY <1>2 DEF Counted
<1>3. ASSUME NEW r \in Request
      PROVE  /\ tries[r] \in Nat /\ sends[r] \in Nat /\ published[r] \in Nat
             /\ MaxSends * tries[r] \in Nat /\ MaxSends \in Nat \ {0}
             /\ MaxSends * (tries[r] + 1) = MaxSends * tries[r] + MaxSends
             /\ MaxSends * 1 = MaxSends /\ MaxTries \in Nat \ {0}
  BY Products, Constants
<1>4. ASSUME NEW r \in Request, Arrive(r) PROVE Publishing'
  <2>1. /\ stage[r] = "none" /\ stage'[r] \in {"alb", "sns", "answered"}
        /\ tries'[r] = 1 /\ UNCHANGED <<sends, published>>
        /\ \A q \in Request : q # r => stage'[q] = stage[q] /\ tries'[q] = tries[q]
    BY <1>4 DEF Arrive, Route
  <2>2. published'[r] = 0 /\ sends'[r] = 0
    BY <2>1 DEF Counted
  <2>3. Counted(r)'
    BY <1>3, <2>1, <2>2 DEF Counted
  <2> QED BY <1>2, <2>1, <2>3
<1>5. ASSUME NEW r \in Request, Answer(r) PROVE Publishing'
  <2>1. /\ stage[r] = "alb" /\ stage'[r] = "answered" /\ UNCHANGED snsVars
        /\ \A q \in Request : q # r => stage'[q] = stage[q]
    BY <1>5 DEF Answer
  <2>2. Counted(r)'
    BY <2>1 DEF snsVars, Counted
  <2> QED BY <1>2, <2>1, <2>2 DEF snsVars
<1>6. ASSUME NEW r \in Request, SendAgain(r) PROVE Publishing'
  <2>1. /\ stage[r] = "sns" /\ UNCHANGED <<stage, tries>>
        /\ sends[r] + 1 < MaxSends /\ sends'[r] = sends[r] + 1
        /\ published'[r] = published[r] \/ published'[r] = published[r] + 1
        /\ \A q \in Request : q # r => /\ sends'[q] = sends[q]
                                       /\ published'[q] = published[q]
    BY <1>6, SentTypes DEF SendAgain
  <2>2. /\ sends[r] < MaxSends
        /\ published[r] + MaxSends <= MaxSends * tries[r] + sends[r]
    BY <2>1 DEF Counted
  <2>3. /\ sends'[r] < MaxSends
        /\ published'[r] + MaxSends <= MaxSends * tries[r] + sends'[r]
        /\ published'[r] <= MaxSends * tries[r]
    <3>1. PICK m \in Nat : m = MaxSends * tries[r]
      BY <1>3
    <3>2. published[r] + MaxSends <= m + sends[r]
      BY <2>2, <3>1
    <3>3. /\ sends[r] + 1 < MaxSends /\ sends'[r] = sends[r] + 1
          /\ published'[r] = published[r] \/ published'[r] = published[r] + 1
      BY <2>1
    <3>4. /\ sends'[r] < MaxSends
          /\ published'[r] + MaxSends <= m + sends'[r]
          /\ published'[r] <= m
      <4>1. /\ sends[r] \in Nat /\ published[r] \in Nat
            /\ MaxSends \in Nat \ {0}
        BY <1>3
      <4> QED BY <3>2, <3>3, <4>1
    <3> QED BY <3>1, <3>4
  <2>4. tries[r] <= MaxTries
    BY DEF Counted
  <2>5. stage'[r] = "sns" /\ tries'[r] = tries[r]
    BY <2>1
  <2>6. Counted(r)'
    BY <2>3, <2>4, <2>5 DEF Counted
  <2> QED BY <1>2, <2>1, <2>6
<1>7. ASSUME NEW r \in Request, Publish(r) PROVE Publishing'
  <2>1. /\ stage[r] = "sns" /\ stage'[r] = "acknowledged" /\ tries' = tries
        /\ published'[r] = published[r] + 1 /\ sends'[r] = 0
        /\ \A q \in Request : q # r => /\ stage'[q] = stage[q]
                                       /\ sends'[q] = sends[q]
                                       /\ published'[q] = published[q]
    BY <1>7 DEF Publish
  <2>2. Counted(r)'
    BY <1>3, <2>1 DEF Counted
  <2> QED BY <1>2, <2>1, <2>2
<1>8. ASSUME NEW r \in Request, PublishFails(r) PROVE Publishing'
  <2>1. /\ stage[r] = "sns" /\ sends'[r] = 0
        /\ published'[r] = published[r] \/ published'[r] = published[r] + 1
        /\ \A q \in Request : q # r => /\ sends'[q] = sends[q]
                                       /\ published'[q] = published[q]
    BY <1>8, SentTypes DEF PublishFails
  <2>2. published'[r] <= MaxSends * tries[r]
    BY <1>3, <2>1 DEF Counted
  <2>3. CASE tries[r] < MaxTries
    <3>1. /\ tries'[r] = tries[r] + 1 /\ stage' = stage
          /\ \A q \in Request : q # r => tries'[q] = tries[q]
      <4>1. tries' = [tries EXCEPT ![r] = @ + 1] /\ stage' = stage
        BY <1>8, <2>3 DEF PublishFails
      <4> QED BY <4>1
    <3>2. Counted(r)'
      BY <1>3, <2>1, <2>2, <2>3, <3>1 DEF Counted
    <3> QED BY <1>2, <2>1, <3>1, <3>2
  <2>4. CASE ~(tries[r] < MaxTries)
    <3>1. /\ stage'[r] = "failed" /\ tries' = tries
          /\ \A q \in Request : q # r => stage'[q] = stage[q]
      BY <1>8, <2>4 DEF PublishFails
    <3>2. Counted(r)'
      BY <1>3, <2>1, <2>2, <2>4, <3>1 DEF Counted
    <3> QED BY <1>2, <2>1, <3>1, <3>2
  <2> QED BY <2>3, <2>4
<1>9. ASSUME NEW r \in Request, Submit(r) PROVE UNCHANGED <<stage, snsVars>>
  BY <1>9 DEF Submit
<1>10. ASSUME NEW u \in Url, Retire(u) \/ Hire(u) \/ Take(u)
       PROVE  UNCHANGED <<stage, snsVars>>
  BY <1>10 DEF Retire, Hire, Take
<1>11. ASSUME NEW p \in Job, JobStep(p) PROVE UNCHANGED <<stage, snsVars>>
  BY <1>11 DEF JobStep, Overflow, Check, AllowRequest, Ends, CutOff
<1>12. ASSUME Tick \/ UNCHANGED vars PROVE UNCHANGED <<stage, snsVars>>
  BY <1>12 DEF Tick, vars
<1> HIDE DEF Publishing, Types, EventTypes
<1> QED BY <1>1, <1>4, <1>5, <1>6, <1>7, <1>8, <1>9, <1>10, <1>11, <1>12 DEF Next

-----------------------------------------------------------------------------
(***************************************************************************)
(* The invariants of the composition                                       *)
(***************************************************************************)

LEMMA Invariance == Spec => []IInv
<1>1. Init => IInv
  BY InitTypes, InitChannels, InitGoroutines DEF IInv
<1>2. IInv /\ [Next]_vars => IInv'
  BY NextTypes, NextPlaces, NextChannels, NextGoroutines, NextPublishing
     DEF IInv
<1> QED BY <1>1, <1>2, PTL DEF Spec

(* Counted as TypeOK counts them, the places of a job in a channel. *)
LEMMA CountInChannel ==
    ASSUME Types, Channels, NEW u \in Url, NEW p \in Job
    PROVE  Cardinality({i \in DOMAIN queue[u] : queue[u][i] = p}) =
              IF job[p] = "queued" /\ To(p) = u THEN 1 ELSE 0
<1> DEFINE Found == {i \in DOMAIN queue[u] : queue[u][i] = p}
<1>1. DOMAIN queue[u] = 1..Len(queue[u])
  BY DEF Types, JobTypes
<1>2. CASE job[p] = "queued" /\ To(p) = u
  <2>1. PICK i \in 1..Len(queue[u]) : queue[u][i] = p
    BY <1>2 DEF Channels
  <2>2. \A k \in 1..Len(queue[u]) : queue[u][k] = p => k = i
    BY <2>1 DEF Channels
  <2>3. Found = {i}
    BY <1>1, <2>1, <2>2
  <2>4. Cardinality(Found) = 1
    BY <2>3, FS_Singleton
  <2> QED BY <1>2, <2>4
<1>3. CASE ~(job[p] = "queued" /\ To(p) = u)
  <2>1. Found = {}
    BY <1>1, <1>3 DEF Channels
  <2>2. Cardinality(Found) = 0
    BY <2>1, FS_EmptySet
  <2> QED BY <1>3, <2>2
<1> QED BY <1>2, <1>3

(* Whatever the number of invocations and the lists of webhooks: a channel *)
(* never holds a job that is not queued, nor one twice, and never more     *)
(* than it has room for; no more goroutines are at work than there are     *)
(* workers and slots (bot_worker_pool.go, alb_processor.go:151).           *)
THEOREM TypeCorrect == Spec => []TypeOK
<1>1. IInv => TypeOK
  <2> SUFFICES ASSUME IInv PROVE TypeOK
    OBVIOUS
  <2>1. clock \in 1..MaxTime
        /\ stage \in [Request -> {"none", "alb", "answered", "sns",
                                  "acknowledged", "failed"}]
    BY DEF IInv, Types, EventTypes, Stage
  <2>2. job \in [Job -> {"none", "queued", "dropped"} \cup Busy \cup Ended]
        /\ overflow \subseteq Job
    BY DEF IInv, Types, JobTypes, State
  <2>3. \A u \in Url : workers[u] \in 0..Workers
    BY Constants DEF IInv, Types, Goroutines
  <2>4. \A u \in Url : Len(queue[u]) <= QueueSize
    BY DEF IInv, Channels
  <2>5. /\ \A u \in Url : Cardinality(Working(u)) <= workers[u]
        /\ Cardinality(Overflowing) <= Slots
    BY DEF IInv, Goroutines
  <2>6. \A u \in Url, p \in Job :
           Cardinality({i \in DOMAIN queue[u] : queue[u][i] = p}) =
              IF job[p] = "queued" /\ To(p) = u THEN 1 ELSE 0
    BY CountInChannel DEF IInv
  <2> QED BY <2>1, <2>2, <2>3, <2>4, <2>5, <2>6 DEF TypeOK
<1> QED BY <1>1, Invariance, PTL

(* However often Lambda runs an SNS event and the client sends it within a *)
(* run: what Lambda is told was processed SNS took, what is given up ran   *)
(* as often as Lambda runs it, and copies are as many as sends at most.    *)
THEOREM AcknowledgedWasPublished == Spec => []AcknowledgedIsOut
<1>1. IInv => AcknowledgedIsOut
  BY DEF IInv, Publishing, Counted, AcknowledgedIsOut
<1> QED BY <1>1, Invariance, PTL

-----------------------------------------------------------------------------
(***************************************************************************)
(* The promise of WorkerPool, for the pool of every webhook                *)
(***************************************************************************)

Finished(u) == {p \in Job \ overflow :
                   job[p] \in Ended \ {"lost"} /\ To(p) = u}

LEMMA PoolStutters ==
    ASSUME NEW u \in Url, UNCHANGED <<queue[u], Working(u), Finished(u)>>
    PROVE  UNCHANGED Pool(u)!vars
  BY DEF Pool!vars, Finished

LEMMA PoolInit ==
    ASSUME Init, NEW u \in Url
    PROVE  Pool(u)!Init
<1>1. queue[u] = <<>>
  BY DEF Init
<1>2. Working(u) = {} /\ Finished(u) = {}
  BY DEF Init, Working, Finished, Busy, Ended
<1> QED BY <1>1, <1>2 DEF Pool!Init, Finished

LEMMA SubmitAccepts ==
    ASSUME Types, Places, Channels, [Next]_vars,
           NEW r \in Request, Submit(r), NEW u \in Url
    PROVE  \/ \E p \in Job : Pool(u)!Accept(p)
           \/ UNCHANGED Pool(u)!vars
<1>1. PICK p \in Job : p = <<r, at[r]>>
  BY NextPlace DEF Submit
<1>2. PICK v \in Url : v = To(p)
  BY <1>1, NextPlace DEF Submit
<1>3. job[p] = "none" /\ UNCHANGED <<urls, overflow>>
  BY <1>1, NextPlace DEF Submit
<1>4. /\ job'[p] \notin Busy /\ job'[p] \notin Ended
      /\ \A q \in Job : q # p => job'[q] = job[q]
  BY <1>1 DEF Submit, Move, Busy, Ended, Types, JobTypes
<1>5. Working(u)' = Working(u) /\ Finished(u)' = Finished(u)
  BY <1>3, <1>4, ToKept DEF Working, Finished, Busy, Ended
<1>6. CASE queue'[u] = queue[u]
  BY <1>5, <1>6, PoolStutters
<1>7. CASE queue'[u] # queue[u]
  <2>1. Len(queue[u]) < QueueSize /\ queue'[u] = Append(queue[u], p)
    BY <1>1, <1>2, <1>7 DEF Submit, Types, JobTypes
  <2>2. \A i \in 1..Len(queue[u]) : queue[u][i] # p
    BY <1>3 DEF Channels
  <2>3. p \notin Working(u) /\ p \notin Finished(u)
    BY <1>3 DEF Working, Finished, Busy, Ended
  <2>4. Pool(u)!Accept(p)
    BY <1>5, <2>1, <2>2, <2>3 DEF Pool!Accept, Pool!Known, Finished
  <2> QED BY <2>4
<1> QED BY <1>6, <1>7

LEMMA TakeStarts ==
    ASSUME Types, Places, Channels, [Next]_vars,
           NEW v \in Url, Take(v), NEW u \in Url
    PROVE  Pool(u)!Start \/ UNCHANGED Pool(u)!vars
<1>1. PICK h \in Job : h = Head(queue[v])
  BY TakeHead
<1>2. /\ job[h] = "queued" /\ To(h) = v /\ To(h)' = v /\ job'[h] = "taken"
      /\ \A q \in Job : q # h => job'[q] = job[q]
      /\ UNCHANGED overflow /\ h \notin overflow
  <2>1. /\ job[h] = "queued" /\ To(h) = v /\ job'[h] = "taken"
        /\ \A q \in Job : q # h => job'[q] = job[q]
    BY <1>1, TakeHead
  <2>2. To(h)' = To(h)
    BY <2>1, ToKept
  <2>3. UNCHANGED overflow /\ h \notin overflow
    BY <2>1 DEF Take, Channels
  <2> QED BY <2>1, <2>2, <2>3
<1>3. Finished(u)' = Finished(u)
  BY <1>2, ToKept DEF Finished, Ended
<1>4. CASE v = u
  <2>1. Working(u)' = Working(u) \cup {h}
    BY <1>2, <1>4, ToKept DEF Working, Busy
  <2>2. queue[u] # <<>> /\ queue'[u] = Tail(queue[u])
    BY <1>4, TakeHead DEF Take
  <2> QED BY <1>1, <1>3, <1>4, <2>1, <2>2 DEF Pool!Start, Finished
<1>5. CASE v # u
  <2>1. Working(u)' = Working(u)
    BY <1>2, <1>5, ToKept DEF Working, Busy
  <2>2. queue'[u] = queue[u]
    BY <1>5, TakeHead
  <2> QED BY <1>3, <2>1, <2>2, PoolStutters
<1> QED BY <1>4, <1>5

LEMMA MoveFinishes ==
    ASSUME Types, Places, Channels, [Next]_vars,
           NEW p \in Job, NEW to \in State, Moves(p, to), NEW u \in Url
    PROVE  Pool(u)!Finish(p) \/ UNCHANGED Pool(u)!vars
<1>1. /\ job'[p] = to /\ \A q \in Job : q # p => job'[q] = job[q]
      /\ UNCHANGED <<queue, urls>>
  BY DEF Moves, Move, Types, JobTypes
<1>2. \A q \in Job : To(q)' = To(q)
  BY <1>1 DEF To
<1>3. CASE job[p] \in Busy /\ UNCHANGED overflow /\ p \notin overflow
           /\ To(p) = u /\ to \in Ended \ {"lost"}
  <2>1. p \in Working(u) /\ Working(u)' = Working(u) \ {p}
    BY <1>1, <1>2, <1>3 DEF Working, Busy, Ended
  <2>2. Finished(u)' = Finished(u) \cup {p}
    BY <1>1, <1>2, <1>3 DEF Finished
  <2> QED BY <1>1, <2>1, <2>2 DEF Pool!Finish, Finished
<1>4. CASE \/ p \in overflow /\ UNCHANGED overflow
           \/ To(p) # u /\ UNCHANGED overflow
           \/ job[p] = "dropped" /\ to = "lost" /\ UNCHANGED overflow
           \/ job[p] = "dropped" /\ overflow' = overflow \cup {p}
           \/ job[p] \in Busy /\ to \in Busy /\ UNCHANGED overflow
  <2>1. Working(u)' = Working(u)
    BY <1>1, <1>2, <1>4 DEF Working, Busy
  <2>2. Finished(u)' = Finished(u)
    BY <1>1, <1>2, <1>4 DEF Finished, Busy, Ended
  <2> QED BY <1>1, <2>1, <2>2, PoolStutters
<1> QED BY <1>3, <1>4 DEF Moves, Busy

LEMMA StepKeepsPromise ==
    ASSUME IInv, [Next]_vars, NEW u \in Url
    PROVE  Pool(u)!Next \/ UNCHANGED Pool(u)!vars
<1> USE DEF IInv
<1>1. CASE Aside
  <2>1. /\ \A q \in Job : job'[q] = job[q]
        /\ UNCHANGED <<queue, overflow>>
    BY <1>1 DEF Aside
  <2>2. Working(u)' = Working(u) /\ Finished(u)' = Finished(u)
    BY <2>1, ToKept DEF Working, Finished, Busy, Ended
  <2> QED BY <2>1, <2>2, PoolStutters
<1>2. ASSUME NEW r \in Request, Submit(r)
      PROVE  Pool(u)!Next \/ UNCHANGED Pool(u)!vars
  BY <1>2, SubmitAccepts DEF Pool!Next
<1>3. ASSUME NEW v \in Url, Take(v)
      PROVE  Pool(u)!Next \/ UNCHANGED Pool(u)!vars
  BY <1>3, TakeStarts DEF Pool!Next
<1>4. ASSUME NEW p \in Job, NEW to \in State, Moves(p, to)
      PROVE  Pool(u)!Next \/ UNCHANGED Pool(u)!vars
  BY <1>4, MoveFinishes DEF Pool!Next
<1> QED BY <1>1, <1>2, <1>3, <1>4, StepsOfAJob

(* The composition implements WorkerPool once for every webhook: what      *)
(* invocations, overflow, breaker and cut-off calls do to a job, its pool  *)
(* starts it at most once, in the order of the channel, and never after an *)
(* overflow goroutine took it over. *)
THEOREM EveryPoolKeepsPromise == Spec => PoolsKeepPromise
<1>1. Init => \A u \in Url : Pool(u)!Init
  BY PoolInit
<1>2. IInv /\ [Next]_vars =>
         [\A u \in Url : Pool(u)!Next \/ UNCHANGED Pool(u)!vars]_vars
  BY StepKeepsPromise
<1> QED BY <1>1, <1>2, Invariance, PTL DEF Spec, PoolsKeepPromise
=============================================================================
