----------------------------- MODULE WorkerPool -----------------------------
(***************************************************************************)
(* What a worker pool promises to the code that submits jobs to it (the    *)
(* WorkerPool interface of internal/handler/interfaces.go): a bounded      *)
(* first-in first-out queue whose jobs are each started at most once, and  *)
(* a Shutdown after which no job starts and none is still running.         *)
(*                                                                         *)
(* BotWorkerPool is the implementation; its refinement mapping reads       *)
(* `waiting` off the channel and `running` off the goroutines.             *)
(***************************************************************************)
EXTENDS Naturals, Sequences

CONSTANTS
    Jobs,        \* the jobs that may ever be submitted
    QueueSize    \* the capacity of the queue

VARIABLES
    waiting,     \* accepted jobs no worker has started, oldest first
    running,     \* jobs a worker has started and not finished
    finished,    \* jobs a worker is done with, forwarded or skipped
    closed       \* has Shutdown returned?

vars == <<waiting, running, finished, closed>>

Init == /\ waiting = <<>>
        /\ running = {}
        /\ finished = {}
        /\ closed = FALSE

Known == {waiting[i] : i \in 1..Len(waiting)} \cup running \cup finished

(* Submit answers true: there was room. It never asks whether the pool is  *)
(* closed, so a job can be accepted that nobody will ever start.           *)
Accept(j) == /\ j \notin Known
             /\ Len(waiting) < QueueSize
             /\ waiting' = Append(waiting, j)
             /\ UNCHANGED <<running, finished, closed>>

(* A worker starts the oldest job. *)
Start == /\ ~closed
         /\ waiting # <<>>
         /\ waiting' = Tail(waiting)
         /\ running' = running \cup {Head(waiting)}
         /\ UNCHANGED <<finished, closed>>

Finish(j) == /\ j \in running
             /\ running' = running \ {j}
             /\ finished' = finished \cup {j}
             /\ UNCHANGED <<waiting, closed>>

(* Shutdown returns. *)
Close == /\ running = {}
         /\ closed' = TRUE
         /\ UNCHANGED <<waiting, running, finished>>

Next == \/ \E j \in Jobs : Accept(j) \/ Finish(j)
        \/ Start
        \/ Close

Spec == Init /\ [][Next]_vars
=============================================================================
