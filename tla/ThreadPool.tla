----------------------------- MODULE ThreadPool -----------------------------
(***************************************************************************)
(* IM-Server's ThreadPool.  Only the thread that runs the event loop calls *)
(* Enqueue, and the same thread runs the destructor when the static pool   *)
(* is destroyed, so there is one caller.  Enqueue pushes under             *)
(* queue_mutex_ and notifies after releasing it, as the destructor does    *)
(* with stop_: each is two steps, and the workers run between them.  The   *)
(* notification wakes a worker that sleeps on condition_, or nobody.       *)
(***************************************************************************)
EXTENDS Naturals, Sequences, FiniteSets

CONSTANTS Workers,          \* the pool's threads, four in the code
          MaxTasks          \* bound: calls of Enqueue

ASSUME WorkersAssumption == IsFiniteSet(Workers) /\ Workers # {}
ASSUME MaxTasksAssumption == MaxTasks \in Nat

VARIABLES tasks,            \* tasks_, tasks numbered in the order of Enqueue
          stop,             \* stop_
          caller,           \* the event-loop thread
          worker,           \* where each worker is
          task,             \* the task each worker took last, 0 for none
          submitted,        \* number of calls of Enqueue
          started,          \* history: tasks taken, in order
          finished          \* history: tasks that returned

vars == <<tasks, stop, caller, worker, task, submitted, started, finished>>

TypeOK == /\ tasks \in Seq(1 .. MaxTasks)
          /\ stop \in BOOLEAN
          /\ caller \in {"polling", "notifying", "stopping", "joining", "joined"}
          /\ worker \in [Workers -> {"checking", "asleep", "running", "exited"}]
          /\ task \in [Workers -> 0 .. MaxTasks]
          /\ submitted \in 0 .. MaxTasks
          /\ started \in Seq(1 .. MaxTasks)
          /\ finished \subseteq 1 .. MaxTasks

Init == /\ tasks = <<>>
        /\ stop = FALSE
        /\ caller = "polling"
        /\ worker = [w \in Workers |-> "checking"]
        /\ task = [w \in Workers |-> 0]
        /\ submitted = 0
        /\ started = <<>>
        /\ finished = {}

In(state) == {w \in Workers : worker[w] = state}
Sleepers == In("asleep")

-----------------------------------------------------------------------------
(* Seeded faults.                                                          *)

FaultNotifyOnlyIfEmpty == IF tasks = <<>> THEN "notifying" ELSE "polling"
FaultNeverNotify == "polling"
FaultMayExit == stop
FaultNotifyOneAtStop == IF Sleepers = {} THEN {} ELSE {CHOOSE w \in Sleepers : TRUE}
FaultRest(s) == s                    \* front() without pop()
FaultNextTask == 0                   \* pop() before the move: an empty function

-----------------------------------------------------------------------------
\* What follows the push: condition_.notify_one(), unconditionally.
AfterPush == "notifying"

Enqueue == /\ caller = "polling"
           /\ submitted < MaxTasks
           /\ submitted' = submitted + 1
           /\ tasks' = Append(tasks, submitted')
           /\ caller' = AfterPush
           /\ UNCHANGED <<stop, worker, task, started, finished>>

Wake(ws) == worker' = [w \in Workers |-> IF w \in ws THEN "checking" ELSE worker[w]]

NotifyOne == /\ caller = "notifying"
             /\ caller' = "polling"
             /\ IF Sleepers = {} THEN Wake({}) ELSE \E w \in Sleepers : Wake({w})
             /\ UNCHANGED <<tasks, stop, task, submitted, started, finished>>

\* The destructor, first half.
SetStop == /\ caller = "polling"
           /\ stop' = TRUE
           /\ caller' = "stopping"
           /\ UNCHANGED <<tasks, worker, task, submitted, started, finished>>

WokenAtStop == Sleepers

NotifyAll == /\ caller = "stopping"
             /\ Wake(WokenAtStop)
             /\ caller' = "joining"
             /\ UNCHANGED <<tasks, stop, task, submitted, started, finished>>

Join == /\ caller = "joining"
        /\ In("exited") = Workers
        /\ caller' = "joined"
        /\ UNCHANGED <<tasks, stop, worker, task, submitted, started, finished>>

\* A worker holds queue_mutex_ from the evaluation of the wait predicate to
\* the pop, and releases it to sleep.
MayExit == stop /\ tasks = <<>>

Sleep(w) == /\ worker[w] = "checking"
            /\ ~stop
            /\ tasks = <<>>
            /\ worker' = [worker EXCEPT ![w] = "asleep"]
            /\ UNCHANGED <<tasks, stop, caller, task, submitted, started, finished>>

SpuriousWake(w) == /\ worker[w] = "asleep"
                   /\ Wake({w})
                   /\ UNCHANGED <<tasks, stop, caller, task, submitted, started, finished>>

Exit(w) == /\ worker[w] = "checking"
           /\ MayExit
           /\ worker' = [worker EXCEPT ![w] = "exited"]
           /\ UNCHANGED <<tasks, stop, caller, task, submitted, started, finished>>

NextTask == Head(tasks)
Rest(s) == Tail(s)

Take(w) == /\ worker[w] = "checking"
           /\ tasks # <<>>
           /\ ~MayExit
           /\ task' = [task EXCEPT ![w] = NextTask]
           /\ tasks' = Rest(tasks)
           /\ started' = Append(started, NextTask)
           /\ worker' = [worker EXCEPT ![w] = "running"]
           /\ UNCHANGED <<stop, caller, submitted, finished>>

\* task() returns.  A task that throws ends the process and is not modelled
\* here.
Finish(w) == /\ worker[w] = "running"
             /\ finished' = finished \union {task[w]}
             /\ worker' = [worker EXCEPT ![w] = "checking"]
             /\ UNCHANGED <<tasks, stop, caller, task, submitted, started>>

WorkerStep(w) == Sleep(w) \/ Exit(w) \/ Take(w) \/ Finish(w)
CallerStep == NotifyOne \/ NotifyAll \/ Join

Next == \/ Enqueue \/ SetStop \/ CallerStep
        \/ \E w \in Workers : WorkerStep(w) \/ SpuriousWake(w)

Spec == Init /\ [][Next]_vars

\* The threads are scheduled and a task that runs returns; no client has to
\* send a request and nobody has to stop the server.
FairSpec == /\ Spec
            /\ WF_vars(CallerStep)
            /\ \A w \in Workers : WF_vars(WorkerStep(w))

-----------------------------------------------------------------------------
(* Nobody sleeps beside a task that is not provided for: as long as some   *)
(* worker sleeps, every queued task has a worker of its own on the way to  *)
(* it or a notification still to be sent.  Notifying once per push, and    *)
(* not only when the queue was empty, is what this rests on.               *)
Provided == Cardinality(In("checking")) + (IF caller = "notifying" THEN 1 ELSE 0)
NoSleepBesideTask == Sleepers # {} => Len(tasks) <= Provided

(* Tasks are taken exactly once and in the order of Enqueue.  (They finish *)
(* in any order.)                                                          *)
TakenInOrder == started \o tasks = [k \in 1 .. submitted |-> k]

(* The pool is a FIFO channel: each task goes to one worker, in the order  *)
(* of Enqueue although several workers take them; setting stop_ lets no    *)
(* further task in and loses none; and the destructor does not return      *)
(* before the last one was taken.                                          *)
Channel == INSTANCE ClosableChannel
             WITH Entry <- 1 .. MaxTasks,
                  pending <- tasks,
                  delivered <- started,
                  open <- ~stop,
                  finished <- (caller = "joined")

ImplementsChannel == Channel!Spec

(* When the destructor has joined the workers, every task ever submitted   *)
(* has been run to its end.                                                *)
JoinedMeansDone == caller = "joined" => finished = 1 .. submitted

(* Every submitted task is started, whether or not more tasks follow.      *)
EveryTaskStarts == \A k \in 1 .. MaxTasks :
                     (submitted >= k) ~> (\E i \in 1 .. Len(started) : started[i] = k)

(* The destructor returns: stop_ reaches the workers that sleep.           *)
StopJoins == stop ~> (caller = "joined")

(* A task is run by one worker at a time and never again once it has       *)
(* returned: front() and pop() under the mutex hand each task to one       *)
(* worker, although all of them go on to the next one by themselves.       *)
RunsOnce == \A w \in In("running") :
              /\ task[w] \notin finished
              /\ \A v \in In("running") : task[v] = task[w] => v = w

(* When the destructor joins, nobody sleeps and nobody will: notify_all    *)
(* comes after stop_, and a worker that sees stop_ does not wait.          *)
NoneSleepsAtJoin == caller \in {"joining", "joined"} => Sleepers = {}

-----------------------------------------------------------------------------
(* The inductive invariant adds where a started task is, who may have      *)
(* exited and when, and how the caller's place goes with stop_.            *)
StartedIsHeld == \A i \in 1 .. Len(started) :
                   \/ started[i] \in finished
                   \/ \E w \in Workers : worker[w] = "running" /\ task[w] = started[i]
FinishedWasStarted == \A k \in finished : k <= submitted
RunningWasTaken == \A w \in Workers : worker[w] = "running" => task[w] \in 1 .. submitted
ExitedOnlyAtStop == (\E w \in Workers : worker[w] = "exited") => MayExit
JoinedMeansExited == caller = "joined" => In("exited") = Workers
StopStates == stop <=> caller \in {"stopping", "joining", "joined"}

PoolInv == /\ NoSleepBesideTask
           /\ TakenInOrder
           /\ StartedIsHeld
           /\ FinishedWasStarted
           /\ RunningWasTaken
           /\ ExitedOnlyAtStop
           /\ JoinedMeansExited
           /\ StopStates
=============================================================================
