-------------------------- MODULE ThreadPoolProofs --------------------------
(***************************************************************************)
(* Theorems about ThreadPool, for any finite number of workers and any     *)
(* number of tasks: its type invariant, the inductive invariant PoolInv,   *)
(* and what follows from it: no worker sleeps beside an unprovided task,   *)
(* the destructor joins only workers that are awake and returns with all   *)
(* tasks done, no task is run twice, and the pool refines ClosableChannel. *)
(***************************************************************************)
EXTENDS ThreadPool, SequenceLemmas, FiniteSetTheorems

-----------------------------------------------------------------------------
(* One step keeps every variable's type.  The type of finished needs to    *)
(* know that a worker that runs holds a task.                              *)
LEMMA TypeStep == TypeOK /\ RunningWasTaken /\ [Next]_vars => TypeOK'
<1> SUFFICES ASSUME TypeOK, RunningWasTaken, [Next]_vars PROVE TypeOK'
  OBVIOUS
<1> USE DEF TypeOK
<1>1. CASE Enqueue
  <2>1. submitted' \in 1 .. MaxTasks
    BY <1>1, MaxTasksAssumption DEF Enqueue
  <2>2. tasks' \in Seq(1 .. MaxTasks)
    BY <1>1, <2>1 DEF Enqueue
  <2> QED
    BY <1>1, <2>1, <2>2, MaxTasksAssumption DEF Enqueue, AfterPush
<1>2. CASE NotifyOne
  BY <1>2 DEF NotifyOne, Wake
<1>3. CASE SetStop
  BY <1>3 DEF SetStop
<1>4. CASE NotifyAll
  BY <1>4 DEF NotifyAll, Wake
<1>5. CASE Join
  BY <1>5 DEF Join
<1>6. ASSUME NEW w \in Workers, Sleep(w) PROVE TypeOK'
  BY <1>6 DEF Sleep
<1>7. ASSUME NEW w \in Workers, SpuriousWake(w) PROVE TypeOK'
  BY <1>7 DEF SpuriousWake, Wake
<1>8. ASSUME NEW w \in Workers, Exit(w) PROVE TypeOK'
  BY <1>8 DEF Exit
<1>9. ASSUME NEW w \in Workers, Take(w) PROVE TypeOK'
  <2>1. Head(tasks) \in 1 .. MaxTasks /\ Tail(tasks) \in Seq(1 .. MaxTasks)
    BY <1>9, HeadTailProperties DEF Take
  <2>2. Append(started, Head(tasks)) \in Seq(1 .. MaxTasks)
    BY <2>1
  <2> QED
    BY <1>9, <2>1, <2>2, MaxTasksAssumption DEF Take, NextTask, Rest
<1>10. ASSUME NEW w \in Workers, Finish(w) PROVE TypeOK'
  <2>1. task[w] \in 1 .. MaxTasks
    BY <1>10, MaxTasksAssumption DEF Finish, RunningWasTaken
  <2> QED
    BY <1>10, <2>1 DEF Finish
<1>11. CASE UNCHANGED vars
  BY <1>11 DEF vars
<1> QED
  BY <1>1, <1>2, <1>3, <1>4, <1>5, <1>6, <1>7, <1>8, <1>9, <1>10, <1>11
     DEF Next, CallerStep, WorkerStep

-----------------------------------------------------------------------------
(* One step keeps the order in which tasks are taken, and a taken task has *)
(* a number that Enqueue has given out.                                    *)
LEMMA OrderStep ==
  TypeOK /\ TypeOK' /\ TakenInOrder /\ [Next]_vars => TakenInOrder'
<1> SUFFICES ASSUME TypeOK, TypeOK', TakenInOrder, [Next]_vars PROVE TakenInOrder'
  OBVIOUS
<1>0. tasks \in Seq(Nat) /\ started \in Seq(Nat) /\ submitted \in Nat
  BY MaxTasksAssumption DEF TypeOK
<1>1. CASE Enqueue
  <2> DEFINE e == submitted + 1
  <2>1. e \in Nat /\ <<e>> \in Seq(Nat)
    BY <1>0
  <2> HIDE DEF e
  <2>2. Append(tasks, e) = tasks \o <<e>>
    BY <1>0, <2>1, AppendIsConcat
  <2>3. started \o (tasks \o <<e>>) = (started \o tasks) \o <<e>>
    BY <1>0, <2>1, ConcatAssociative
  <2>4. started \o tasks \in Seq(Nat)
    BY <1>0, ConcatProperties
  <2>5. (started \o tasks) \o <<e>> = Append(started \o tasks, e)
    BY <2>1, <2>4, AppendIsConcat
  <2>6. Append([k \in 1 .. submitted |-> k], e) = [k \in 1 .. e |-> k]
    BY <1>0, AppendNext DEF e
  <2>7. submitted' = e /\ tasks' = Append(tasks, e) /\ started' = started
    BY <1>1 DEF Enqueue, e
  <2> QED
    BY <2>2, <2>3, <2>5, <2>6, <2>7 DEF TakenInOrder
<1>2. ASSUME NEW w \in Workers, Take(w) PROVE TakenInOrder'
  <2>1. tasks # <<>> /\ tasks' = Tail(tasks) /\ started' = Append(started, Head(tasks))
        /\ submitted' = submitted
    BY <1>2 DEF Take, NextTask, Rest
  <2>2. started' \o tasks' = started \o tasks
    BY <1>0, <2>1, ShiftHead
  <2> QED
    BY <2>1, <2>2 DEF TakenInOrder
<1>3. CASE UNCHANGED <<tasks, started, submitted>>
  BY <1>3 DEF TakenInOrder
<1>4. CASE CallerStep \/ SetStop
  BY <1>3, <1>4 DEF CallerStep, NotifyOne, NotifyAll, Join, SetStop
<1>5. ASSUME NEW w \in Workers, Sleep(w) \/ Exit(w) \/ Finish(w) \/ SpuriousWake(w)
      PROVE  TakenInOrder'
  BY <1>3, <1>5 DEF Sleep, Exit, Finish, SpuriousWake
<1>6. CASE UNCHANGED vars
  BY <1>3, <1>6 DEF vars
<1> QED
  BY <1>1, <1>2, <1>4, <1>5, <1>6 DEF Next, WorkerStep

(* The number at the head of a queue in order has been given out, and is   *)
(* the one after those that were taken.                                    *)
LEMMA HeadWasSubmitted ==
  TypeOK /\ TakenInOrder /\ tasks # <<>> =>
    Head(tasks) \in 1 .. submitted /\ Head(tasks) = Len(started) + 1
<1> SUFFICES ASSUME TypeOK, TakenInOrder, tasks # <<>>
             PROVE  Head(tasks) \in 1 .. submitted /\ Head(tasks) = Len(started) + 1
  OBVIOUS
<1>0. tasks \in Seq(Nat) /\ started \in Seq(Nat) /\ submitted \in Nat
  BY MaxTasksAssumption DEF TypeOK
<1>1. Len(tasks) \in Nat \ {0} /\ Len(started) \in Nat
  BY <1>0, EmptySeq, LenProperties
<1>2. /\ Len(started \o tasks) = Len(started) + Len(tasks)
      /\ (started \o tasks)[Len(started) + 1] = tasks[1]
  BY <1>0, <1>1, ConcatProperties
<1>3. Len([k \in 1 .. submitted |-> k]) = submitted
  BY <1>0
<1>4. Len(started) + 1 \in 1 .. submitted
  <2>1. Len(started) + Len(tasks) = submitted
    BY <1>2, <1>3 DEF TakenInOrder
  <2> QED
    BY <1>0, <1>1, <2>1
<1>5. tasks[1] = Len(started) + 1
  BY <1>2, <1>4 DEF TakenInOrder
<1> QED
  BY <1>0, <1>4, <1>5

-----------------------------------------------------------------------------
(* One step keeps a notification or an awake worker for every queued task. *)
LEMMA ProvidedStep ==
  TypeOK /\ TypeOK' /\ StopStates /\ NoSleepBesideTask /\ [Next]_vars
    => NoSleepBesideTask'
<1> SUFFICES ASSUME TypeOK, TypeOK', StopStates, NoSleepBesideTask, [Next]_vars
             PROVE  NoSleepBesideTask'
  OBVIOUS
<1> DEFINE C == In("checking")
<1>0. /\ IsFiniteSet(C) /\ Cardinality(C) \in Nat
      /\ IsFiniteSet(C') /\ Cardinality(C') \in Nat
      /\ Len(tasks) \in Nat /\ Len(tasks') \in Nat
  <2>1. C \subseteq Workers /\ C' \subseteq Workers
    BY DEF In
  <2> QED
    BY <2>1, WorkersAssumption, FS_Subset, FS_CardinalityType, LenProperties DEF TypeOK
<1>1. ASSUME NEW w \in Workers, worker[w] # "checking",
             worker' = [worker EXCEPT ![w] = "checking"]
      PROVE  Cardinality(C') = Cardinality(C) + 1
  <2>1. C' = C \union {w} /\ w \notin C
    BY <1>1 DEF In, TypeOK
  <2> QED
    BY <1>0, <2>1, FS_AddElement
<1>2. ASSUME NEW w \in Workers, Wake({w})
      PROVE  worker' = [worker EXCEPT ![w] = "checking"]
  BY <1>2 DEF Wake, TypeOK
<1>3. CASE Enqueue
  <2>1. Len(tasks') = Len(tasks) + 1
    BY <1>3 DEF Enqueue, TypeOK
  <2>2. C' = C /\ Sleepers' = Sleepers /\ caller = "polling" /\ caller' = "notifying"
    BY <1>3 DEF Enqueue, AfterPush, In, Sleepers
  <2> QED
    BY <1>0, <2>1, <2>2 DEF NoSleepBesideTask, Provided
<1>4. CASE NotifyOne
  <2>0. tasks' = tasks /\ caller = "notifying" /\ caller' = "polling"
    BY <1>4 DEF NotifyOne
  <2>1. CASE Sleepers = {}
    <3>1. Sleepers' = {}
      BY <1>4, <2>1 DEF NotifyOne, Wake, Sleepers, In, TypeOK
    <3> QED
      BY <3>1 DEF NoSleepBesideTask
  <2>2. ASSUME NEW w \in Sleepers, Wake({w}) PROVE NoSleepBesideTask'
    <3>1. w \in Workers /\ worker[w] # "checking" /\ Sleepers # {}
      BY <2>2 DEF Sleepers, In
    <3>2. Cardinality(C') = Cardinality(C) + 1
      BY <1>1, <1>2, <2>2, <3>1
    <3> QED
      BY <1>0, <2>0, <3>1, <3>2 DEF NoSleepBesideTask, Provided
  <2> QED
    BY <1>4, <2>1, <2>2 DEF NotifyOne
<1>5. CASE NotifyAll
  <2>1. Sleepers' = {}
    BY <1>5 DEF NotifyAll, Wake, WokenAtStop, Sleepers, In, TypeOK
  <2> QED
    BY <2>1 DEF NoSleepBesideTask
<1>6. CASE SetStop
  BY <1>6 DEF SetStop, NoSleepBesideTask, Provided, Sleepers, In
<1>7. CASE Join
  BY <1>7 DEF Join, NoSleepBesideTask, Provided, Sleepers, In
<1>8. ASSUME NEW w \in Workers, Sleep(w) PROVE NoSleepBesideTask'
  <2>1. Len(tasks') = 0 /\ (caller' = "notifying" <=> caller = "notifying")
    BY <1>8 DEF Sleep
  <2> QED
    BY <1>0, <2>1 DEF NoSleepBesideTask, Provided
<1>9. ASSUME NEW w \in Workers, SpuriousWake(w) PROVE NoSleepBesideTask'
  <2>1. worker[w] # "checking" /\ Sleepers # {} /\ tasks' = tasks /\ caller' = caller
    BY <1>9 DEF SpuriousWake, Sleepers, In
  <2>2. Cardinality(C') = Cardinality(C) + 1
    BY <1>1, <1>2, <1>9, <2>1 DEF SpuriousWake
  <2> QED
    BY <1>0, <2>1, <2>2 DEF NoSleepBesideTask, Provided
<1>10. ASSUME NEW w \in Workers, Exit(w) PROVE NoSleepBesideTask'
  <2>1. Len(tasks') = 0
    BY <1>10 DEF Exit, MayExit
  <2> QED
    BY <1>0, <2>1 DEF NoSleepBesideTask, Provided
<1>11. ASSUME NEW w \in Workers, Take(w) PROVE NoSleepBesideTask'
  <2>1. Len(tasks') = Len(tasks) - 1 /\ caller' = caller
    BY <1>11, HeadTailProperties DEF Take, Rest, TypeOK
  <2>2. C' = C \ {w} /\ w \in C /\ Sleepers' = Sleepers
    BY <1>11 DEF Take, In, Sleepers, TypeOK
  <2>3. Cardinality(C') = Cardinality(C) - 1
    BY <1>0, <2>2, FS_RemoveElement
  <2> QED
    BY <1>0, <2>1, <2>2, <2>3 DEF NoSleepBesideTask, Provided
<1>12. ASSUME NEW w \in Workers, Finish(w) PROVE NoSleepBesideTask'
  <2>1. worker[w] # "checking" /\ tasks' = tasks /\ caller' = caller
        /\ worker' = [worker EXCEPT ![w] = "checking"]
    BY <1>12 DEF Finish
  <2>2. Cardinality(C') = Cardinality(C) + 1
    BY <1>1, <2>1
  <2>3. Sleepers' = Sleepers
    BY <1>12 DEF Finish, Sleepers, In, TypeOK
  <2> QED
    BY <1>0, <2>1, <2>2, <2>3 DEF NoSleepBesideTask, Provided
<1>13. CASE UNCHANGED vars
  BY <1>13 DEF vars, NoSleepBesideTask, Provided, Sleepers, In
<1> QED
  BY <1>3, <1>4, <1>5, <1>6, <1>7, <1>8, <1>9, <1>10, <1>11, <1>12, <1>13
     DEF Next, CallerStep, WorkerStep

-----------------------------------------------------------------------------
(* One step keeps the rest of PoolInv: where a started task is, who may    *)
(* have exited, and where the caller stands.                               *)
Whereabouts == /\ StartedIsHeld
               /\ FinishedWasStarted
               /\ RunningWasTaken
               /\ ExitedOnlyAtStop
               /\ JoinedMeansExited
               /\ StopStates

LEMMA WhereaboutsStep ==
  TypeOK /\ TypeOK' /\ TakenInOrder /\ Whereabouts /\ [Next]_vars => Whereabouts'
<1> SUFFICES ASSUME TypeOK, TypeOK', TakenInOrder, Whereabouts, [Next]_vars
             PROVE  Whereabouts'
  OBVIOUS
<1>a. CASE Enqueue
  <2>1. submitted \in Nat /\ submitted' = submitted + 1
    BY <1>a DEF Enqueue, TypeOK
  <2>2. ~stop /\ ~stop' /\ caller' = "notifying"
    BY <1>a DEF Enqueue, AfterPush, Whereabouts, StopStates
  <2>3. worker' = worker /\ task' = task /\ started' = started /\ finished' = finished
    BY <1>a DEF Enqueue
  <2>4. FinishedWasStarted' /\ RunningWasTaken'
    BY <2>1, <2>3, MaxTasksAssumption
       DEF Whereabouts, FinishedWasStarted, RunningWasTaken, TypeOK
  <2> QED
    BY <2>2, <2>3, <2>4
       DEF Whereabouts, StartedIsHeld, ExitedOnlyAtStop, JoinedMeansExited, StopStates,
           MayExit
<1>b. ASSUME NEW ws \in SUBSET Workers, Wake(ws), \A w \in ws : worker[w] = "asleep",
             UNCHANGED <<tasks, stop, task, submitted, started, finished>>,
             caller' # "joined", StopStates'
      PROVE  Whereabouts'
  <2>1. \A w \in Workers : /\ worker'[w] = "running" <=> worker[w] = "running"
                           /\ worker'[w] = "exited" <=> worker[w] = "exited"
    BY <1>b DEF Wake, TypeOK
  <2> QED
    BY <1>b, <2>1
       DEF Whereabouts, StartedIsHeld, FinishedWasStarted, RunningWasTaken,
           ExitedOnlyAtStop, JoinedMeansExited, MayExit
<1>c. CASE NotifyOne
  <2>1. StopStates' /\ caller' # "joined"
    BY <1>c DEF NotifyOne, Whereabouts, StopStates
  <2>2. CASE Sleepers = {}
    BY <1>b, <1>c, <2>1, <2>2 DEF NotifyOne
  <2>3. ASSUME NEW w \in Sleepers, Wake({w}) PROVE Whereabouts'
    <3>1. {w} \in SUBSET Workers /\ \A v \in {w} : worker[v] = "asleep"
      BY <2>3 DEF Sleepers, In
    <3> QED
      BY <1>b, <1>c, <2>1, <2>3, <3>1 DEF NotifyOne
  <2> QED
    BY <1>c, <2>2, <2>3 DEF NotifyOne
<1>d. CASE SetStop
  <2>1. ~stop /\ (\A w \in Workers : worker[w] # "exited")
    BY <1>d DEF SetStop, Whereabouts, StopStates, ExitedOnlyAtStop, MayExit
  <2> QED
    BY <1>d, <2>1
       DEF SetStop, Whereabouts, StartedIsHeld, FinishedWasStarted, RunningWasTaken,
           ExitedOnlyAtStop, JoinedMeansExited, StopStates
<1>e. CASE NotifyAll
  <2>1. StopStates' /\ caller' # "joined"
    BY <1>e DEF NotifyAll, Whereabouts, StopStates
  <2>2. Sleepers \in SUBSET Workers /\ \A w \in Sleepers : worker[w] = "asleep"
    BY DEF Sleepers, In
  <2> QED
    BY <1>b, <1>e, <2>1, <2>2 DEF NotifyAll, WokenAtStop
<1>f. CASE Join
  BY <1>f DEF Join, Whereabouts, StartedIsHeld, FinishedWasStarted, RunningWasTaken,
              ExitedOnlyAtStop, JoinedMeansExited, StopStates, MayExit, In
<1>g. ASSUME NEW w \in Workers, worker[w] # "exited" PROVE caller # "joined"
  BY <1>g DEF Whereabouts, JoinedMeansExited, In
<1>h. ASSUME NEW w \in Workers, Sleep(w) \/ Exit(w) PROVE Whereabouts'
  <2>1. worker[w] = "checking" /\ caller # "joined"
    BY <1>g, <1>h DEF Sleep, Exit
  <2>2. \A v \in Workers : worker'[v] = "running" <=> worker[v] = "running"
    BY <1>h, <2>1 DEF Sleep, Exit, TypeOK
  <2>3. ExitedOnlyAtStop'
    BY <1>h DEF Sleep, Exit, Whereabouts, ExitedOnlyAtStop, MayExit, TypeOK
  <2>4. UNCHANGED <<tasks, stop, caller, task, submitted, started, finished>>
    BY <1>h DEF Sleep, Exit
  <2> QED
    BY <2>1, <2>2, <2>3, <2>4
       DEF Whereabouts, StartedIsHeld, FinishedWasStarted, RunningWasTaken,
           JoinedMeansExited, StopStates
<1>i. ASSUME NEW w \in Workers, SpuriousWake(w) PROVE Whereabouts'
  <2>1. caller # "joined" /\ {w} \in SUBSET Workers /\ \A v \in {w} : worker[v] = "asleep"
    BY <1>g, <1>i DEF SpuriousWake
  <2>2. StopStates'
    BY <1>i DEF SpuriousWake, Whereabouts, StopStates
  <2> QED
    BY <1>b, <1>i, <2>1, <2>2 DEF SpuriousWake
<1>j. ASSUME NEW w \in Workers, Take(w) PROVE Whereabouts'
  <2> DEFINE k == Head(tasks)
  <2>1. /\ worker[w] = "checking" /\ tasks # <<>> /\ ~MayExit /\ caller # "joined"
        /\ worker' = [worker EXCEPT ![w] = "running"]
        /\ task' = [task EXCEPT ![w] = k]
        /\ started' = Append(started, k)
        /\ UNCHANGED <<stop, caller, submitted, finished>>
    BY <1>g, <1>j DEF Take, NextTask
  <2>2. k \in 1 .. submitted
    BY <2>1, HeadWasSubmitted
  <2> HIDE DEF k
  <2>3. worker'[w] = "running" /\ task'[w] = k
    BY <2>1 DEF TypeOK
  <2>4. \A v \in Workers \ {w} : worker'[v] = worker[v] /\ task'[v] = task[v]
    BY <2>1 DEF TypeOK
  <2>5. StartedIsHeld'
    <3> SUFFICES ASSUME NEW i \in 1 .. Len(started')
                 PROVE  \/ started'[i] \in finished'
                        \/ \E v \in Workers : worker'[v] = "running"
                                            /\ task'[v] = started'[i]
      BY DEF StartedIsHeld
    <3>1. Len(started) \in Nat /\ Len(started') = Len(started) + 1
      BY <2>1 DEF TypeOK
    <3>2. CASE i = Len(started) + 1
      <4>1. started'[i] = k
        BY <2>1, <3>2 DEF TypeOK
      <4> QED
        BY <2>3, <4>1
    <3>3. CASE i \in 1 .. Len(started)
      <4>1. started'[i] = started[i]
        BY <2>1, <3>3 DEF TypeOK
      <4>2. CASE started[i] \in finished
        BY <2>1, <4>1, <4>2
      <4>3. ASSUME NEW v \in Workers, worker[v] = "running", task[v] = started[i]
            PROVE  worker'[v] = "running" /\ task'[v] = started'[i]
        BY <2>1, <2>4, <4>1, <4>3
      <4> QED
        BY <3>3, <4>2, <4>3 DEF Whereabouts, StartedIsHeld
    <3> QED
      BY <3>1, <3>2, <3>3
  <2>6. RunningWasTaken' /\ FinishedWasStarted'
    BY <2>1, <2>2, <2>3, <2>4 DEF Whereabouts, RunningWasTaken, FinishedWasStarted
  <2>7. ExitedOnlyAtStop'
    BY <2>1, <2>3, <2>4 DEF Whereabouts, ExitedOnlyAtStop
  <2> QED
    BY <2>1, <2>5, <2>6, <2>7 DEF Whereabouts, JoinedMeansExited, StopStates
<1>k. ASSUME NEW w \in Workers, Finish(w) PROVE Whereabouts'
  <2>1. /\ worker[w] = "running" /\ caller # "joined"
        /\ worker' = [worker EXCEPT ![w] = "checking"]
        /\ finished' = finished \union {task[w]}
        /\ UNCHANGED <<tasks, stop, caller, task, submitted, started>>
    BY <1>g, <1>k DEF Finish
  <2>2. worker'[w] = "checking" /\ \A v \in Workers \ {w} : worker'[v] = worker[v]
    BY <2>1 DEF TypeOK
  <2>3. StartedIsHeld'
    BY <2>1, <2>2 DEF Whereabouts, StartedIsHeld
  <2>4. FinishedWasStarted'
    BY <2>1 DEF Whereabouts, FinishedWasStarted, RunningWasTaken, TypeOK
  <2>5. RunningWasTaken' /\ ExitedOnlyAtStop'
    BY <2>1, <2>2 DEF Whereabouts, RunningWasTaken, ExitedOnlyAtStop, MayExit
  <2> QED
    BY <2>1, <2>3, <2>4, <2>5 DEF Whereabouts, JoinedMeansExited, StopStates
<1>l. CASE UNCHANGED vars
  BY <1>l DEF vars, Whereabouts, StartedIsHeld, FinishedWasStarted, RunningWasTaken,
              ExitedOnlyAtStop, JoinedMeansExited, StopStates, MayExit, In
<1> QED
  BY <1>a, <1>c, <1>d, <1>e, <1>f, <1>h, <1>i, <1>j, <1>k, <1>l
     DEF Next, CallerStep, WorkerStep

-----------------------------------------------------------------------------
(* Every variable keeps its type, and PoolInv holds: a queued task is      *)
(* provided for, tasks are taken once and in order, and the history of a   *)
(* task, the workers' places and the caller's place agree.                 *)
THEOREM TypedPoolInvariant == Spec => [](TypeOK /\ PoolInv)
<1>1. Init => TypeOK
  <2>1. <<>> \in Seq(1 .. MaxTasks) /\ 0 \in 0 .. MaxTasks
    BY EmptySeq, MaxTasksAssumption
  <2> QED
    BY <2>1 DEF Init, TypeOK
<1>2. Init => PoolInv
  <2> SUFFICES ASSUME Init PROVE PoolInv
    OBVIOUS
  <2>1. NoSleepBesideTask
    BY DEF Init, NoSleepBesideTask, Sleepers, In
  <2>2. TakenInOrder
    <3>1. [k \in 1 .. 0 |-> k] = <<>>
      OBVIOUS
    <3>2. started \o tasks = <<>>
      BY EmptySeq, ConcatEmptySeq DEF Init
    <3> QED
      BY <3>1, <3>2 DEF Init, TakenInOrder
  <2>3. StartedIsHeld /\ FinishedWasStarted /\ RunningWasTaken
    BY DEF Init, StartedIsHeld, FinishedWasStarted, RunningWasTaken
  <2>4. ExitedOnlyAtStop /\ JoinedMeansExited /\ StopStates
    BY DEF Init, ExitedOnlyAtStop, JoinedMeansExited, StopStates
  <2> QED
    BY <2>1, <2>2, <2>3, <2>4 DEF PoolInv
<1>3. TypeOK /\ PoolInv /\ [Next]_vars => TypeOK' /\ PoolInv'
  <2> SUFFICES ASSUME TypeOK, PoolInv, [Next]_vars PROVE TypeOK' /\ PoolInv'
    OBVIOUS
  <2>1. NoSleepBesideTask /\ TakenInOrder /\ Whereabouts
    BY DEF PoolInv, Whereabouts
  <2>2. RunningWasTaken /\ StopStates
    BY <2>1 DEF Whereabouts
  <2>3. TypeOK'
    BY <2>2, TypeStep
  <2>4. TakenInOrder'
    BY <2>1, <2>3, OrderStep
  <2>5. NoSleepBesideTask'
    BY <2>1, <2>2, <2>3, ProvidedStep
  <2>6. Whereabouts'
    BY <2>1, <2>3, WhereaboutsStep
  <2> QED
    BY <2>3, <2>4, <2>5, <2>6 DEF PoolInv, Whereabouts
<1> QED
  BY <1>1, <1>2, <1>3, PTL DEF Spec

(* As long as a worker sleeps, no queued task is without a worker awake    *)
(* for it or a notification on its way.                                    *)
THEOREM NeverSleepsBesideTask == Spec => []NoSleepBesideTask
<1>1. PoolInv => NoSleepBesideTask
  BY DEF PoolInv
<1> QED
  BY <1>1, TypedPoolInvariant, PTL

(* Every variable of the pool keeps its type: a worker runs only tasks     *)
(* that were submitted and taken.                                          *)
THEOREM PoolTypeCorrect == Spec => []TypeOK
<1>1. TypeOK /\ PoolInv => TypeOK
  OBVIOUS
<1> QED
  BY <1>1, TypedPoolInvariant, PTL

(* The pool is a FIFO: no task is lost, taken twice or overtaken.          *)
THEOREM TasksTakenInOrder == Spec => []TakenInOrder
<1>1. PoolInv => TakenInOrder
  BY DEF PoolInv
<1> QED
  BY <1>1, TypedPoolInvariant, PTL

(* The destructor returns only after every submitted task has run.         *)
THEOREM JoinRunsEverything == Spec => []JoinedMeansDone
<1>1. TypeOK /\ PoolInv => JoinedMeansDone
  <2> SUFFICES ASSUME TypeOK, PoolInv, caller = "joined"
               PROVE  finished = 1 .. submitted
    BY DEF JoinedMeansDone
  <2>1. \A w \in Workers : worker[w] = "exited"
    BY DEF PoolInv, JoinedMeansExited, In
  <2>2. tasks = <<>>
    BY <2>1, WorkersAssumption DEF PoolInv, ExitedOnlyAtStop, MayExit
  <2>3. started = [k \in 1 .. submitted |-> k]
    BY <2>2, ConcatEmptySeq DEF PoolInv, TakenInOrder, TypeOK
  <2>4. \A k \in 1 .. submitted : k \in finished
    <3> SUFFICES ASSUME NEW k \in 1 .. submitted PROVE k \in finished
      OBVIOUS
    <3>1. k \in 1 .. Len(started) /\ started[k] = k
      BY <2>3 DEF TypeOK
    <3> QED
      BY <2>1, <3>1 DEF PoolInv, StartedIsHeld
  <2>5. finished \subseteq 1 .. submitted
    BY MaxTasksAssumption DEF PoolInv, FinishedWasStarted, TypeOK
  <2> QED
    BY <2>4, <2>5
<1> QED
  BY <1>1, TypedPoolInvariant, PTL

-----------------------------------------------------------------------------
(* Workers, notifications and sleep are invisible from outside: the pool   *)
(* implements the FIFO channel.  Enqueue is Accept, taking a task is       *)
(* Deliver, setting stop_ is Close, and the destructor's last join is      *)
(* Finish, which rests on no worker leaving while a task is queued.        *)
THEOREM PoolImplementsChannel == Spec => ImplementsChannel
<1>1. Init => Channel!Init
  BY DEF Init, Channel!Init
<1>2. TypeOK /\ PoolInv /\ [Next]_vars => [Channel!Next]_(Channel!chanVars)
  <2> SUFFICES ASSUME TypeOK, PoolInv, [Next]_vars
               PROVE  [Channel!Next]_(Channel!chanVars)
    OBVIOUS
  <2> USE DEF PoolInv, StopStates
  <2>a. /\ Channel!Next <=> \/ Channel!Accept \/ Channel!Deliver
                            \/ Channel!Close \/ Channel!Finish
        /\ [Channel!Next]_(Channel!chanVars) <=>
             Channel!Next \/ Channel!chanVars' = Channel!chanVars
    BY DEF Channel!Next
  <2>1. CASE Enqueue
    <3>1. submitted' \in 1 .. MaxTasks /\ tasks' = Append(tasks, submitted')
      BY <2>1, MaxTasksAssumption DEF Enqueue, TypeOK
    <3>2. ~stop /\ caller # "joined" /\ caller' # "joined" /\ UNCHANGED <<started, stop>>
      BY <2>1 DEF Enqueue, AfterPush
    <3>3. Channel!Accept
      BY <3>1, <3>2 DEF Channel!Accept
    <3> QED
      BY <2>a, <3>3
  <2>2. CASE SetStop
    <3>1. Channel!Close
      BY <2>2 DEF SetStop, Channel!Close
    <3> QED
      BY <2>a, <3>1
  <2>3. CASE NotifyOne \/ NotifyAll
    BY <2>3 DEF NotifyOne, NotifyAll, Channel!chanVars
  <2>4. CASE Join
    <3>1. stop /\ \A w \in Workers : worker[w] = "exited"
      BY <2>4 DEF Join, In
    <3>2. tasks = <<>>
      BY <3>1, WorkersAssumption DEF ExitedOnlyAtStop, MayExit
    <3>3. Channel!Finish
      BY <2>4, <3>1, <3>2 DEF Join, Channel!Finish
    <3> QED
      BY <2>a, <3>3
  <2>5. ASSUME NEW w \in Workers, Sleep(w) \/ SpuriousWake(w) \/ Exit(w) \/ Finish(w)
        PROVE  Channel!chanVars' = Channel!chanVars
    BY <2>5 DEF Sleep, SpuriousWake, Exit, Finish, Channel!chanVars
  <2>6. ASSUME NEW w \in Workers, Take(w) PROVE Channel!Deliver
    BY <2>6 DEF Take, NextTask, Rest, Channel!Deliver
  <2>7. CASE UNCHANGED vars
    BY <2>7 DEF vars, Channel!chanVars
  <2> QED
    BY <2>1, <2>2, <2>3, <2>4, <2>5, <2>6, <2>7, <2>a DEF Next, CallerStep, WorkerStep
<1> QED
  BY <1>1, <1>2, TypedPoolInvariant, PTL DEF Spec, ImplementsChannel, Channel!Spec
-----------------------------------------------------------------------------
(* Each task is run once.                                                  *)

\* A task that runs or has returned is one of those that were taken.
RunsTaken == /\ \A w \in In("running") : task[w] \in 1 .. Len(started)
             /\ finished \subseteq 1 .. Len(started)

(* The task a worker takes is none of those that were taken before, and    *)
(* a worker that returns from one gives it up.                             *)
LEMMA RunsOnceStep ==
  TypeOK /\ TakenInOrder /\ RunsTaken /\ RunsOnce /\ [Next]_vars => RunsTaken' /\ RunsOnce'
<1> SUFFICES ASSUME TypeOK, TakenInOrder, RunsTaken, RunsOnce, [Next]_vars
             PROVE  RunsTaken' /\ RunsOnce'
  OBVIOUS
<1> USE DEF RunsTaken, RunsOnce, In
<1>0. /\ started \in Seq(1 .. MaxTasks) /\ Len(started) \in Nat
      /\ worker \in [Workers -> {"checking", "asleep", "running", "exited"}]
      /\ task \in [Workers -> 0 .. MaxTasks]
  BY DEF TypeOK
<1>1. ASSUME UNCHANGED <<task, started, finished>>,
             \A w \in Workers : worker'[w] = "running" => worker[w] = "running"
      PROVE  RunsTaken' /\ RunsOnce'
  BY <1>1
<1>2. CASE Enqueue \/ NotifyOne \/ SetStop \/ NotifyAll \/ Join \/ UNCHANGED vars
  BY <1>0, <1>1, <1>2 DEF Enqueue, NotifyOne, SetStop, NotifyAll, Join, vars, Wake
<1>3. ASSUME NEW w \in Workers, Sleep(w) \/ SpuriousWake(w) \/ Exit(w)
      PROVE  RunsTaken' /\ RunsOnce'
  BY <1>0, <1>1, <1>3 DEF Sleep, SpuriousWake, Exit, Wake
<1>4. ASSUME NEW w \in Workers, Take(w) PROVE RunsTaken' /\ RunsOnce'
  <2> DEFINE n == Len(started) + 1
  <2>1. Head(tasks) = n /\ n \in 1 .. MaxTasks
    BY <1>4, HeadWasSubmitted, MaxTasksAssumption DEF Take, TypeOK
  <2>2. /\ task' = [task EXCEPT ![w] = n] /\ worker' = [worker EXCEPT ![w] = "running"]
        /\ started' = Append(started, n) /\ finished' = finished
    BY <1>4, <2>1 DEF Take, NextTask
  <2>3. Len(started') = n
    BY <1>0, <2>1, <2>2
  <2>4. \A v \in Workers : IF v = w THEN task'[v] = n
                           ELSE task'[v] = task[v] /\ worker'[v] = worker[v]
    BY <1>0, <2>2
  <2>5. \A v \in Workers : worker'[v] = "running" /\ v # w => task'[v] \in 1 .. Len(started)
    BY <2>4
  <2> QED
    BY <1>0, <2>2, <2>3, <2>4, <2>5
<1>5. ASSUME NEW w \in Workers, Finish(w) PROVE RunsTaken' /\ RunsOnce'
  <2>1. /\ worker[w] = "running" /\ worker' = [worker EXCEPT ![w] = "checking"]
        /\ finished' = finished \union {task[w]} /\ UNCHANGED <<task, started>>
    BY <1>5 DEF Finish
  <2>2. \A v \in Workers : worker'[v] = "running" => worker[v] = "running" /\ v # w
    BY <1>0, <2>1
  <2> QED
    BY <2>1, <2>2
<1> QED
  BY <1>2, <1>3, <1>4, <1>5 DEF Next, CallerStep, WorkerStep

(* No task is run by two workers, nor a second time after it has returned. *)
THEOREM NoTaskRunsTwice == Spec => []RunsOnce
<1>1. Init => RunsTaken /\ RunsOnce
  BY DEF Init, RunsTaken, RunsOnce, In
<1>2. PoolInv => TakenInOrder
  BY DEF PoolInv
<1> QED
  BY <1>1, <1>2, RunsOnceStep, TypedPoolInvariant, PTL DEF Spec

(* The destructor never joins a worker that sleeps: each has been woken    *)
(* after stop_ was set, or did not go to sleep any more.                   *)
THEOREM JoinFindsAllAwake == Spec => []NoneSleepsAtJoin
<1>1. Init => NoneSleepsAtJoin
  BY DEF Init, NoneSleepsAtJoin
<1>2. TypeOK /\ PoolInv /\ NoneSleepsAtJoin /\ [Next]_vars => NoneSleepsAtJoin'
  <2> SUFFICES ASSUME TypeOK, PoolInv, NoneSleepsAtJoin, [Next]_vars,
                      caller' \in {"joining", "joined"}, NEW w \in Workers
               PROVE  worker'[w] # "asleep"
    BY DEF NoneSleepsAtJoin, Sleepers, In
  <2> USE DEF TypeOK, NoneSleepsAtJoin, Sleepers, In
  <2>1. CASE NotifyAll
    BY <2>1 DEF NotifyAll, Wake, WokenAtStop
  <2>2. CASE Enqueue \/ NotifyOne \/ SetStop
    BY <2>2 DEF Enqueue, AfterPush, NotifyOne, SetStop
  <2>3. CASE Join \/ UNCHANGED vars
    BY <2>3 DEF Join, vars
  <2>4. ASSUME NEW v \in Workers, Sleep(v) PROVE FALSE
    BY <2>4 DEF Sleep, PoolInv, StopStates
  <2>5. ASSUME NEW v \in Workers, SpuriousWake(v) \/ Exit(v) \/ Take(v) \/ Finish(v)
        PROVE  worker'[w] # "asleep"
    BY <2>5 DEF SpuriousWake, Exit, Take, Finish, Wake
  <2> QED
    BY <2>1, <2>2, <2>3, <2>4, <2>5 DEF Next, CallerStep, WorkerStep
<1> QED
  BY <1>1, <1>2, TypedPoolInvariant, PTL DEF Spec
=============================================================================
