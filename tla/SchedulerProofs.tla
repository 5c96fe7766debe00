--------------------------- MODULE SchedulerProofs --------------------------
(***************************************************************************)
(* Proofs about the scheduler, for any sets of jobs, submitters and        *)
(* controllers and any number of starts and stops.                         *)
(*                                                                         *)
(* The invariant IInv of Scheduler is shown inductive, one lemma per       *)
(* action and in it one step per conjunct.                                 *)
(***************************************************************************)
EXTENDS MCScheduler, Chains

(* UfsrvSchedulerCreate establishes the invariant.                          *)
LEMMA InitInv == Init => IInv
<1> SUFFICES ASSUME Init PROVE IInv
  OBVIOUS
<1> USE SchedulerAssumption DEF Init
<1>1. TypeOK
  <2>1. queue \in Seq(Jobs) /\ starts \in 0..MaxStarts /\ stops \in 0..MaxStops
    OBVIOUS
  <2> QED BY Zenon, <2>1 DEF TypeOK, WorkerPCs, ThreadPCs, Fates
<1>2. PlaceInv /\ LifeInv /\ CloseInv /\ WorkerInv
  BY Zenon DEF PlaceInv, LifeInv, CloseInv, WorkerInv, Threads
<1>3. OnePlace
  BY Zenon, EmptyElements DEF OnePlace
<1>4. NoLostWakeup /\ DrainedBeforeExit /\ DestroyIsLast
  BY Zenon DEF NoLostWakeup, DrainedBeforeExit, DestroyIsLast
<1> QED BY Zenon, <1>1, <1>2, <1>3, <1>4 DEF IInv

(* sSubmitToScheduler accepts or refuses a job.                             *)
LEMMA SubmitCheckInv ==
  ASSUME IInv, NEW s \in Submitters, NEW j \in Jobs, SubmitCheck(s, j)
  PROVE  IInv'
<1> USE SchedulerAssumption DEF IInv, SubmitCheck, Goto, Become, Closing, Threads,
     flags, counts
<1>1. TypeOK'
  BY DEF TypeOK, WorkerPCs, ThreadPCs, Fates
<1>2. PlaceInv'
  BY DEF TypeOK, PlaceInv, OnePlace
<1>3. LifeInv'
  BY DEF TypeOK, LifeInv
<1>4. CloseInv'
  BY DEF TypeOK, CloseInv
<1>5. WorkerInv'
  BY Zenon DEF TypeOK, WorkerInv
<1>6. OnePlace'
  <2>1. CASE fate' = [fate EXCEPT ![j] = "accepted"] /\ held' = [held EXCEPT ![s] = j]
    BY <2>1 DEF TypeOK, OnePlace
  <2>2. CASE fate' = [fate EXCEPT ![j] = "refused"] /\ UNCHANGED <<pc, held>>
    BY <2>2 DEF TypeOK, OnePlace
  <2> QED BY Zenon, <2>1, <2>2
<1>7. NoLostWakeup'
  BY Zenon DEF TypeOK, NoLostWakeup
<1>8. DrainedBeforeExit'
  BY Zenon DEF TypeOK, DrainedBeforeExit
<1>9. DestroyIsLast'
  BY Zenon DEF DestroyIsLast
<1> QED BY Zenon, <1>1, <1>2, <1>3, <1>4, <1>5, <1>6, <1>7, <1>8, <1>9

(* sSubmitToScheduler inserts the job.                                      *)
LEMMA SubmitInsertInv ==
  ASSUME IInv, NEW s \in Submitters, SubmitInsert(s)
  PROVE  IInv'
<1> USE SchedulerAssumption DEF IInv, SubmitInsert, Goto, Become, Threads, flags, counts
<1>a. held[s] \in Jobs /\ fate[held[s]] = "accepted" /\ held[s] \notin Range(queue)
  BY Zenon DEF SubmitInsert, PlaceInv, OnePlace
<1>b. /\ queue' \in Seq(Jobs) /\ queue' # <<>> /\ IsInjective(queue')
      /\ Range(queue') = Range(queue) \cup {held[s]}
  BY <1>a, AppendElements DEF SubmitInsert, TypeOK, OnePlace
<1>1. TypeOK'
  BY <1>a, <1>b DEF TypeOK, WorkerPCs, ThreadPCs, Fates
<1>2. PlaceInv'
  BY <1>a, <1>b DEF PlaceInv
<1>3. LifeInv'
  BY <1>a, <1>b DEF LifeInv
<1>4. CloseInv'
  BY <1>a, <1>b DEF CloseInv
<1>5. WorkerInv'
  BY <1>a, <1>b DEF TypeOK, WorkerInv
<1>6. OnePlace'
  BY <1>a, <1>b DEF TypeOK, PlaceInv, OnePlace
<1>7. NoLostWakeup'
  BY Zenon, <1>a, <1>b DEF TypeOK, NoLostWakeup
<1>8. DrainedBeforeExit'
  BY <1>a, <1>b DEF DrainedBeforeExit
<1>9. DestroyIsLast'
  BY Zenon, <1>a, <1>b DEF DestroyIsLast
<1> QED BY Zenon, <1>1, <1>2, <1>3, <1>4, <1>5, <1>6, <1>7, <1>8, <1>9

(* sSubmitToScheduler wakes the worker.                                     *)
LEMMA SubmitWriteInv ==
  ASSUME IInv, NEW s \in Submitters, SubmitWrite(s)
  PROVE  IInv'
<1> USE SchedulerAssumption DEF IInv, SubmitWrite, Goto, Threads, flags, counts
<1>1. TypeOK'
  BY DEF TypeOK, WorkerPCs, ThreadPCs, Fates
<1>2. PlaceInv'
  BY DEF PlaceInv
<1>3. LifeInv'
  BY DEF LifeInv
<1>4. CloseInv'
  BY DEF CloseInv
<1>5. WorkerInv'
  BY DEF TypeOK, WorkerInv
<1>6. OnePlace'
  BY DEF OnePlace
<1>7. NoLostWakeup'
  BY DEF TypeOK, NoLostWakeup
<1>8. DrainedBeforeExit'
  BY Zenon DEF DrainedBeforeExit
<1>9. DestroyIsLast'
  BY Zenon DEF DestroyIsLast
<1> QED BY Zenon, <1>1, <1>2, <1>3, <1>4, <1>5, <1>6, <1>7, <1>8, <1>9

(* UfsrvSchedulerStart sets is_running.                                     *)
LEMMA StartInv ==
  ASSUME IInv, NEW c \in Controllers, Start(c)
  PROVE  IInv'
<1> USE SchedulerAssumption DEF IInv, Start, Goto, Closing, Threads, flags, counts
<1>1. TypeOK'
  BY DEF TypeOK, WorkerPCs, ThreadPCs, Fates
<1>2. PlaceInv'
  BY DEF PlaceInv
<1>3. LifeInv'
  BY DEF LifeInv
<1>4. CloseInv'
  BY DEF CloseInv
<1>5. WorkerInv'
  <2>1. worker = "none"
    BY Zenon DEF LifeInv
  <2> QED BY <2>1 DEF WorkerInv
<1>6. OnePlace'
  BY DEF OnePlace
<1>7. NoLostWakeup'
  BY DEF NoLostWakeup
<1>8. DrainedBeforeExit'
  BY Zenon DEF DrainedBeforeExit
<1>9. DestroyIsLast'
  BY Zenon DEF DestroyIsLast
<1> QED BY Zenon, <1>1, <1>2, <1>3, <1>4, <1>5, <1>6, <1>7, <1>8, <1>9

(* pthread_create succeeds.                                                 *)
LEMMA CreateThreadInv ==
  ASSUME IInv, NEW c \in Controllers, CreateThread(c)
  PROVE  IInv'
<1> USE SchedulerAssumption DEF IInv, CreateThread, Goto, Threads, flags, counts
<1>1. TypeOK'
  BY Zenon DEF TypeOK, WorkerPCs, ThreadPCs, Fates
<1>2. PlaceInv'
  BY DEF PlaceInv
<1>3. LifeInv'
  BY Zenon DEF TypeOK, LifeInv
<1>4. CloseInv'
  BY DEF CloseInv
<1>5. WorkerInv'
  BY Zenon DEF TypeOK, PlaceInv, LifeInv, CloseInv, WorkerInv, OnePlace
<1>6. OnePlace'
  BY DEF OnePlace
<1>7. NoLostWakeup'
  BY Zenon DEF NoLostWakeup
<1>8. DrainedBeforeExit'
  BY Zenon DEF DrainedBeforeExit
<1>9. DestroyIsLast'
  BY Zenon DEF DestroyIsLast
<1> QED BY Zenon, <1>1, <1>2, <1>3, <1>4, <1>5, <1>6, <1>7, <1>8, <1>9

(* pthread_create fails.                                                    *)
LEMMA CreateFailsInv ==
  ASSUME IInv, NEW c \in Controllers, CreateFails(c)
  PROVE  IInv'
<1> USE SchedulerAssumption DEF IInv, CreateFails, Goto, Threads, flags, counts
<1>1. TypeOK'
  BY Zenon DEF TypeOK, WorkerPCs, ThreadPCs, Fates
<1>2. PlaceInv'
  BY DEF PlaceInv
<1>3. LifeInv'
  BY DEF LifeInv
<1>4. CloseInv'
  BY DEF CloseInv
<1>5. WorkerInv'
  BY DEF WorkerInv
<1>6. OnePlace'
  BY DEF OnePlace
<1>7. NoLostWakeup'
  BY Zenon DEF TypeOK, LifeInv, NoLostWakeup
<1>8. DrainedBeforeExit'
  BY Zenon DEF DrainedBeforeExit
<1>9. DestroyIsLast'
  BY Zenon DEF DestroyIsLast
<1> QED BY Zenon, <1>1, <1>2, <1>3, <1>4, <1>5, <1>6, <1>7, <1>8, <1>9

(* Start sets is_started.                                                   *)
LEMMA SetStartedInv ==
  ASSUME IInv, NEW c \in Controllers, SetStarted(c)
  PROVE  IInv'
<1> USE SchedulerAssumption DEF IInv, SetStarted, Goto, Threads, flags, counts
<1>1. TypeOK'
  BY Zenon DEF TypeOK, WorkerPCs, ThreadPCs, Fates
<1>2. PlaceInv'
  BY DEF PlaceInv
<1>3. LifeInv'
  BY Zenon DEF TypeOK, LifeInv
<1>4. CloseInv'
  BY DEF CloseInv
<1>5. WorkerInv'
  BY DEF WorkerInv
<1>6. OnePlace'
  BY DEF OnePlace
<1>7. NoLostWakeup'
  BY DEF NoLostWakeup
<1>8. DrainedBeforeExit'
  BY Zenon DEF DrainedBeforeExit
<1>9. DestroyIsLast'
  BY Zenon DEF DestroyIsLast
<1> QED BY Zenon, <1>1, <1>2, <1>3, <1>4, <1>5, <1>6, <1>7, <1>8, <1>9

(* UfsrvSchedulerStop clears is_running.                                    *)
LEMMA StopInv ==
  ASSUME IInv, NEW c \in Controllers, Stop(c)
  PROVE  IInv'
<1> USE SchedulerAssumption DEF IInv, Stop, Settled, Goto, Closing, Threads, flags,
     counts
<1>1. TypeOK'
  <2>1. stops' \in 0..MaxStops
    BY DEF TypeOK
  <2>2. pc' \in [Threads -> ThreadPCs]
    BY Zenon DEF TypeOK, ThreadPCs
  <2>3. isRunning' \in BOOLEAN
    OBVIOUS
  <2> QED BY Zenon, <2>1, <2>2, <2>3 DEF TypeOK
<1>2. PlaceInv'
  BY DEF PlaceInv
<1>3. LifeInv'
  BY DEF LifeInv
<1>4. CloseInv'
  BY DEF CloseInv
<1>5. WorkerInv'
  BY DEF WorkerInv
<1>6. OnePlace'
  BY DEF OnePlace
<1>7. NoLostWakeup'
  BY Zenon DEF TypeOK, NoLostWakeup
<1>8. DrainedBeforeExit'
  BY Zenon DEF DrainedBeforeExit
<1>9. DestroyIsLast'
  BY Zenon DEF DestroyIsLast
<1> QED BY Zenon, <1>1, <1>2, <1>3, <1>4, <1>5, <1>6, <1>7, <1>8, <1>9

(* Stop wakes the worker.                                                   *)
LEMMA StopWriteInv ==
  ASSUME IInv, NEW c \in Controllers, StopWrite(c)
  PROVE  IInv'
<1> USE SchedulerAssumption DEF IInv, StopWrite, Goto, Threads, flags, counts
<1>1. TypeOK'
  BY DEF TypeOK, WorkerPCs, ThreadPCs, Fates
<1>2. PlaceInv'
  BY DEF PlaceInv
<1>3. LifeInv'
  BY DEF LifeInv
<1>4. CloseInv'
  BY DEF CloseInv
<1>5. WorkerInv'
  BY DEF TypeOK, WorkerInv
<1>6. OnePlace'
  BY DEF OnePlace
<1>7. NoLostWakeup'
  BY DEF TypeOK, NoLostWakeup
<1>8. DrainedBeforeExit'
  BY Zenon DEF DrainedBeforeExit
<1>9. DestroyIsLast'
  BY Zenon DEF DestroyIsLast
<1> QED BY Zenon, <1>1, <1>2, <1>3, <1>4, <1>5, <1>6, <1>7, <1>8, <1>9

(* UfsrvSchedulerJoin is called.                                            *)
LEMMA JoinCallInv ==
  ASSUME IInv, NEW c \in Controllers, JoinCall(c)
  PROVE  IInv'
<1> USE SchedulerAssumption DEF IInv, JoinCall, Settled, Goto, Closing, Threads, flags,
     counts
<1>1. TypeOK'
  BY Zenon DEF TypeOK, WorkerPCs, ThreadPCs, Fates
<1>2. PlaceInv'
  BY DEF PlaceInv
<1>3. LifeInv'
  BY DEF LifeInv
<1>4. CloseInv'
  BY DEF CloseInv
<1>5. WorkerInv'
  BY DEF WorkerInv
<1>6. OnePlace'
  BY DEF OnePlace
<1>7. NoLostWakeup'
  BY DEF NoLostWakeup
<1>8. DrainedBeforeExit'
  BY Zenon DEF DrainedBeforeExit
<1>9. DestroyIsLast'
  BY Zenon DEF DestroyIsLast
<1> QED BY Zenon, <1>1, <1>2, <1>3, <1>4, <1>5, <1>6, <1>7, <1>8, <1>9

(* UfsrvSchedulerJoin decides whether to wait.                              *)
LEMMA JoinInv ==
  ASSUME IInv, NEW c \in Controllers, Join(c)
  PROVE  IInv'
<1> USE SchedulerAssumption DEF IInv, Join, JoinReturns, Goto, Threads, flags, counts
<1>1. TypeOK'
  BY Zenon DEF TypeOK, WorkerPCs, ThreadPCs, Fates
<1>2. PlaceInv'
  BY Zenon DEF TypeOK, PlaceInv
<1>3. LifeInv'
  BY DEF TypeOK, LifeInv
<1>4. CloseInv'
  BY DEF TypeOK, CloseInv
<1>5. WorkerInv'
  BY Zenon DEF TypeOK, WorkerInv
<1>6. OnePlace'
  BY DEF TypeOK, OnePlace
<1>7. NoLostWakeup'
  BY Zenon DEF TypeOK, NoLostWakeup
<1>8. DrainedBeforeExit'
  BY Zenon DEF DrainedBeforeExit
<1>9. DestroyIsLast'
  BY Zenon DEF DestroyIsLast
<1> QED BY Zenon, <1>1, <1>2, <1>3, <1>4, <1>5, <1>6, <1>7, <1>8, <1>9

(* pthread_join returns.                                                    *)
LEMMA PthreadJoinInv ==
  ASSUME IInv, NEW c \in Controllers, PthreadJoin(c)
  PROVE  IInv'
<1> USE SchedulerAssumption DEF IInv, PthreadJoin, JoinReturns, Goto, Threads, flags,
     counts
<1>1. TypeOK'
  BY Zenon DEF TypeOK, WorkerPCs, ThreadPCs, Fates
<1>2. PlaceInv'
  BY DEF PlaceInv
<1>3. LifeInv'
  BY DEF LifeInv
<1>4. CloseInv'
  BY DEF CloseInv
<1>5. WorkerInv'
  BY Zenon DEF WorkerInv
<1>6. OnePlace'
  BY DEF OnePlace
<1>7. NoLostWakeup'
  BY Zenon DEF NoLostWakeup
<1>8. DrainedBeforeExit'
  BY Zenon DEF DrainedBeforeExit
<1>9. DestroyIsLast'
  BY Zenon DEF DestroyIsLast
<1> QED BY Zenon, <1>1, <1>2, <1>3, <1>4, <1>5, <1>6, <1>7, <1>8, <1>9

(* UfsrvSchedulerDestroy begins.                                            *)
LEMMA DestroyInv ==
  ASSUME IInv, NEW c \in Controllers, Destroy(c)
  PROVE  IInv'
<1> USE SchedulerAssumption DEF IInv, Destroy, Goto, Closing, Threads, flags, counts
<1>1. TypeOK'
  BY Zenon DEF TypeOK, WorkerPCs, ThreadPCs, Fates
<1>2. PlaceInv'
  BY DEF TypeOK, PlaceInv
<1>3. LifeInv'
  BY Zenon DEF TypeOK, LifeInv
<1>4. CloseInv'
  BY DEF TypeOK, LifeInv, CloseInv
<1>5. WorkerInv'
  BY Zenon DEF WorkerInv
<1>6. OnePlace'
  BY Zenon DEF TypeOK, OnePlace
<1>7. NoLostWakeup'
  BY Zenon DEF TypeOK, NoLostWakeup
<1>8. DrainedBeforeExit'
  BY Zenon DEF DrainedBeforeExit
<1>9. DestroyIsLast'
  BY Zenon DEF DestroyIsLast
<1> QED BY Zenon, <1>1, <1>2, <1>3, <1>4, <1>5, <1>6, <1>7, <1>8, <1>9

(* Destroy frees what is left.                                              *)
LEMMA ReapInv ==
  ASSUME IInv, NEW c \in Controllers, Reap(c)
  PROVE  IInv'
<1> USE SchedulerAssumption DEF IInv, Reap, Goto, Threads, flags, counts
<1>a. queue' \in Seq(Jobs) /\ Range(queue') = {} /\ IsInjective(queue')
  BY EmptyElements
<1>b. \A j \in Jobs : fate'[j] = IF j \in Range(queue) THEN "dropped" ELSE fate[j]
  OBVIOUS
<1>1. TypeOK'
  BY Zenon, <1>a, <1>b DEF TypeOK, WorkerPCs, ThreadPCs, Fates
<1>2. PlaceInv'
  BY <1>a, <1>b DEF PlaceInv
<1>3. LifeInv'
  BY <1>a, <1>b DEF LifeInv
<1>4. CloseInv'
  BY <1>a, <1>b DEF CloseInv
<1>5. WorkerInv'
  BY Zenon, <1>a, <1>b DEF TypeOK, WorkerInv
<1>6. OnePlace'
  BY <1>a, <1>b DEF OnePlace
<1>7. NoLostWakeup'
  BY <1>a, <1>b DEF NoLostWakeup
<1>8. DrainedBeforeExit'
  BY Zenon, <1>a, <1>b DEF TypeOK, CloseInv, WorkerInv, OnePlace, DrainedBeforeExit,
       DestroyIsLast
<1>9. DestroyIsLast'
  BY <1>a, <1>b DEF TypeOK, CloseInv, DestroyIsLast
<1> QED BY Zenon, <1>1, <1>2, <1>3, <1>4, <1>5, <1>6, <1>7, <1>8, <1>9

(* The worker looks at is_running.                                          *)
LEMMA LoopCheckInv ==
  ASSUME IInv, LoopCheck
  PROVE  IInv'
<1> USE SchedulerAssumption DEF IInv, LoopCheck, WorkerVars, WorkerKeeps, Threads,
     flags, counts
<1>1. TypeOK'
  BY Zenon DEF TypeOK, WorkerPCs, ThreadPCs, Fates
<1>2. PlaceInv'
  BY Zenon DEF PlaceInv
<1>3. LifeInv'
  BY Zenon DEF LifeInv
<1>4. CloseInv'
  BY Zenon DEF CloseInv
<1>5. WorkerInv'
  BY Zenon DEF WorkerInv
<1>6. OnePlace'
  BY DEF TypeOK, PlaceInv, WorkerInv, OnePlace
<1>7. NoLostWakeup'
  BY Zenon DEF TypeOK, LifeInv, WorkerInv, NoLostWakeup
<1>8. DrainedBeforeExit'
  BY Zenon DEF DrainedBeforeExit
<1>9. DestroyIsLast'
  BY Zenon DEF DestroyIsLast
<1> QED BY Zenon, <1>1, <1>2, <1>3, <1>4, <1>5, <1>6, <1>7, <1>8, <1>9

(* A pop moves the head of the queue to the worker, whoever pops.            *)
LEMMA PopOnePlace ==
  ASSUME TypeOK, OnePlace, running = NoJob, NEW from, NEW next, NEW empty,
         Pop(from, next, empty)
  PROVE  OnePlace'
<1> USE SchedulerAssumption DEF Pop, WorkerVars, WorkerKeeps
<1>1. CASE queue = <<>>
  BY <1>1 DEF TypeOK, OnePlace
<1>2. CASE queue # <<>>
  <2> DEFINE h == Head(queue)
  <2>1. /\ h \in Jobs /\ h \in Range(queue) /\ IsInjective(queue')
        /\ Range(queue') = Range(queue) \ {h}
    <3>1. queue' = Tail(queue) /\ queue \in Seq(Jobs) /\ IsInjective(queue)
      BY Zenon, <1>2 DEF TypeOK, OnePlace
    <3> QED BY Zenon, <1>2, <3>1, TailElements
  <2>2. \A j \in Jobs : fate'[j] = IF j = h THEN "running" ELSE fate[j]
    BY Zenon, <1>2, <2>1 DEF Become, TypeOK
  <2>3. running' = h /\ fate[h] = "queued" /\ pc' = pc /\ held' = held
    BY Zenon, <1>2, <2>1 DEF OnePlace
  <2>4. OnePlace!1'
    BY <2>1, <2>2, <2>3 DEF OnePlace
  <2>5. OnePlace!3'
    BY <2>1, <2>2, <2>3 DEF OnePlace
  <2>6. OnePlace!4'
    BY <2>1, <2>2, <2>3 DEF OnePlace
  <2> QED BY Zenon, <2>1, <2>4, <2>5, <2>6 DEF OnePlace
<1> QED BY Zenon, <1>1, <1>2

(* The worker takes the next job, or finds none.                            *)
LEMMA LoopPopInv ==
  ASSUME IInv, LoopPop
  PROVE  IInv'
<1> USE SchedulerAssumption DEF IInv, LoopPop, Pop, Become, WorkerVars, WorkerKeeps,
     Threads, flags, counts
<1>a. queue # <<>> => /\ Head(queue) \in Jobs /\ Head(queue) \in Range(queue)
                     /\ Tail(queue) \in Seq(Jobs) /\ IsInjective(Tail(queue))
                     /\ Range(Tail(queue)) = Range(queue) \ {Head(queue)}
  BY Zenon, TailElements DEF TypeOK, OnePlace
<1>b. queue = <<>> => Range(queue) = {}
  BY Zenon, EmptyElements
<1>1. TypeOK'
  BY Zenon, <1>a, <1>b DEF TypeOK, WorkerPCs, ThreadPCs, Fates
<1>2. PlaceInv'
  BY Zenon, <1>a, <1>b DEF PlaceInv
<1>3. LifeInv'
  BY Zenon, <1>a, <1>b DEF LifeInv
<1>4. CloseInv'
  BY <1>a, <1>b DEF TypeOK, CloseInv
<1>5. WorkerInv'
  BY Zenon, <1>a, <1>b DEF TypeOK, WorkerInv
<1>6. OnePlace'
  BY Zenon, PopOnePlace DEF WorkerInv
<1>7. NoLostWakeup'
  BY Zenon, <1>a, <1>b DEF NoLostWakeup
<1>8. DrainedBeforeExit'
  BY Zenon, <1>a, <1>b DEF DrainedBeforeExit
<1>9. DestroyIsLast'
  BY Zenon, <1>a, <1>b DEF DestroyIsLast
<1> QED BY Zenon, <1>1, <1>2, <1>3, <1>4, <1>5, <1>6, <1>7, <1>8, <1>9

(* The final drain takes the next job, or finds none and exits.             *)
LEMMA DrainPopInv ==
  ASSUME IInv, DrainPop
  PROVE  IInv'
<1> USE SchedulerAssumption DEF IInv, DrainPop, Pop, Become, WorkerVars, WorkerKeeps,
     Threads, flags, counts
<1>a. queue # <<>> => /\ Head(queue) \in Jobs /\ Head(queue) \in Range(queue)
                     /\ Tail(queue) \in Seq(Jobs) /\ IsInjective(Tail(queue))
                     /\ Range(Tail(queue)) = Range(queue) \ {Head(queue)}
  BY Zenon, TailElements DEF TypeOK, OnePlace
<1>b. queue = <<>> => Range(queue) = {}
  BY Zenon, EmptyElements
<1>1. TypeOK'
  BY Zenon, <1>a, <1>b DEF TypeOK, WorkerPCs, ThreadPCs, Fates
<1>2. PlaceInv'
  BY Zenon, <1>a, <1>b DEF PlaceInv
<1>3. LifeInv'
  BY Zenon, <1>a, <1>b DEF LifeInv
<1>4. CloseInv'
  BY Zenon, <1>a, <1>b DEF TypeOK, CloseInv
<1>5. WorkerInv'
  BY Zenon, <1>a, <1>b DEF TypeOK, WorkerInv
<1>6. OnePlace'
  BY Zenon, PopOnePlace DEF WorkerInv
<1>7. NoLostWakeup'
  BY Zenon, <1>a, <1>b DEF NoLostWakeup
<1>8. DrainedBeforeExit'
  BY <1>a, <1>b DEF TypeOK, CloseInv, WorkerInv, OnePlace, DrainedBeforeExit,
       DestroyIsLast
<1>9. DestroyIsLast'
  BY Zenon, <1>a, <1>b DEF DestroyIsLast
<1> QED BY Zenon, <1>1, <1>2, <1>3, <1>4, <1>5, <1>6, <1>7, <1>8, <1>9

(* sRunJob returns.                                                         *)
LEMMA JobReturnsInv ==
  ASSUME IInv, JobReturns
  PROVE  IInv'
<1> USE SchedulerAssumption DEF IInv, JobReturns, Become, WorkerVars, WorkerKeeps,
     Threads, flags, counts
<1>1. TypeOK'
  BY Zenon DEF TypeOK, WorkerPCs, ThreadPCs, Fates
<1>2. PlaceInv'
  BY Zenon DEF PlaceInv
<1>3. LifeInv'
  BY Zenon DEF LifeInv
<1>4. CloseInv'
  BY DEF CloseInv
<1>5. WorkerInv'
  BY DEF WorkerInv
<1>6. OnePlace'
  BY DEF TypeOK, OnePlace
<1>7. NoLostWakeup'
  BY Zenon DEF NoLostWakeup
<1>8. DrainedBeforeExit'
  BY Zenon DEF DrainedBeforeExit
<1>9. DestroyIsLast'
  BY Zenon DEF DestroyIsLast
<1> QED BY Zenon, <1>1, <1>2, <1>3, <1>4, <1>5, <1>6, <1>7, <1>8, <1>9

(* The read of the eventfd returns, or is interrupted.                      *)
LEMMA EventInv ==
  ASSUME IInv, EventRead \/ EventInterrupted
  PROVE  IInv'
<1> USE SchedulerAssumption DEF IInv, EventRead, EventInterrupted, WorkerVars,
     WorkerKeeps, Threads, flags, counts
<1>1. TypeOK'
  BY DEF TypeOK, WorkerPCs, ThreadPCs, Fates
<1>2. PlaceInv'
  BY Zenon DEF PlaceInv
<1>3. LifeInv'
  BY DEF LifeInv
<1>4. CloseInv'
  BY DEF CloseInv
<1>5. WorkerInv'
  BY Zenon DEF WorkerInv
<1>6. OnePlace'
  BY DEF TypeOK, PlaceInv, WorkerInv, OnePlace
<1>7. NoLostWakeup'
  BY Zenon DEF NoLostWakeup
<1>8. DrainedBeforeExit'
  BY Zenon DEF DrainedBeforeExit
<1>9. DestroyIsLast'
  BY Zenon DEF DestroyIsLast
<1> QED BY Zenon, <1>1, <1>2, <1>3, <1>4, <1>5, <1>6, <1>7, <1>8, <1>9

(* Stuttering steps, among them Finished.                                   *)
LEMMA StutterInv ==
  ASSUME IInv, UNCHANGED vars
  PROVE  IInv'
<1> USE SchedulerAssumption DEF IInv, vars, flags, counts
<1>1. TypeOK'
  BY Zenon DEF TypeOK, WorkerPCs, ThreadPCs, Fates
<1>2. PlaceInv'
  BY Zenon DEF PlaceInv
<1>3. LifeInv'
  BY Zenon DEF LifeInv
<1>4. CloseInv'
  BY Zenon DEF CloseInv
<1>5. WorkerInv'
  BY Zenon DEF WorkerInv
<1>6. OnePlace'
  BY Zenon DEF OnePlace
<1>7. NoLostWakeup'
  BY Zenon DEF NoLostWakeup
<1>8. DrainedBeforeExit'
  BY Zenon DEF DrainedBeforeExit
<1>9. DestroyIsLast'
  BY Zenon DEF DestroyIsLast
<1> QED BY Zenon, <1>1, <1>2, <1>3, <1>4, <1>5, <1>6, <1>7, <1>8, <1>9

(* Every step of the specification preserves the invariant.                  *)
LEMMA NextInv == IInv /\ [Next]_vars => IInv'
<1> SUFFICES ASSUME IInv, [Next]_vars PROVE IInv'
  OBVIOUS
<1>1. ASSUME WorkerStep \/ EventInterrupted PROVE IInv'
  BY Zenon, <1>1, LoopCheckInv, LoopPopInv, DrainPopInv, JobReturnsInv, EventInv DEF WorkerStep
<1>2. ASSUME NEW s \in Submitters, SubmitStep(s) PROVE IInv'
  BY Zenon, <1>2, SubmitInsertInv, SubmitWriteInv DEF SubmitStep
<1>3. ASSUME NEW s \in Submitters, NEW j \in Jobs, SubmitCheck(s, j) PROVE IInv'
  BY Zenon, <1>3, SubmitCheckInv
<1>4. ASSUME NEW c \in Controllers, ControlStep(c) PROVE IInv'
  BY Zenon, <1>4, CreateThreadInv, CreateFailsInv, SetStartedInv, StopWriteInv, JoinInv,
     PthreadJoinInv, ReapInv DEF ControlStep
<1>5. ASSUME NEW c \in Controllers, ControlCall(c) PROVE IInv'
  BY Zenon, <1>5, StartInv, StopInv, JoinCallInv, DestroyInv DEF ControlCall
<1>6. ASSUME UNCHANGED vars PROVE IInv'
  BY Zenon, <1>6, StutterInv
<1> QED BY Zenon, <1>1, <1>2, <1>3, <1>4, <1>5, <1>6 DEF Next, Finished

(* The inductive invariant holds in every reachable state: who holds each    *)
(* job, which calls may be under way together, and what the worker's         *)
(* position says of the queue and the eventfd.                               *)
THEOREM Invariance == Spec => []IInv
BY InitInv, NextInv, PTL DEF Spec

(* Type correctness of the scheduler, its worker and the calls on it.        *)
THEOREM TypeCorrect == Spec => []TypeOK
<1>1. IInv => TypeOK
  BY Zenon DEF IInv
<1> QED BY <1>1, Invariance, PTL

(* For any number of submitters and controllers, the worker never goes to    *)
(* sleep on a zero eventfd with a job queued, or a Stop made, that nobody    *)
(* will wake it for.                                                         *)
THEOREM WakeUpsKept == Spec => []NoLostWakeup
<1>1. IInv => NoLostWakeup
  BY Zenon DEF IInv
<1> QED BY <1>1, Invariance, PTL

(* For any number of jobs, each is in one place: sSubmitToScheduler, the     *)
(* queue, sWorkerMain and Destroy hand it on and never duplicate it.         *)
THEOREM JobsInOnePlace == Spec => []OnePlace
<1>1. IInv => OnePlace
  BY Zenon DEF IInv
<1> QED BY <1>1, Invariance, PTL

(* The final drain of sWorkerMain leaves behind no job that was queued when  *)
(* the worker saw is_running false, however many there are.                  *)
THEOREM DrainIsComplete == Spec => []DrainedBeforeExit
<1>1. IInv => DrainedBeforeExit
  BY Zenon DEF IInv
<1> QED BY <1>1, Invariance, PTL

(* UfsrvSchedulerDestroy frees the scheduler after its worker has exited and *)
(* with no call under way.                                                   *)
THEOREM FreedLast == Spec => []DestroyIsLast
<1>1. IInv => DestroyIsLast
  BY Zenon DEF IInv
<1> QED BY <1>1, Invariance, PTL
-----------------------------------------------------------------------------
(* The scheduler as a FIFO executor, step by step.                          *)
Done == {j \in Jobs : fate[j] = "done"}

(* A step that neither touches the queue and the worker's job, nor finishes *)
(* a job, nor moves is_running is no step of the executor.                  *)
LEMMA NoStep ==
  ASSUME UNCHANGED <<queue, running, isRunning>>, Done' = Done,
         worker' \in {"none", "exited"} <=> worker \in {"none", "exited"}
  PROVE  UNCHANGED Exec!execVars
  BY Zenon DEF Exec!execVars, Done

(* sSubmitToScheduler hands a job in.                                       *)
LEMMA SubmitSteps ==
  ASSUME IInv, NEW s \in Submitters
  PROVE  /\ \A j \in Jobs : SubmitCheck(s, j) => UNCHANGED Exec!execVars
         /\ SubmitInsert(s) => Exec!HandIn
         /\ SubmitWrite(s) => UNCHANGED Exec!execVars
<1> USE DEF IInv, flags
<1>1. ASSUME NEW j \in Jobs, SubmitCheck(s, j) PROVE UNCHANGED Exec!execVars
  <2>1. Done' = Done
    BY <1>1 DEF SubmitCheck, Become, TypeOK, Done
  <2> QED BY Zenon, <1>1, <2>1, NoStep DEF SubmitCheck
<1>2. ASSUME SubmitInsert(s) PROVE Exec!HandIn
  <2>1. held[s] \in Jobs /\ fate[held[s]] = "accepted"
    BY Zenon, <1>2 DEF SubmitInsert, PlaceInv, OnePlace
  <2>2. Done' = Done
    BY <1>2, <2>1 DEF SubmitInsert, Become, TypeOK, Done
  <2> QED BY Zenon, <1>2, <2>1, <2>2 DEF SubmitInsert, Exec!HandIn, Done
<1>3. ASSUME SubmitWrite(s) PROVE UNCHANGED Exec!execVars
  BY Zenon, <1>3, NoStep DEF SubmitWrite, Done
<1> QED BY Zenon, <1>1, <1>2, <1>3

(* Start, Stop and Destroy give and withdraw the order to halt; creating    *)
(* the thread turns the executor on; what Destroy frees it never had on.    *)
LEMMA ControlSteps ==
  ASSUME IInv, NEW c \in Controllers, ControlStep(c) \/ ControlCall(c)
  PROVE  [Exec!Act]_(Exec!execVars)
<1> USE DEF IInv, flags, counts
<1>1. CASE CreateThread(c)
  <2>1. worker = "none"
    BY Zenon, <1>1 DEF CreateThread, LifeInv
  <2>2. Exec!TurnOn
    BY <1>1, <2>1 DEF CreateThread, Exec!TurnOn
  <2> QED BY Zenon, <2>2 DEF Exec!Act
<1>2. CASE SetStarted(c) \/ StopWrite(c) \/ Join(c) \/ PthreadJoin(c) \/ JoinCall(c)
  <2>1. UNCHANGED <<queue, running, isRunning, fate, worker>>
    BY Zenon, <1>2 DEF SetStarted, StopWrite, Join, PthreadJoin, JoinCall
  <2> QED BY Zenon, <2>1, NoStep DEF Done
<1>3. CASE CreateFails(c) \/ Start(c) \/ Stop(c) \/ Destroy(c)
  <2>1. UNCHANGED <<queue, running, fate, worker>>
    BY Zenon, <1>3 DEF CreateFails, Start, Stop, Destroy
  <2>2. isRunning' \in BOOLEAN /\ isRunning \in BOOLEAN
    BY Zenon, <1>3 DEF CreateFails, Start, Stop, Destroy, TypeOK
  <2>3. worker \notin {"none", "exited"} => isRunning' = isRunning \/ ~isRunning'
    BY Zenon, <1>3 DEF CreateFails, Start, Stop, Destroy, LifeInv
  <2>4. CASE isRunning' = isRunning
    BY Zenon, <2>1, <2>4, NoStep DEF Done
  <2>5. CASE isRunning' # isRunning
    <3>1. \/ isRunning /\ ~isRunning'
          \/ /\ ~isRunning /\ isRunning'
             /\ worker \in {"none", "exited"}
      BY <2>2, <2>3, <2>5
    <3>2. (~isRunning') # (~isRunning)
      BY <3>1
    <3>3. Exec!Order
      BY Zenon, <2>1, <3>1, <3>2 DEF Exec!Order
    <3> QED BY Zenon, <3>3 DEF Exec!Act
  <2> QED BY Zenon, <2>4, <2>5
<1>4. CASE Reap(c)
  <2>1. worker \in {"none", "exited"}
    BY Zenon, <1>4 DEF Reap, CloseInv
  <2>2. Done' = Done
    BY <1>4 DEF Reap, OnePlace, Done
  <2>3. Exec!Drop
    BY Zenon, <1>4, <2>1, <2>2 DEF Reap, Exec!Drop, Done
  <2> QED BY Zenon, <2>3 DEF Exec!Act
<1> QED BY Zenon, <1>1, <1>2, <1>3, <1>4 DEF ControlStep, ControlCall

(* A pop takes the oldest job, which was not run before.                    *)
LEMMA TakeStep ==
  ASSUME IInv, NEW from, NEW next, NEW empty, Pop(from, next, empty), queue # <<>>,
         {from, next} \cap {"none", "exited"} = {}, from \notin {"run", "drain_run"}
  PROVE  Exec!Take
<1> USE DEF IInv, flags
<1> DEFINE h == Head(queue)
<1>1. h \in Jobs /\ fate[h] = "queued"
  <2>1. h \in Jobs /\ h \in Range(queue)
    BY Zenon, TailElements DEF TypeOK, OnePlace
  <2> QED BY Zenon, <2>1 DEF OnePlace
<1>2. /\ worker = from /\ worker' = next /\ running' = h /\ queue' = Tail(queue)
      /\ fate' = [fate EXCEPT ![h] = "running"] /\ isRunning' = isRunning
  BY Zenon DEF Pop, WorkerVars, WorkerKeeps, Become
<1>3. Done' = Done /\ h \notin Done
  BY <1>1, <1>2 DEF TypeOK, Done
<1>4. running = NoJob
  BY Zenon, <1>2 DEF WorkerInv
<1> QED BY Zenon, <1>2, <1>3, <1>4 DEF Exec!Take, Done

(* The worker: its pops take jobs, its returns finish them, and it retires  *)
(* from the final drain only.                                               *)
LEMMA WorkerSteps ==
  ASSUME IInv, WorkerStep \/ EventInterrupted
  PROVE  [Exec!Act]_(Exec!execVars)
<1> USE SchedulerAssumption DEF IInv, flags, WorkerVars, WorkerKeeps
<1>1. CASE LoopCheck \/ EventRead \/ EventInterrupted
  <2>1. /\ UNCHANGED <<queue, fate, isRunning>> /\ running' = NoJob
        /\ worker \in {"loop", "recheck", "sleep"}
        /\ worker' \in {"loop", "pop", "drain", "sleep"}
    BY Zenon, <1>1 DEF LoopCheck, EventRead, EventInterrupted
  <2>2. running = NoJob
    BY Zenon, <2>1 DEF WorkerInv
  <2>3. worker' \in {"none", "exited"} <=> worker \in {"none", "exited"}
    BY Zenon, <2>1
  <2> QED BY Zenon, <2>1, <2>2, <2>3, NoStep DEF Done
<1>2. CASE LoopPop
  <2>1. CASE queue = <<>>
    <3>1. /\ worker = "pop" /\ worker' = "recheck" /\ running' = NoJob
          /\ UNCHANGED <<queue, fate, isRunning>>
      BY Zenon, <1>2, <2>1 DEF LoopPop, Pop
    <3>2. running = NoJob
      BY Zenon, <3>1 DEF WorkerInv
    <3>3. worker' \in {"none", "exited"} <=> worker \in {"none", "exited"}
      BY Zenon, <3>1
    <3> QED BY Zenon, <3>1, <3>2, <3>3, NoStep DEF Done
  <2>2. CASE queue # <<>>
    <3>1. Exec!Take
      BY <1>2, <2>2, TakeStep DEF LoopPop
    <3> QED BY Zenon, <3>1 DEF Exec!Act
  <2> QED BY Zenon, <2>1, <2>2
<1>3. CASE DrainPop
  <2>1. CASE queue = <<>>
    <3>1. /\ worker = "drain" /\ worker' = "exited" /\ running' = NoJob
          /\ UNCHANGED <<queue, fate, isRunning>>
      BY Zenon, <1>3, <2>1 DEF DrainPop, Pop
    <3>2. running = NoJob /\ ~isRunning
      BY Zenon, <3>1 DEF WorkerInv
    <3>3. Exec!Retire
      BY Zenon, <2>1, <3>1, <3>2 DEF Exec!Retire
    <3> QED BY Zenon, <3>3 DEF Exec!Act
  <2>2. CASE queue # <<>>
    <3>1. Exec!Take
      BY <1>3, <2>2, TakeStep DEF DrainPop
    <3> QED BY Zenon, <3>1 DEF Exec!Act
  <2> QED BY Zenon, <2>1, <2>2
<1>4. CASE JobReturns
  <2>1. /\ worker \in {"run", "drain_run"} /\ worker' \in {"loop", "drain"}
        /\ fate' = [fate EXCEPT ![running] = "done"] /\ running' = NoJob
        /\ UNCHANGED <<queue, isRunning>>
    BY Zenon, <1>4 DEF JobReturns, Become
  <2>2. running \in Jobs
    BY Zenon, <2>1 DEF TypeOK, WorkerInv
  <2>3. Done' = Done \cup {running}
    BY <2>1, <2>2 DEF TypeOK, Done
  <2>4. Exec!Finish
    BY Zenon, <2>1, <2>2, <2>3 DEF Exec!Finish, Done
  <2> QED BY Zenon, <2>4 DEF Exec!Act
<1> QED BY Zenon, <1>1, <1>2, <1>3, <1>4 DEF WorkerStep

LEMMA ExecStep == IInv /\ [Next]_vars => [Exec!Act]_(Exec!execVars)
<1> SUFFICES ASSUME IInv, [Next]_vars PROVE [Exec!Act]_(Exec!execVars)
  OBVIOUS
<1>1. CASE UNCHANGED vars
  BY Zenon, <1>1, NoStep DEF vars, flags, Done
<1>2. ASSUME NEW s \in Submitters, SubmitStep(s) \/ \E j \in Jobs : SubmitCheck(s, j)
      PROVE  [Exec!Act]_(Exec!execVars)
  BY Zenon, <1>2, SubmitSteps DEF SubmitStep, Exec!Act
<1> QED BY Zenon, <1>1, <1>2, ControlSteps, WorkerSteps DEF Next, Finished

(* For any jobs, submitters and controllers the scheduler never does what a *)
(* FIFO executor would not: it runs jobs one at a time, once each and in    *)
(* the order of insertion, and its thread ends only after a Stop and with   *)
(* an empty queue.                                                          *)
THEOREM RefinesExecutor == Spec => Exec!ExecSafety
<1>1. Init => Exec!Start
  BY DEF Init, Exec!Start
<1> QED BY <1>1, ExecStep, Invariance, PTL DEF Spec, Exec!ExecSafety
=============================================================================
