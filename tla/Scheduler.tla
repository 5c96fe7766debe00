----------------------------- MODULE Scheduler ------------------------------
(***************************************************************************)
(* The single-worker scheduler: ufsrv_scheduler.c.                         *)
(*                                                                         *)
(* One scheduler, its worker thread, the threads that submit jobs (a job   *)
(* that submits from the worker is a submitter confined to that job's run) *)
(* and the controllers that start, stop, join and destroy it.  A step is   *)
(* one atomic access, queue operation, system call or job run.  The MPSC   *)
(* queue belongs to uflib and is modelled from its use: insert and pop are *)
(* linearizable and keep the order of insertion.                           *)
(*                                                                         *)
(* Callers follow the documented lifecycle: Start does not overlap another *)
(* control call, and Destroy comes last, with no call in flight.           *)
(***************************************************************************)
EXTENDS Integers, Sequences, Functions

CONSTANTS
  Jobs,         \* the jobs submitted, each at most once
  Submitters,   \* threads that submit
  Controllers,  \* threads that start, stop, join and destroy
  MaxStarts,    \* bound: calls of Start that get past its first check
  MaxStops,     \* bound: calls of Stop
  NoJob         \* held by a thread that handles no job

ASSUME SchedulerAssumption ==
  /\ NoJob \notin Jobs
  /\ Submitters \cap Controllers = {}
  /\ MaxStarts \in Nat /\ MaxStops \in Nat

Threads == Submitters \cup Controllers

VARIABLES
  isRunning, isStarted, isJoined,  \* the scheduler's flags
  queue,       \* the MPSC queue, oldest first
  eventFd,     \* the eventfd's counter
  freed,       \* Destroy has freed the scheduler
  worker,      \* what the worker thread does next; "none" before pthread_create
  running,     \* the job it runs
  pc,          \* what each other thread does next
  held,        \* the job a submitter is submitting
  destroyer,   \* the controllers whose Stop or Join was called by Destroy
  starts, stops,  \* calls so far
  fate,        \* history: what became of each job
  inTime,      \* history: jobs queued before the worker began its final drain
  joins        \* history: the controllers whose Join of a started scheduler returned

flags == <<isRunning, isStarted, isJoined>>
counts == <<starts, stops>>
vars == <<flags, queue, eventFd, freed, worker, running, pc, held, destroyer,
          counts, fate, inTime, joins>>

Init ==
  /\ isRunning = FALSE /\ isStarted = FALSE /\ isJoined = FALSE
  /\ queue = <<>>
  /\ eventFd = 0
  /\ freed = FALSE
  /\ worker = "none" /\ running = NoJob
  /\ pc = [t \in Threads |-> "idle"]
  /\ held = [s \in Submitters |-> NoJob]
  /\ destroyer = {}
  /\ starts = 0 /\ stops = 0
  /\ fate = [j \in Jobs |-> "new"]
  /\ inTime = {}
  /\ joins = {}

Goto(t, l) == pc' = [pc EXCEPT ![t] = l]
Become(j, f) == fate' = [fate EXCEPT ![j] = f]

(* Destroy has been called: nobody calls any more.                          *)
Closing == freed \/ destroyer # {}

-----------------------------------------------------------------------------
(* sSubmitToScheduler: refuse without memory, look at is_running ...        *)
SubmitCheck(s, j) ==
  /\ pc[s] = "idle"
  /\ ~Closing
  /\ fate[j] = "new"
  /\ \/ /\ isRunning /\ Goto(s, "insert")
        /\ held' = [held EXCEPT ![s] = j] /\ Become(j, "accepted")
     \/ Become(j, "refused") /\ UNCHANGED <<pc, held>>
  /\ UNCHANGED <<flags, queue, eventFd, freed, worker, running, destroyer, counts,
                 inTime, joins>>

(* ... insert the job ...                                                   *)
SubmitInsert(s) ==
  LET j == held[s] IN
  /\ pc[s] = "insert"
  /\ queue' = Append(queue, j)
  /\ Become(j, "queued")
  /\ inTime' = IF worker \in {"drain", "drain_run", "exited"} THEN inTime ELSE inTime \cup {j}
  /\ Goto(s, "write")
  /\ UNCHANGED <<flags, eventFd, freed, worker, running, held, destroyer, counts, joins>>

(* ... and wake the worker.                                                 *)
SubmitWrite(s) ==
  /\ pc[s] = "write"
  /\ eventFd' = eventFd + 1
  /\ held' = [held EXCEPT ![s] = NoJob]
  /\ Goto(s, "idle")
  /\ UNCHANGED <<flags, queue, freed, worker, running, destroyer, counts, fate, inTime, joins>>

-----------------------------------------------------------------------------
(* UfsrvSchedulerStart: is_running, then the thread, then is_started; a     *)
(* failed pthread_create takes is_running back.                             *)
Start(c) ==
  /\ \A d \in Controllers : pc[d] = "idle"
  /\ ~Closing
  /\ ~isStarted
  /\ starts < MaxStarts
  /\ starts' = starts + 1
  /\ isRunning' = TRUE
  /\ Goto(c, "create")
  /\ UNCHANGED <<isStarted, isJoined, queue, eventFd, freed, worker, running, held,
                 destroyer, stops, fate, inTime, joins>>

CreateThread(c) ==
  /\ pc[c] = "create"
  /\ worker' = "loop"
  /\ Goto(c, "started")
  /\ UNCHANGED <<flags, queue, eventFd, freed, running, held, destroyer, counts, fate,
                 inTime, joins>>

CreateFails(c) ==
  /\ pc[c] = "create"
  /\ isRunning' = FALSE
  /\ Goto(c, "idle")
  /\ UNCHANGED <<isStarted, isJoined, queue, eventFd, freed, worker, running, held,
                 destroyer, counts, fate, inTime, joins>>

SetStarted(c) ==
  /\ pc[c] = "started"
  /\ isStarted' = TRUE
  /\ Goto(c, "idle")
  /\ UNCHANGED <<isRunning, isJoined, queue, eventFd, freed, worker, running, held,
                 destroyer, counts, fate, inTime, joins>>

-----------------------------------------------------------------------------
(* No Start is under way.                                                   *)
Settled == \A d \in Controllers : pc[d] \notin {"create", "started"}

(* UfsrvSchedulerStop: clear is_running, then wake the worker.              *)
Stop(c) ==
  /\ pc[c] = "idle"
  /\ Settled /\ ~Closing
  /\ stops < MaxStops
  /\ stops' = stops + 1
  /\ isRunning' = FALSE
  /\ Goto(c, "stop_write")
  /\ UNCHANGED <<isStarted, isJoined, queue, eventFd, freed, worker, running, held,
                 destroyer, starts, fate, inTime, joins>>

(* Mutants: Stop does not wake the worker; Destroy does not join it.        *)
StopSilently(c) ==
  /\ pc[c] = "stop_write"
  /\ Goto(c, IF c \in destroyer THEN "join" ELSE "idle")
  /\ UNCHANGED <<flags, queue, eventFd, freed, worker, running, held, destroyer, counts,
                 fate, inTime, joins>>

StopWithoutJoin(c) ==
  /\ pc[c] = "stop_write"
  /\ eventFd' = eventFd + 1
  /\ Goto(c, IF c \in destroyer THEN "reap" ELSE "idle")
  /\ UNCHANGED <<flags, queue, freed, worker, running, held, destroyer, counts, fate,
                 inTime, joins>>

StopWrite(c) ==
  /\ pc[c] = "stop_write"
  /\ eventFd' = eventFd + 1
  /\ Goto(c, IF c \in destroyer THEN "join" ELSE "idle")
  /\ UNCHANGED <<flags, queue, freed, worker, running, held, destroyer, counts, fate,
                 inTime, joins>>

(* UfsrvSchedulerJoin: the first caller after a Start waits, others return. *)
JoinReturns(c) ==
  /\ joins' = IF isStarted THEN joins \cup {c} ELSE joins
  /\ Goto(c, IF c \in destroyer THEN "reap" ELSE "idle")

JoinCall(c) ==
  /\ pc[c] = "idle"
  /\ Settled /\ ~Closing
  /\ c \notin joins
  /\ Goto(c, "join")
  /\ UNCHANGED <<flags, queue, eventFd, freed, worker, running, held, destroyer, counts,
                 fate, inTime, joins>>

Join(c) ==
  /\ pc[c] = "join"
  /\ IF isStarted /\ ~isJoined
       THEN isJoined' = TRUE /\ Goto(c, "wait") /\ UNCHANGED joins
       ELSE JoinReturns(c) /\ UNCHANGED isJoined
  /\ UNCHANGED <<isRunning, isStarted, queue, eventFd, freed, worker, running, held,
                 destroyer, counts, fate, inTime>>

PthreadJoin(c) ==
  /\ pc[c] = "wait"
  /\ worker = "exited"
  /\ JoinReturns(c)
  /\ UNCHANGED <<flags, queue, eventFd, freed, worker, running, held, destroyer, counts,
                 fate, inTime>>

(* UfsrvSchedulerDestroy: stop and join a scheduler that was started and    *)
(* not joined, then free the jobs left in the queue and the scheduler.      *)
Destroy(c) ==
  /\ \A t \in Threads : pc[t] = "idle"
  /\ ~Closing
  /\ destroyer' = {c}
  /\ IF isStarted /\ ~isJoined
       THEN isRunning' = FALSE /\ Goto(c, "stop_write")
       ELSE UNCHANGED isRunning /\ Goto(c, "reap")
  /\ UNCHANGED <<isStarted, isJoined, queue, eventFd, freed, worker, running, held, counts,
                 fate, inTime, joins>>

Reap(c) ==
  /\ pc[c] = "reap"
  /\ fate' = [j \in Jobs |-> IF j \in Range(queue) THEN "dropped" ELSE fate[j]]
  /\ queue' = <<>>
  /\ freed' = TRUE
  /\ Goto(c, "idle")
  /\ UNCHANGED <<flags, eventFd, worker, running, held, destroyer, counts, inTime, joins>>

-----------------------------------------------------------------------------
(* sWorkerMain.                                                             *)
WorkerVars(w, j) == worker' = w /\ running' = j
WorkerKeeps == UNCHANGED <<flags, freed, pc, held, destroyer, counts, inTime, joins>>

(* Mutant: a worker that finds the scheduler stopped goes round again.      *)
LoopCheckContinues ==
  /\ worker \in {"loop", "recheck"}
  /\ WorkerVars(IF worker = "loop" THEN "pop" ELSE IF isRunning THEN "sleep" ELSE "loop", NoJob)
  /\ UNCHANGED <<queue, eventFd, fate>>
  /\ WorkerKeeps

(* The loop's condition, and the check again before sleeping.               *)
LoopCheck ==
  /\ worker \in {"loop", "recheck"}
  /\ WorkerVars(IF ~isRunning THEN "drain" ELSE IF worker = "loop" THEN "pop" ELSE "sleep",
                NoJob)
  /\ UNCHANGED <<queue, eventFd, fate>>
  /\ WorkerKeeps

(* Mutant: the newest job is taken first.                                   *)
PopNewest(from, next, empty) ==
  /\ worker = from
  /\ IF queue = <<>>
       THEN WorkerVars(empty, NoJob) /\ UNCHANGED <<queue, fate>>
       ELSE /\ WorkerVars(next, queue[Len(queue)])
            /\ queue' = SubSeq(queue, 1, Len(queue) - 1)
            /\ Become(queue[Len(queue)], "running")
  /\ UNCHANGED eventFd
  /\ WorkerKeeps

(* mpsc_queue_pop at one of its two call sites in the worker.               *)
Pop(from, next, empty) ==
  /\ worker = from
  /\ IF queue = <<>>
       THEN WorkerVars(empty, NoJob) /\ UNCHANGED <<queue, fate>>
       ELSE /\ WorkerVars(next, Head(queue))
            /\ queue' = Tail(queue)
            /\ Become(Head(queue), "running")
  /\ UNCHANGED eventFd
  /\ WorkerKeeps

LoopPop == Pop("pop", "run", "recheck")

DrainPop == Pop("drain", "drain_run", "exited")

(* sRunJob returns.                                                         *)
JobReturns ==
  /\ worker \in {"run", "drain_run"}
  /\ Become(running, "done")
  /\ WorkerVars(IF worker = "run" THEN "loop" ELSE "drain", NoJob)
  /\ UNCHANGED <<queue, eventFd>>
  /\ WorkerKeeps

(* read(event_fd) blocks at zero and resets the counter ...                 *)
EventRead ==
  /\ worker = "sleep"
  /\ eventFd > 0
  /\ eventFd' = 0
  /\ WorkerVars("loop", NoJob)
  /\ UNCHANGED <<queue, fate>>
  /\ WorkerKeeps

(* ... or is interrupted by a signal.                                       *)
EventInterrupted ==
  /\ worker = "sleep"
  /\ WorkerVars("loop", NoJob)
  /\ UNCHANGED <<queue, eventFd, fate>>
  /\ WorkerKeeps

WorkerStep == LoopCheck \/ LoopPop \/ DrainPop \/ JobReturns \/ EventRead

SubmitStep(s) == SubmitInsert(s) \/ SubmitWrite(s)

ControlStep(c) ==
  \/ CreateThread(c) \/ CreateFails(c) \/ SetStarted(c)
  \/ StopWrite(c) \/ Join(c) \/ PthreadJoin(c) \/ Reap(c)

ControlCall(c) == Start(c) \/ Stop(c) \/ JoinCall(c) \/ Destroy(c)

(* The scheduler is gone.                                                   *)
Finished == freed /\ UNCHANGED vars

Next ==
  \/ WorkerStep
  \/ EventInterrupted
  \/ \E s \in Submitters : SubmitStep(s) \/ \E j \in Jobs : SubmitCheck(s, j)
  \/ \E c \in Controllers : ControlStep(c) \/ ControlCall(c)
  \/ Finished

Spec == Init /\ [][Next]_vars

(* Threads run and jobs return; nothing makes anybody call, and no signal   *)
(* need ever arrive.                                                        *)
Fairness ==
  /\ WF_vars(WorkerStep)
  /\ \A s \in Submitters : WF_vars(SubmitStep(s))
  /\ \A c \in Controllers : WF_vars(ControlStep(c))

FairSpec == Spec /\ Fairness

-----------------------------------------------------------------------------
WorkerPCs == {"none", "loop", "pop", "run", "recheck", "sleep", "drain", "drain_run",
              "exited"}
ThreadPCs == {"idle", "insert", "write", "create", "started", "stop_write", "join",
              "wait", "reap"}
Fates == {"new", "refused", "accepted", "queued", "running", "done", "dropped"}

(* Type invariant.                                                          *)
TypeOK ==
  /\ isRunning \in BOOLEAN /\ isStarted \in BOOLEAN /\ isJoined \in BOOLEAN
  /\ queue \in Seq(Jobs)
  /\ eventFd \in Nat
  /\ freed \in BOOLEAN
  /\ worker \in WorkerPCs
  /\ running \in Jobs \cup {NoJob}
  /\ pc \in [Threads -> ThreadPCs]
  /\ held \in [Submitters -> Jobs \cup {NoJob}]
  /\ destroyer \subseteq Controllers
  /\ starts \in 0..MaxStarts /\ stops \in 0..MaxStops
  /\ fate \in [Jobs -> Fates]
  /\ inTime \subseteq Jobs
  /\ joins \subseteq Controllers

(* No lost wake-up: when the worker is about to sleep, or sleeps, on a zero *)
(* counter, then any queued job has its submitter's write still to come,    *)
(* and a scheduler that was stopped has its stopper's.                      *)
NoLostWakeup ==
  worker = "sleep" /\ eventFd = 0 =>
    /\ queue # <<>> => \E s \in Submitters : pc[s] = "write"
    /\ ~isRunning => \E c \in Controllers : pc[c] = "stop_write"

(* "Final drain: run anything submitted before we observed is_running ==    *)
(* false": a job queued before the worker left its loop has run when the    *)
(* worker exits.                                                            *)
DrainedBeforeExit ==
  worker = "exited" => \A j \in inTime : fate[j] = "done"

(* A job is in exactly one place: the queue holds the queued jobs once      *)
(* each, the worker the running one, a submitter the accepted ones, so that *)
(* none runs twice, runs after Submit refused it, or is freed twice.        *)
OnePlace ==
  /\ Range(queue) = {j \in Jobs : fate[j] = "queued"}
  /\ IsInjective(queue)
  /\ \A j \in Jobs : fate[j] = "running" <=> running = j
  /\ \A j \in Jobs : fate[j] = "accepted" <=>
       \E s \in Submitters : pc[s] = "insert" /\ held[s] = j

(* Destroy frees the scheduler only when the worker has exited (or was      *)
(* never created), no other call is in the library and no accepted job is   *)
(* still held.                                                              *)
DestroyIsLast ==
  freed => /\ worker \in {"none", "exited"}
           /\ queue = <<>>
           /\ \A t \in Threads : pc[t] = "idle"

(* A Join or a Destroy that waits for the worker returns once the scheduler *)
(* was stopped, also when the worker was asleep or had jobs to drain.       *)
StopEndsJoin ==
  \A c \in Controllers : pc[c] = "wait" /\ ~isRunning ~> pc[c] = "idle"
-----------------------------------------------------------------------------
(* The inductive invariant behind the safety properties.                    *)

(* Who may be where: a Start, a Destroy and a submitter's insert each have  *)
(* the state their guards left behind.                                      *)
PlaceInv ==
  /\ \A s \in Submitters : pc[s] \in {"idle", "insert", "write"}
  /\ \A c \in Controllers : pc[c] \notin {"insert", "write"}
  /\ \A s \in Submitters : pc[s] = "insert" => held[s] \in Jobs
  /\ \A s, u \in Submitters :
       pc[s] = "insert" /\ pc[u] = "insert" /\ held[s] = held[u] => s = u

(* A Start has no company; the worker exists once it made the thread, and   *)
(* has exited when a Join returned.                                         *)
LifeInv ==
  /\ \A c, d \in Controllers : pc[c] \in {"create", "started"} => pc[d] = "idle" \/ c = d
  /\ \A c \in Controllers : pc[c] = "create" => worker = "none" /\ ~isStarted
  /\ \A c \in Controllers : pc[c] = "started" => worker # "none" /\ ~isStarted
  /\ worker # "none" => isStarted \/ \E c \in Controllers : pc[c] = "started"
  /\ isStarted => worker # "none"
  /\ isJoined => isStarted /\ (worker = "exited" \/ \E c \in Controllers : pc[c] = "wait")

(* From Destroy on its caller is alone, and frees nothing before the join.  *)
CloseInv ==
  /\ \A c \in destroyer : \A t \in Threads : pc[t] = "idle" \/ t = c
  /\ \A c \in destroyer :
       /\ pc[c] \in {"stop_write", "join", "wait", "reap"} \/ freed
       /\ pc[c] \in {"stop_write", "join"} => isStarted /\ ~isJoined
  /\ \A c \in Controllers : pc[c] = "reap" => c \in destroyer /\ worker \in {"none", "exited"}
  /\ \A j \in Jobs : fate[j] = "dropped" => freed

(* What the worker is at says what it holds and what it has missed.         *)
WorkerInv ==
  /\ running # NoJob <=> worker \in {"run", "drain_run"}
  /\ worker \in {"recheck", "sleep"} /\ eventFd = 0 /\ queue # <<>> =>
       \E s \in Submitters : pc[s] = "write"
  /\ \A j \in inTime : fate[j] \in {"queued", "running", "done", "dropped"}
  /\ worker \in {"drain", "drain_run", "exited"} => ~isRunning

IInv ==
  /\ TypeOK /\ PlaceInv /\ LifeInv /\ CloseInv /\ WorkerInv
  /\ OnePlace /\ NoLostWakeup /\ DrainedBeforeExit /\ DestroyIsLast
=============================================================================
