-------------------------------- MODULE Pool --------------------------------
(***************************************************************************)
(* The scheduler pool: the UfsrvSchedulerPool calls of ufsrv_scheduler.c.  *)
(*                                                                         *)
(* A worker is a scheduler reduced to what module Scheduler shows of it:   *)
(* its flags, a FIFO queue and a thread that runs what is queued, sees     *)
(* is_running false, drains and exits.  A call the pool makes on a worker  *)
(* is one step, except that Submit checks is_running and then inserts.     *)
(* A job is "early" when its worker was still in its loop at the insertion *)
(* and "late" otherwise; nothing else tells two jobs apart here.           *)
(*                                                                         *)
(* One thread starts, joins and destroys the pool, as the API asks; a      *)
(* second one may stop it at any time, in the middle of Start too.         *)
(* Destroy comes last, with no other call in flight.                       *)
(***************************************************************************)
EXTENDS Integers, Sequences, Functions

CONSTANTS
  Size,         \* worker_pool_sz
  Wrap,         \* the range of the round-robin counter, 2^32 in the code
  Submitters,
  MaxJobs, MaxStarts, MaxStops  \* bounds: calls of Submit, PoolStart and PoolStop

ASSUME PoolAssumption ==
  /\ Size \in Nat \ {0} /\ Wrap \in Nat \ {0} /\ Size <= Wrap
  /\ MaxJobs \in Nat /\ MaxStarts \in Nat /\ MaxStops \in Nat

Workers == 0..(Size - 1)
Robin == -1      \* the target of PoolSubmit
OutOfRange == -2 \* a worker_index of PoolSubmitTo that names no worker
Controls == {"owner", "stopper"}

VARIABLES
  isRunning, next, freed,        \* the pool's fields; free(pool) has run
  up, started, joined,           \* the workers with is_running, is_started, is_joined
  thread, queue,                 \* worker -> its thread's state, its queue
  sub,    \* submitter -> what it does next, for which worker
  ctl,    \* control thread -> the loop it is in, the worker it is at, its end
  calls,  \* calls made of Submit, PoolStart and PoolStop
  dropped,       \* history: an early job was freed and not run
  crossed,       \* history: a Stop and a Start were under way together
  picked, wraps  \* history: round-robin picks of each worker, turns of the counter

poolVars == <<isRunning, next, freed>>
workerVars == <<up, started, joined, thread, queue>>
history == <<picked, wraps, crossed>>
vars == <<poolVars, workerVars, sub, ctl, calls, dropped, history>>

NoCall == [pc |-> "idle", to |-> Robin]

(* UfsrvSchedulerPoolCreate; a pool whose creation failed is gone again,    *)
(* with the workers it had made.                                            *)
Init ==
  /\ isRunning = FALSE /\ next = 0 /\ freed \in BOOLEAN
  /\ up = {} /\ started = {} /\ joined = {}
  /\ thread = [i \in Workers |-> "none"] /\ queue = [i \in Workers |-> <<>>]
  /\ sub = [s \in Submitters |-> NoCall]
  /\ ctl = [c \in Controls |-> [pc |-> "idle", at |-> 0, end |-> Size]]
  /\ calls = [submit |-> 0, start |-> 0, stop |-> 0]
  /\ dropped = FALSE /\ crossed = FALSE
  /\ picked = [i \in Workers |-> 0] /\ wraps = 0

Busy(c) == ctl[c].pc # "idle"
Send(s, l, i) == sub' = [sub EXCEPT ![s] = [pc |-> l, to |-> i]]
Return(s) == sub' = [sub EXCEPT ![s] = NoCall]
Starting == ctl["owner"].pc \in {"start", "started", "roll_back"}
Destroying == freed \/ ctl["owner"].pc \in {"d_stop", "d_join", "d_reap", "d_wait"}

-----------------------------------------------------------------------------
(* UfsrvSchedulerPoolSubmit and UfsrvSchedulerPoolSubmitTo ...              *)
Submit(s, i) ==
  /\ sub[s].pc = "idle" /\ calls.submit < MaxJobs /\ ~Destroying
  /\ calls' = [calls EXCEPT !.submit = @ + 1]
  /\ Send(s, "check", i)
  /\ UNCHANGED <<poolVars, workerVars, ctl, dropped, history>>

(* ... look at the pool's flag; an index out of range comes back as Submit. *)
Check(s) ==
  /\ sub[s].pc = "check"
  /\ \/ ~isRunning /\ Return(s)
     \/ isRunning /\ sub[s].to \in Workers /\ Send(s, "submit", sub[s].to)
     \/ isRunning /\ sub[s].to = OutOfRange /\ Send(s, "check", Robin)
     \/ isRunning /\ sub[s].to = Robin /\ Send(s, "pick", Robin)
  /\ UNCHANGED <<poolVars, workerVars, ctl, calls, dropped, history>>

(* Mutant: the counter goes back to the second worker after the last one.   *)
Bump == IF next + 1 = Size THEN 1 ELSE (next + 1) % Wrap

(* fetch_add on the unsigned counter.                                       *)
FetchAdd == (next + 1) % Wrap

Pick(s) ==
  /\ sub[s].pc = "pick"
  /\ next' = FetchAdd
  /\ Send(s, "submit", next % Size)
  /\ picked' = [picked EXCEPT ![next % Size] = @ + 1]
  /\ wraps' = IF next + 1 = Wrap THEN wraps + 1 ELSE wraps
  /\ UNCHANGED <<isRunning, freed, workerVars, ctl, calls, dropped, crossed>>

(* UfsrvSchedulerSubmit on the worker: its flag, then the insertion.  It    *)
(* refuses without memory for the job, too.                                 *)
SubmitCheck(s) ==
  /\ sub[s].pc = "submit"
  /\ Return(s) \/ (sub[s].to \in up /\ Send(s, "insert", sub[s].to))
  /\ UNCHANGED <<poolVars, workerVars, ctl, calls, dropped, history>>

SubmitInsert(s) ==
  /\ sub[s].pc = "insert"
  /\ queue' = [queue EXCEPT ![sub[s].to] =
                  Append(@, IF thread[sub[s].to] = "loop" THEN "early" ELSE "late")]
  /\ Return(s)
  /\ UNCHANGED <<poolVars, up, started, joined, thread, ctl, calls, dropped, history>>

-----------------------------------------------------------------------------
(* The control calls loop over the workers.                                 *)
At(c, l) == ctl[c].pc = l
Enter(c, l, n) == ctl' = [ctl EXCEPT ![c] = [pc |-> l, at |-> 0, end |-> n]]
Loop(c, l, after) ==
  IF ctl[c].at + 1 < ctl[c].end THEN ctl' = [ctl EXCEPT ![c].pc = l, ![c].at = @ + 1]
                                ELSE Enter(c, after, Size)

PoolStart ==
  /\ ~Busy("owner") /\ ~freed /\ calls.start < MaxStarts
  /\ calls' = [calls EXCEPT !.start = @ + 1]
  /\ Enter("owner", "start", Size)
  /\ crossed' = (crossed \/ Busy("stopper"))
  /\ UNCHANGED <<poolVars, workerVars, sub, dropped, picked, wraps>>

(* UfsrvSchedulerStart on a worker; after the last one the pool runs ...    *)
StartWorker ==
  LET i == ctl["owner"].at IN
  /\ At("owner", "start") /\ i \notin started
  /\ up' = up \cup {i} /\ started' = started \cup {i}
  /\ thread' = [thread EXCEPT ![i] = "loop"]
  /\ Loop("owner", "start", "started")
  /\ UNCHANGED <<poolVars, joined, queue, sub, calls, dropped, history>>

(* ... whoever stopped it meanwhile.                                        *)
PoolStarted ==
  /\ At("owner", "started")
  /\ isRunning' = TRUE
  /\ Enter("owner", "idle", Size)
  /\ UNCHANGED <<next, freed, workerVars, sub, calls, dropped, history>>

(* Mutant: the workers before the one that failed keep running.             *)
GiveUp(i) == Enter("owner", "idle", Size)

(* Where Start goes when worker i did not start: stop those before it.      *)
AfterFailure(i) ==
  IF i = 0 THEN Enter("owner", "idle", Size) ELSE Enter("owner", "roll_back", i)

(* The worker was started before, or pthread_create fails.                  *)
StartFails ==
  /\ At("owner", "start")
  /\ AfterFailure(ctl["owner"].at)
  /\ UNCHANGED <<poolVars, workerVars, sub, calls, dropped, history>>

RollBack ==
  /\ At("owner", "roll_back")
  /\ up' = up \ {ctl["owner"].at}
  /\ Loop("owner", "roll_back", "idle")
  /\ UNCHANGED <<poolVars, started, joined, thread, queue, sub, calls, dropped, history>>

PoolStop(c) ==
  /\ ~Busy(c) /\ ~Destroying /\ calls.stop < MaxStops
  /\ calls' = [calls EXCEPT !.stop = @ + 1]
  /\ isRunning' = FALSE
  /\ Enter(c, "stop", Size)
  /\ crossed' = (crossed \/ Starting)
  /\ UNCHANGED <<next, freed, workerVars, sub, dropped, picked, wraps>>

(* UfsrvSchedulerStop on a worker, for Stop or for Destroy.                 *)
StopWorker(c) ==
  /\ ctl[c].pc \in {"stop", "d_stop"}
  /\ up' = up \ {ctl[c].at}
  /\ Loop(c, ctl[c].pc, IF At(c, "stop") THEN "idle" ELSE "d_join")
  /\ UNCHANGED <<poolVars, started, joined, thread, queue, sub, calls, dropped, history>>

(* A Join with nothing to wait for changes nothing.                         *)
PoolJoin ==
  /\ ~Busy("owner") /\ ~freed /\ started \ joined # {}
  /\ Enter("owner", "join", Size)
  /\ UNCHANGED <<poolVars, workerVars, sub, calls, dropped, history>>

JoinedAfter(i) == joined \cup (started \cap {i})

(* UfsrvSchedulerJoin on a worker: one that was started is waited for once. *)
JoinWorker ==
  LET i == ctl["owner"].at IN
  /\ ctl["owner"].pc \in {"join", "d_join"}
  /\ i \in started \ joined => thread[i] = "exited"
  /\ joined' = JoinedAfter(i)
  /\ Loop("owner", ctl["owner"].pc, IF At("owner", "join") THEN "idle" ELSE "d_reap")
  /\ UNCHANGED <<poolVars, up, started, thread, queue, sub, calls, dropped, history>>

(* UfsrvSchedulerPoolDestroy: stop and join a running pool, then destroy    *)
(* each worker.                                                             *)
PoolDestroy ==
  /\ \A c \in Controls : ~Busy(c)
  /\ \A s \in Submitters : sub[s].pc = "idle"
  /\ ~freed
  /\ isRunning' = FALSE
  /\ Enter("owner", IF isRunning THEN "d_stop" ELSE "d_reap", Size)
  /\ UNCHANGED <<next, freed, workerVars, sub, calls, dropped, history>>

(* Mutant: a worker that nobody joined is not waited for.                   *)
Unjoined(i) == FALSE

(* UfsrvSchedulerDestroy stops and joins a started worker nobody joined ... *)
NeedsJoin(i) == i \in started \ joined

DestroyWorker ==
  LET i == ctl["owner"].at IN
  /\ At("owner", "d_reap")
  /\ up' = IF NeedsJoin(i) THEN up \ {i} ELSE up
  /\ ctl' = [ctl EXCEPT !["owner"].pc = "d_wait"]
  /\ UNCHANGED <<poolVars, started, joined, thread, queue, sub, calls, dropped, history>>

(* ... and frees the jobs left; the pool goes after its last worker.        *)
ReapWorker ==
  LET i == ctl["owner"].at IN
  /\ At("owner", "d_wait")
  /\ NeedsJoin(i) => thread[i] = "exited"
  /\ joined' = JoinedAfter(i)
  /\ dropped' = (dropped \/ "early" \in Range(queue[i]))
  /\ queue' = [queue EXCEPT ![i] = <<>>]
  /\ Loop("owner", "d_reap", "idle")
  /\ freed' = (i + 1 = Size)
  /\ UNCHANGED <<isRunning, next, up, started, thread, sub, calls, history>>

-----------------------------------------------------------------------------
(* Mutant: the job popped goes back to the end of the queue.                *)
PutBack(i) ==
  /\ thread[i] \in {"loop", "drain"} /\ queue[i] # <<>>
  /\ queue' = [queue EXCEPT ![i] = Append(Tail(@), Head(@))]
  /\ UNCHANGED <<poolVars, up, started, joined, thread, sub, ctl, calls, dropped, history>>

(* A worker's thread runs its oldest job, leaves its loop when it sees      *)
(* is_running false, and exits once its queue is drained.                   *)
RunJob(i) ==
  /\ thread[i] \in {"loop", "drain"} /\ queue[i] # <<>>
  /\ queue' = [queue EXCEPT ![i] = Tail(@)]
  /\ UNCHANGED <<poolVars, up, started, joined, thread, sub, ctl, calls, dropped, history>>

(* Mutant: the thread goes back to its loop after the final drain.          *)
LeaveAndReturn(i) ==
  /\ \/ thread[i] = "loop" /\ i \notin up
     \/ thread[i] = "drain" /\ queue[i] = <<>>
  /\ thread' = [thread EXCEPT ![i] = IF @ = "loop" THEN "drain" ELSE "loop"]
  /\ UNCHANGED <<poolVars, up, started, joined, queue, sub, ctl, calls, dropped, history>>

Leave(i) ==
  /\ \/ thread[i] = "loop" /\ i \notin up
     \/ thread[i] = "drain" /\ queue[i] = <<>>
  /\ thread' = [thread EXCEPT ![i] = IF @ = "loop" THEN "drain" ELSE "exited"]
  /\ UNCHANGED <<poolVars, up, started, joined, queue, sub, ctl, calls, dropped, history>>

-----------------------------------------------------------------------------
(* The pool is gone, or its owner waits in Join for a Stop nobody calls.    *)
Finished == (freed \/ (At("owner", "join") /\ isRunning)) /\ UNCHANGED vars

SubmitStep(s) == Check(s) \/ Pick(s) \/ SubmitCheck(s) \/ SubmitInsert(s)
OwnerStep ==
  \/ StartWorker \/ PoolStarted \/ StartFails \/ RollBack
  \/ StopWorker("owner") \/ JoinWorker \/ DestroyWorker \/ ReapWorker
WorkerStep(i) == RunJob(i) \/ Leave(i)

Next ==
  \/ \E s \in Submitters :
       SubmitStep(s) \/ \E i \in Workers \cup {Robin, OutOfRange} : Submit(s, i)
  \/ PoolStart \/ PoolJoin \/ PoolDestroy \/ OwnerStep
  \/ StopWorker("stopper") \/ \E c \in Controls : PoolStop(c)
  \/ \E i \in Workers : WorkerStep(i)
  \/ Finished

(* Threads run and jobs return; nothing makes anybody call.                 *)
Spec ==
  /\ Init /\ [][Next]_vars
  /\ WF_vars(OwnerStep) /\ WF_vars(StopWorker("stopper"))
  /\ \A s \in Submitters : WF_vars(SubmitStep(s))
  /\ \A i \in Workers : WF_vars(WorkerStep(i))

-----------------------------------------------------------------------------
OwnerPCs == {"idle", "start", "started", "roll_back", "stop", "join",
             "d_stop", "d_join", "d_reap", "d_wait"}
SubPCs == {"idle", "check", "pick", "submit", "insert"}

Places == [pc : OwnerPCs, at : Workers, end : 1..Size]
Submissions == [pc : SubPCs, to : Workers \cup {Robin, OutOfRange}]

(* Type invariant.                                                          *)
TypeOK ==
  /\ isRunning \in BOOLEAN /\ freed \in BOOLEAN /\ next \in 0..(Wrap - 1)
  /\ up \subseteq Workers /\ started \subseteq Workers /\ joined \subseteq started
  /\ thread \in [Workers -> {"none", "loop", "drain", "exited"}]
  /\ queue \in [Workers -> Seq({"early", "late"})]
  /\ sub \in [Submitters -> Submissions] /\ ctl \in [Controls -> Places]
  /\ picked \in [Workers -> Nat] /\ wraps \in Nat /\ crossed \in BOOLEAN

(* PoolStart "returns 0 on success, -1 if any worker failed to start        *)
(* (already-started ones are stopped)", PoolStop signals "all workers":     *)
(* between control calls no worker runs while the pool's flag is down, and  *)
(* all run while it is up, whatever failed and whoever stopped it.  Only a  *)
(* Stop that meets a Start can leave the flag up over stopped workers.      *)
FlagsAgree ==
  /\ TypeOK
  /\ ~freed /\ (\A c \in Controls : ~Busy(c)) =>
       IF isRunning THEN crossed \/ up = Workers ELSE up = {}

(* "Pools spread work round-robin": two workers never differ by more than   *)
(* one pick, plus one for every time the 32-bit counter wrapped in between  *)
(* two multiples of the pool's size.                                        *)
Balanced == \A i, k \in Workers : picked[i] - picked[k] <= 1 + wraps

(* "Stop (if running), join and release the pool and all its workers": the  *)
(* pool is freed after every thread exited and every queue was emptied,     *)
(* also when Start failed half-way or Stop was never followed by Join, and  *)
(* a job queued before its worker left its loop is not freed unrun.         *)
PoolFreedLast ==
  /\ ~dropped
  /\ freed => /\ \A i \in Workers : thread[i] \in {"none", "exited"} /\ queue[i] = <<>>
              /\ \A s \in Submitters : sub[s].pc = "idle"

(* The inductive invariant.  Who calls what: one loop at a time, except that *)
(* the second thread's Stop may meet any of the owner's calls but Destroy;  *)
(* nobody submits to a pool being destroyed.                                *)
CallInv ==
  /\ \A c \in Controls : ctl[c].at < ctl[c].end
  /\ \A c \in Controls : At(c, "roll_back") \/ ctl[c].end = Size
  /\ ctl["stopper"].pc \in {"idle", "stop"}
  /\ Busy("stopper") => ~Destroying /\ (Starting => crossed)
  /\ freed => \A c \in Controls : ~Busy(c)
  /\ \A s \in Submitters : sub[s].pc \in {"submit", "insert"} => sub[s].to \in Workers
  /\ Destroying => \A s \in Submitters : sub[s].pc = "idle"

(* What a worker's flags say of its thread, and its thread of its queue.    *)
WorkerInv ==
  \A i \in Workers :
    /\ thread[i] = "none" <=> i \notin started
    /\ i \in up => thread[i] = "loop"
    /\ i \in joined => thread[i] = "exited"
    /\ thread[i] \in {"none", "exited"} => "early" \notin Range(queue[i])

(* Some Stop under way still has the workers that run before it.            *)
Swept ==
  up = {} \/ \E c \in Controls : At(c, "stop") /\ up \subseteq ctl[c].at..(Size - 1)

(* How far the loop under way has got: the workers started, what runs while *)
(* the pool's flag is up, and who is still to be told while it is down.     *)
StartedInv ==
  /\ 0 \notin started => started = {}
  /\ At("owner", "start") => 0..(ctl["owner"].at - 1) \subseteq started
  /\ At("owner", "started") => started = Workers /\ (crossed \/ up = Workers)

RunningInv ==
  isRunning =>
    /\ started = Workers /\ ctl["owner"].pc \in {"idle", "start", "join"}
    /\ At("owner", "start") => ctl["owner"].at = 0
    /\ crossed \/ (up = Workers /\ ~Busy("stopper"))

StoppingInv ==
  ~isRunning =>
    /\ At("owner", "start") /\ ctl["owner"].at # 0 =>
         /\ up \subseteq 0..(ctl["owner"].at - 1)
         /\ crossed \/ up = 0..(ctl["owner"].at - 1)
    /\ At("owner", "roll_back") => up \subseteq ctl["owner"].at..(ctl["owner"].end - 1)
    /\ At("owner", "d_stop") => up \subseteq ctl["owner"].at..(Size - 1)
    /\ \/ ctl["owner"].pc \in {"started", "roll_back", "d_stop"}
       \/ At("owner", "start") /\ ctl["owner"].at # 0
       \/ Swept

FlagInv == StartedInv /\ RunningInv /\ StoppingInv

(* The workers Destroy has passed are gone for good.                        *)
Gone(i) == thread[i] \in {"none", "exited"} /\ queue[i] = <<>>
ReapInv ==
  /\ ~dropped
  /\ freed => \A i \in Workers : Gone(i)
  /\ ctl["owner"].pc \in {"d_reap", "d_wait"} =>
       \A i \in Workers : i < ctl["owner"].at => Gone(i)

(* The workers before the counter's place in the turn are one pick ahead.   *)
Ahead(i) == IF i < next % Size THEN 1 ELSE 0
TurnInv ==
  \A i, k \in Workers : picked[i] - picked[k] <= wraps + Ahead(i) - Ahead(k)

IInv == TypeOK /\ CallInv /\ WorkerInv /\ FlagInv /\ ReapInv /\ TurnInv

(* Such a job leaves the queue, so it is run, whoever stops, joins or       *)
(* destroys the pool meanwhile.                                             *)
AcceptedRuns ==
  \A i \in Workers : "early" \in Range(queue[i]) ~> "early" \notin Range(queue[i])

(* Destroy returns: it never waits for a worker nobody told to stop.        *)
DestroyEnds == Destroying ~> freed
=============================================================================
