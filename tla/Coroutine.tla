----------------------------- MODULE Coroutine ------------------------------
(***************************************************************************)
(* ufsrv_coroutine.c: coroutines created, resumed and ended on the thread  *)
(* that created them, spawned on a scheduler and woken through its queue.  *)
(*                                                                         *)
(* A worker is named as its scheduler, whose queue is FIFO and drained     *)
(* before the worker exits (modules Scheduler and FifoExecutor).  A job is *)
(* checked against is_running first and inserted in a later step, perhaps  *)
(* after the worker is gone: it is then never run, though its submitter    *)
(* was told that it would be.  aco_resume runs a coroutine until it yields *)
(* or ends.                                                                *)
(* A spawned coroutine that waits hands itself to whoever will wake it,    *)
(* perhaps before it has yielded (a waiter of UfsrvFutureGet); one that is *)
(* driven by hand is resumed by its thread.  The callers keep the header's *)
(* rules: a coroutine is resumed on its own thread, and ThreadCleanup is   *)
(* called when none of the thread's is suspended.                          *)
(***************************************************************************)
EXTENDS Integers, Sequences, Functions

CONSTANTS
  Workers, Plain,  \* scheduler workers; other threads
  Coroutines, Null

Threads == Workers \cup Plain

ASSUME CoroutineAssumption ==
  Null \notin Threads \cup Coroutines /\ Workers \cap Plain = {}

VARIABLES
  phase,       \* what became of each coroutine
  home,        \* the thread whose main co and shared stack it was created with
  startRecord, \* its UfsrvCoroutineStart: "none", "live", "freed"
  destroys,    \* history: times aco_destroy ran on it
  waiting,     \* coroutine -> the scheduler its waiter names
  accepted,    \* coroutine -> the scheduler that takes its job, which is not inserted yet
  initialized, unstarted, scheduler, \* t_initialized, t_unstarted_head, t_current_scheduler
  at,          \* thread -> what it does next: with which coroutine, restoring which scheduler
  jobs, stopped, \* worker -> its queue; the stopped schedulers
  exited,      \* the threads that are gone
  aborted      \* a wake-up was refused

coVars == <<phase, home, startRecord, destroys>>
threadVars == <<initialized, unstarted, scheduler>>
vars == <<coVars, threadVars, waiting, accepted, at, jobs, stopped, exited, aborted>>

Main == [pc |-> "main", co |-> Null, prev |-> Null]

Init ==
  /\ phase = [c \in Coroutines |-> "none"] /\ home = [c \in Coroutines |-> Null]
  /\ startRecord = [c \in Coroutines |-> "none"] /\ destroys = [c \in Coroutines |-> 0]
  /\ waiting = [c \in Coroutines |-> Null] /\ accepted = [c \in Coroutines |-> Null]
  /\ initialized = {} /\ unstarted = [t \in Threads |-> <<>>]
  /\ scheduler = [t \in Threads |-> Null]
  /\ at = [t \in Threads |-> Main]
  /\ jobs = [w \in Workers |-> <<>>] /\ stopped = {} /\ exited = {} /\ aborted = FALSE

At(t, l) == at[t].pc = l /\ t \notin exited
Goto(t, l) == at' = [at EXCEPT ![t].pc = l]
Phase(c, ph) == phase' = [phase EXCEPT ![c] = ph]
Begin(t, c) == at' = [at EXCEPT ![t] = [pc |-> "resume", co |-> c, prev |-> scheduler[t]]]

-----------------------------------------------------------------------------
(* UfsrvCoroutineCreate: the thread's state is there, the coroutine linked. *)
Created(t, c) ==
  /\ initialized' = initialized \cup {t}
  /\ Phase(c, "unstarted")
  /\ home' = [home EXCEPT ![c] = t]
  /\ startRecord' = [startRecord EXCEPT ![c] = "live"]
  /\ unstarted' = [unstarted EXCEPT ![t] = <<c>> \o @]
  /\ UNCHANGED destroys

(* No memory for it: what the thread needed was still set up.               *)
CreateFailed(t) ==
  /\ initialized' = initialized \cup {t}
  /\ UNCHANGED <<coVars, unstarted>>

Create(t, c) ==
  /\ At(t, "main") /\ phase[c] = "none"
  /\ Created(t, c) \/ CreateFailed(t)
  /\ UNCHANGED <<scheduler, waiting, accepted, at, jobs, stopped, exited, aborted>>

(* UfsrvCoroutineResume, called by hand.                                    *)
Resume(t, c) ==
  /\ At(t, "main") /\ home[c] = t
  /\ phase[c] \in {"unstarted", "suspended"} /\ waiting[c] = Null
  /\ accepted[c] = Null /\ \A w \in Workers : c \notin Range(jobs[w])
  /\ initialized' = initialized \cup {t}
  /\ Begin(t, c)
  /\ UNCHANGED <<coVars, unstarted, scheduler, waiting, accepted, jobs, stopped, exited, aborted>>

(* UfsrvCoroutineSpawn on a scheduler that takes the job; when it is        *)
(* stopped, or memory is out, nothing happens.                              *)
Spawn(w, c) ==
  /\ w \notin stopped /\ phase[c] = "none"
  /\ accepted' = [accepted EXCEPT ![c] = w]
  /\ Phase(c, "spawned")
  /\ UNCHANGED <<home, startRecord, destroys, threadVars, waiting, at, jobs, stopped, exited,
                 aborted>>

(* sSpawnJob: the worker creates the coroutine and resumes it, or the       *)
(* creation fails and the job is over.                                      *)
SpawnJob(w) ==
  LET c == Head(jobs[w]) IN
  /\ At(w, "main") /\ jobs[w] # <<>> /\ phase[c] = "spawned"
  /\ jobs' = [jobs EXCEPT ![w] = Tail(@)]
  /\ \/ /\ Created(w, c)
        /\ scheduler' = [scheduler EXCEPT ![w] = w]
        /\ Begin(w, c)
     \/ /\ Phase(c, "failed")
        /\ initialized' = initialized \cup {w}
        /\ UNCHANGED <<home, startRecord, destroys, unstarted, scheduler, at>>
  /\ UNCHANGED <<waiting, accepted, stopped, exited, aborted>>

(* Mutant: the job goes back to the end of the queue.                       *)
ResumeJobPutsBack(w) ==
  /\ At(w, "main") /\ jobs[w] # <<>> /\ phase[Head(jobs[w])] # "spawned"
  /\ jobs' = [jobs EXCEPT ![w] = Append(Tail(@), Head(@))]
  /\ UNCHANGED <<coVars, threadVars, waiting, accepted, at, stopped, exited, aborted>>

(* sResumeJob.                                                              *)
ResumeJob(w) ==
  LET c == Head(jobs[w]) IN
  /\ At(w, "main") /\ jobs[w] # <<>> /\ phase[c] # "spawned"
  /\ jobs' = [jobs EXCEPT ![w] = Tail(@)]
  /\ initialized' = initialized \cup {w}
  /\ scheduler' = [scheduler EXCEPT ![w] = w]
  /\ Begin(w, c)
  /\ UNCHANGED <<coVars, unstarted, waiting, accepted, stopped, exited, aborted>>

(* sUnstartedUnlink.                                                        *)
Unlink(s, c) ==
  LET k == CHOOSE i \in DOMAIN s : s[i] = c
  IN  SubSeq(s, 1, k - 1) \o SubSeq(s, k + 1, Len(s))

(* aco_resume: a first resumption goes through the trampoline, which        *)
(* unlinks and frees the start record ...                                   *)
Switch(t) ==
  LET c == at[t].co IN
  /\ At(t, "resume")
  /\ IF phase[c] = "unstarted"
       THEN /\ unstarted' = [unstarted EXCEPT ![t] = Unlink(@, c)]
            /\ startRecord' = [startRecord EXCEPT ![c] = "freed"]
       ELSE UNCHANGED <<unstarted, startRecord>>
  /\ Phase(c, "running")
  /\ Goto(t, "running")
  /\ UNCHANGED <<home, destroys, initialized, scheduler, waiting, accepted, jobs, stopped, exited,
                 aborted>>

(* ... and the coroutine runs: in a job it may leave a waiter that names    *)
(* the current scheduler ...                                                *)
Await(t) ==
  /\ At(t, "running") /\ scheduler[t] # Null
  /\ waiting' = [waiting EXCEPT ![at[t].co] = scheduler[t]]
  /\ Goto(t, "yield")
  /\ UNCHANGED <<coVars, threadVars, accepted, jobs, stopped, exited, aborted>>

(* ... it yields ...                                                        *)
Yield(t) ==
  /\ At(t, "yield") \/ (At(t, "running") /\ scheduler[t] = Null)
  /\ Phase(at[t].co, "suspended")
  /\ Goto(t, "after")
  /\ UNCHANGED <<home, startRecord, destroys, threadVars, waiting, accepted, jobs, stopped, exited,
                 aborted>>

(* ... or returns or exits, for good.                                       *)
Exit(t) ==
  /\ At(t, "running")
  /\ Phase(at[t].co, "ended")
  /\ Goto(t, "after")
  /\ UNCHANGED <<home, startRecord, destroys, threadVars, waiting, accepted, jobs, stopped, exited,
                 aborted>>

(* Mutants: the job leaves its scheduler behind; whatever came back from    *)
(* aco_resume is destroyed.                                                 *)
SchedulerLeft(t) == scheduler

DestroyAlways(c) == TRUE

(* Restoring what the job found ...                                         *)
SchedulerRestored(t) == [scheduler EXCEPT ![t] = at[t].prev]

(* ... and destroying the coroutine that ended.                             *)
Ended(c) == phase[c] = "ended"

AfterResume(t) ==
  LET c == at[t].co IN
  /\ At(t, "after")
  /\ IF Ended(c)
       THEN Phase(c, "destroyed") /\ destroys' = [destroys EXCEPT ![c] = @ + 1]
       ELSE UNCHANGED <<phase, destroys>>
  /\ scheduler' = SchedulerRestored(t)
  /\ at' = [at EXCEPT ![t] = Main]
  /\ UNCHANGED <<home, startRecord, initialized, unstarted, waiting, accepted, jobs, stopped,
                 exited, aborted>>

(* The queue a wake-up goes to: the waiter's scheduler.                     *)
WakeQueue(c) == {waiting[c]}

(* UfsrvCoroutineSubmitResume by the one who has the waiter, up to the check *)
(* of is_running; whoever wakes aborts when it is refused, by a stopped      *)
(* scheduler or for want of memory ...                                       *)
SubmitResume(c) ==
  /\ waiting[c] # Null
  /\ waiting' = [waiting EXCEPT ![c] = Null]
  /\ \/ /\ \E w \in WakeQueue(c) \ stopped : accepted' = [accepted EXCEPT ![c] = w]
        /\ UNCHANGED aborted
     \/ aborted' = TRUE /\ UNCHANGED accepted
  /\ UNCHANGED <<coVars, threadVars, at, jobs, stopped, exited>>

(* Mutant: the job goes to any worker's queue.                               *)
InsertAnywhere(c) ==
  /\ accepted[c] # Null
  /\ \E w \in Workers : jobs' = [jobs EXCEPT ![w] = Append(@, c)]
  /\ accepted' = [accepted EXCEPT ![c] = Null]
  /\ UNCHANGED <<coVars, threadVars, waiting, at, stopped, exited, aborted>>

(* ... and the insertion of a job, spawned or woken, that passed the check.  *)
Insert(c) ==
  /\ accepted[c] # Null
  /\ jobs' = [jobs EXCEPT ![accepted[c]] = Append(@, c)]
  /\ accepted' = [accepted EXCEPT ![c] = Null]
  /\ UNCHANGED <<coVars, threadVars, waiting, at, stopped, exited, aborted>>

-----------------------------------------------------------------------------
(* sReclaimUnstarted destroys every coroutine that was never resumed.       *)
Reclaimed(t) == Range(unstarted[t])

(* sFreeThreadState.                                                        *)
FreeThreadState(t) ==
  /\ phase' = [c \in Coroutines |-> IF c \in Reclaimed(t) THEN "destroyed" ELSE phase[c]]
  /\ destroys' = [c \in Coroutines |-> destroys[c] + IF c \in Reclaimed(t) THEN 1 ELSE 0]
  /\ startRecord' = [c \in Coroutines |-> IF c \in Reclaimed(t) THEN "freed" ELSE startRecord[c]]
  /\ unstarted' = [unstarted EXCEPT ![t] = <<>>]
  /\ initialized' = initialized \ {t}
  /\ UNCHANGED <<home, scheduler>>

(* UfsrvCoroutineThreadCleanup.                                             *)
ThreadCleanup(t) ==
  /\ At(t, "main") /\ t \in initialized
  /\ \A c \in Coroutines : home[c] = t => phase[c] # "suspended"
  /\ FreeThreadState(t)
  /\ UNCHANGED <<waiting, accepted, at, jobs, stopped, exited, aborted>>

(* The thread exits, a worker after its scheduler was stopped and its queue *)
(* drained; the destructor of its TLS key runs if it was ever initialised.  *)
ThreadExit(t) ==
  /\ At(t, "main")
  /\ t \in Workers => t \in stopped /\ jobs[t] = <<>>
  /\ exited' = exited \cup {t}
  /\ FreeThreadState(t)
  /\ UNCHANGED <<waiting, accepted, at, jobs, stopped, aborted>>

Stop(w) ==
  /\ w \notin stopped
  /\ stopped' = stopped \cup {w}
  /\ UNCHANGED <<coVars, threadVars, waiting, accepted, at, jobs, exited, aborted>>

-----------------------------------------------------------------------------
Step(t) == Switch(t) \/ Await(t) \/ Yield(t) \/ Exit(t) \/ AfterResume(t)

TakeJob(w) == SpawnJob(w) \/ ResumeJob(w)

Finished == (aborted \/ exited = Threads) /\ UNCHANGED vars

Next ==
  \/ /\ ~aborted
     /\ \/ \E t \in Threads : Step(t) \/ ThreadCleanup(t) \/ ThreadExit(t)
        \/ \E t \in Threads, c \in Coroutines : Create(t, c) \/ Resume(t, c)
        \/ \E w \in Workers, c \in Coroutines : Spawn(w, c)
        \/ \E c \in Coroutines : SubmitResume(c) \/ Insert(c)
        \/ \E w \in Workers : TakeJob(w) \/ Stop(w)
  \/ Finished

Spec == Init /\ [][Next]_vars

(* A coroutine that runs goes on to yield or to end, and a worker gets back *)
(* to its queue: what is driven by hand there is driven by an earlier job,  *)
(* which ends.                                                              *)
FairSpec ==
  /\ Spec
  /\ \A t \in Threads : WF_vars(~aborted /\ Step(t))
  /\ \A w \in Workers : SF_vars(~aborted /\ TakeJob(w))

-----------------------------------------------------------------------------
PCs == {"main", "resume", "running", "yield", "after"}
Places == [pc : PCs, co : Coroutines \cup {Null}, prev : Workers \cup {Null}]

(* Type invariant.                                                          *)
TypeOK ==
  /\ phase \in [Coroutines -> {"none", "spawned", "failed", "unstarted", "running", "suspended",
                             "ended", "destroyed"}]
  /\ home \in [Coroutines -> Threads \cup {Null}]
  /\ startRecord \in [Coroutines -> {"none", "live", "freed"}]
  /\ destroys \in [Coroutines -> Nat]
  /\ waiting \in [Coroutines -> Workers \cup {Null}]
  /\ accepted \in [Coroutines -> Workers \cup {Null}]
  /\ initialized \subseteq Threads /\ scheduler \in [Threads -> Workers \cup {Null}]
  /\ at \in [Threads -> Places]
  /\ unstarted \in [Threads -> Seq(Coroutines)] /\ jobs \in [Workers -> Seq(Coroutines)]
  /\ stopped \subseteq Workers /\ exited \subseteq Threads /\ aborted \in BOOLEAN

(* "Must be resumed on the thread that created it": aco_resume is called    *)
(* for a coroutine of this thread that is unstarted or suspended, also when *)
(* its wake-up was queued before it had yielded.                            *)
ResumedAtHome ==
  \A t \in Threads : At(t, "resume") =>
    /\ phase[at[t].co] \in {"unstarted", "suspended"}
    /\ home[at[t].co] = t /\ t \in initialized

(* CurrentScheduler, which decides how a get waits, is NULL outside a job   *)
(* and nothing but its own worker's inside one, and a coroutine that waits, *)
(* or whose wake-up is being submitted, is with the scheduler of its own    *)
(* thread.                                                                  *)
SchedulerIsCurrent ==
  /\ \A t \in Threads : scheduler[t] \in {Null, t}
  /\ \A t \in Threads : At(t, "main") \/ t \in Plain => scheduler[t] = Null
  /\ \A c \in Coroutines :
       /\ waiting[c] # Null => waiting[c] = home[c]
       /\ accepted[c] # Null => phase[c] = "spawned" \/ accepted[c] = home[c]

(* "Reclaims any coroutine created on this thread but never resumed": no    *)
(* coroutine is destroyed twice or while it can still run, and none that    *)
(* never ran survives its thread.                                           *)
DestroyedOnce ==
  \A c \in Coroutines :
    /\ destroys[c] = IF phase[c] = "destroyed" THEN 1 ELSE 0
    /\ phase[c] = "destroyed" => /\ waiting[c] = Null /\ accepted[c] = Null
                                 /\ \A w \in Workers : c \notin Range(jobs[w])
    /\ home[c] \in exited => phase[c] \in {"suspended", "destroyed"}

(* "Final drain: run anything submitted before ...": a job that is in the   *)
(* queue before its worker is gone is run, that is its coroutine is         *)
(* resumed, unless its creation fails or a refused wake-up aborts; what is  *)
(* inserted later stays there.                                              *)
QueuedRuns ==
  \A c \in Coroutines, w \in Workers :
    c \in Range(jobs[w]) /\ w \notin exited ~>
      \/ At(w, "resume") /\ at[w].co = c
      \/ phase[c] = "failed" \/ aborted

-----------------------------------------------------------------------------
(* The inductive invariant behind the safety properties.                    *)

Queued(c) == \E w \in Workers : c \in Range(jobs[w])

(* A coroutine is in one queue at most, once: the one it was spawned on, or *)
(* its own worker's, and then nobody else has its waiter.                   *)
QueueInv ==
  /\ \A w \in Workers : IsInjective(jobs[w])
  /\ \A v, w \in Workers, c \in Coroutines :
       c \in Range(jobs[v]) /\ c \in Range(jobs[w]) => v = w
  /\ \A w \in Workers, c \in Coroutines : c \in Range(jobs[w]) =>
       /\ waiting[c] = Null
       /\ phase[c] = "spawned" \/ (phase[c] \in {"running", "suspended"} /\ home[c] = w)

(* Nobody else has the coroutine whose job is being submitted.              *)
AcceptedOK(c) ==
  accepted[c] # Null =>
    /\ waiting[c] = Null /\ ~Queued(c)
    /\ phase[c] = "spawned" \/ (phase[c] \in {"running", "suspended"} /\ home[c] = accepted[c])
    /\ \A t \in Threads : at[t].pc \in {"resume", "running"} => at[t].co # c

AcceptInv == \A c \in Coroutines : AcceptedOK(c)

(* What a thread is at says what its coroutine is.                          *)
ThreadOK(t) ==
  /\ at[t].prev = Null
  /\ scheduler[t] = Null \/ (scheduler[t] = t /\ t \in Workers /\ at[t].pc # "main")
  /\ at[t].pc # "main" =>
       /\ at[t].co \in Coroutines /\ home[at[t].co] = t
       /\ t \in initialized /\ t \notin exited
  /\ at[t].pc \in {"resume", "running"} => waiting[at[t].co] = Null /\ ~Queued(at[t].co)
  /\ at[t].pc = "resume" => phase[at[t].co] \in {"unstarted", "suspended"}
  /\ at[t].pc \in {"running", "yield"} => phase[at[t].co] = "running"
  /\ at[t].pc = "after" => phase[at[t].co] \in {"suspended", "ended"}

ThreadInv == \A t \in Threads : ThreadOK(t)

(* What became of a coroutine says where it is.                             *)
CoOK(c) ==
  /\ home[c] = Null <=> phase[c] \in {"none", "spawned", "failed"}
  /\ waiting[c] # Null => waiting[c] = home[c] /\ phase[c] \in {"running", "suspended"}
  /\ phase[c] = "running" => at[home[c]].co = c /\ at[home[c]].pc \in {"running", "yield"}
  /\ phase[c] = "ended" => at[home[c]].co = c /\ at[home[c]].pc = "after"
  /\ destroys[c] = IF phase[c] = "destroyed" THEN 1 ELSE 0

CoInv == \A c \in Coroutines : CoOK(c)

(* The lists of coroutines that were not resumed yet.                       *)
ListInv ==
  /\ \A t \in Threads : IsInjective(unstarted[t])
  /\ \A t \in Threads, c \in Coroutines :
       c \in Range(unstarted[t]) <=> home[c] = t /\ phase[c] = "unstarted"
  /\ \A c \in Coroutines :
       /\ startRecord[c] = "live" <=> phase[c] = "unstarted"
       /\ phase[c] = "unstarted" => home[c] \notin exited

IInv == TypeOK /\ QueueInv /\ AcceptInv /\ ThreadInv /\ CoInv /\ ListInv
=============================================================================
