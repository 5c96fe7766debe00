# ufsrvrxlib in TLA+

Specifications, model-checking runs and machine-checked proofs for ufsrvrxlib,
the C library of futures, promises, cancellation tokens, single-worker
schedulers and coroutines in this repository. Source paths below are relative to
the repository root; `PROJECT.json` maps every definition to the lines it
translates.

## The system

| Part | State | Operations | Talks to |
|---|---|---|---|
| Cancellation token (`src/ufsrv_cancellation/`) | `is_cancelled`, a mutex, an intrusive list of callback nodes, an atomic refcount; per node two references (handle, list), `active`, `claimed`, a context and a release hook | Create, Register, RegisterEx, Unregister, Cancel, IsCancelled, RetainInternal, Destroy | user callbacks; futures (attached tokens, cancellable waits) |
| Future and promise (`src/ufsrv_future/`) | `is_fulfilled`, `is_completed`, `is_consumed`, `state`, `result`, two closable Treiber stacks, an atomic refcount, `cancel_token`, `cancel_handle` | PromiseCreate, SetValue/SetError/SetResult, PromiseDestroy, Then, Get, GetWithCancellation, IsReady, AttachCancellation, Retain, Release | token, scheduler and coroutine (resuming a waiter) |
| Operators and combinators (same file) | heap contexts holding an output promise, counters, input futures | Map, FlatMap, OnError, DoOnSuccess, All, Any, Zip | futures only |
| Scheduler (`src/ufsrv_scheduler/`) | `is_started`, `is_running`, `is_joined`, an MPSC job queue, an eventfd, one worker thread | Create, Start, Submit, Stop, Join, Destroy | user jobs; coroutine resumes |
| Scheduler pool (same file) | an array of schedulers, an atomic round-robin counter | PoolCreate/Start/Submit/Stop/Join/Destroy | schedulers |
| Coroutines (`src/ufsrv_coroutine/`) | per-thread main coroutine and stack, list of unstarted coroutines | Create, Resume, Yield, Spawn, SubmitResume, ThreadCleanup | libaco, scheduler |
| Introspection, version | none of their own | Describe, List | |

The Treiber stack and the queue come from uflib, the context switch from libaco.
Neither is in the repository; they are modelled from how this code uses them.

What makes the code hard: completion is a race of the promise, its abandonment
and a cancellation; registrations (Then, Get, RegisterEx) race the one drain that
will serve them; nodes, tokens and futures are kept alive by reference counts
dropped from different threads in every order; a value has one destructor and
five paths on which it can be released; the worker decides to sleep while others
submit or stop it; a coroutine can be woken before it has gone to sleep.
`PROJECT.json` lists these hazards with their lines and
the properties that would catch each going wrong, or says that the code does go
wrong there and which property leaves the case out.

## Modules

| Module | Models |
|---|---|
| `Cancellation` | the token, its nodes and the threads inside it |
| `CancellationRegistry` | what a token promises: a one-shot registry of callbacks |
| `Future` | one promise and its future, every call a process |
| `OneShotCell` | what a future promises: a write-once cell that serves every registered reader |
| `Attach` | a token attached to a future: composes `Cancellation` with the future's completion and release |
| `CancellableGet` | `UfsrvFutureGetWithCancellation`: composes `Cancellation` with the future's stack of waiters |
| `Operators` | map, flatMap, onError and doOnSuccess on one input, with inner futures and an inherited token |
| `Combinators` | all, any and zip over an array of inputs |
| `Scheduler` | one scheduler, its worker, submitters and controllers |
| `FifoExecutor` | what a scheduler promises: a FIFO queue served by one worker |
| `Pool` | the scheduler pool over workers reduced to what `Scheduler` shows of one |
| `Coroutine` | coroutines, their threads, and the jobs that spawn and resume them |
| `MCCancellation`, `MCFuture`, `MCScheduler`, `MCAttach`, `MCOperators` | the refinement mappings, and the symmetry sets of `Attach` and `Operators` |
| `Chains` | lemmas on sequences without repetition (linking, appending, taking the first, unlinking) and on counting by bijections |
| `CancellationProofs`, `SchedulerProofs`, `CoroutineProofs`, `PoolProofs`, `FutureProofs`, `CombinatorsProofs`, `CancellableGetProofs` | the theorems about the component in the name, with their proofs |

Each component module holds, after its specification, its properties, each with
a comment on the behaviour it is about, and, where it has theorems, the inductive
invariant `IInv` they rest on. Operators commented *Mutant* are the
component's definitions with one plausible mistake. They occur in no
specification and serve to show that the properties notice the mistake.

The detailed modules justify the coarser ones. `Future` shows that a future
completes once and serves each registered continuation once; `Operators` and
`Combinators` start from there. `Attach` follows every step of an attachment,
which is one step of `Operators`. `Scheduler` shows that a worker runs its jobs in
order and drains its queue before it exits; `Pool` and `Coroutine` build on that.

### Cancellation

One step is one section under the token lock, one atomic decrement, or the entry
or return of user code, which the library always runs unlocked. `list` is the
chain behind `token->head`; `walk[t]` is the chain thread `t` detached in Cancel
and still has to visit. A node goes unused, live, freed, and is never reused, so
a dangling access is visible as an access to a freed node. `callerRefs` are the
token references owned outside the nodes (the creator's, a future's, an operator
context's). A call from inside a callback is the call of another thread during
that callback.

| Action | Code |
|---|---|
| `RegisterAlloc`, `RegisterLink`, `RegisterLate`, `InlineEnter`, `InlineReturn` | RegisterEx: allocation, the lock section's two outcomes, the inline callback |
| `Unregister` | its lock section; the freeing that follows is `NodeFree`, `TokenRelease` |
| `Cancel`, `CallbackEnter`, `CallbackReturn` | the first Cancel's lock section and its unlocked loop with `sNodeDropRef` |
| `NodeFree`, `TokenRelease`, `TokenReclaim` | `sNodeFree` and `sTokenRelease` |
| `RetainInternal`, `Destroy` | the reference operations |

### Future

Every call is a process with a program counter: a SetValue or SetError for each
member of `Values`, the owner's PromiseDestroy, the cancel callback of an
attached token, a Then for each continuation, a Get for each getter. One step is
one atomic operation, or one access to `result`, which is plain memory. A step
order is therefore an interleaving of the code's memory operations under
sequential consistency. `holders` names whose references `refs` counts.

Continuations come in three kinds: plain ones read the result; `Movers` are
doOnSuccess's and take any result; `OkMovers` are onError's and take a success.
Taking is `ConsumeOnce`, then `Move` (the value is handed to the output promise),
then `ZeroResult`. A getter is a blocked thread or a coroutine. Both are woken by
`WakeWaiter`. A coroutine's resume is refused by a stopped scheduler, or for want
of memory, and then the code aborts the process. An accepted one is inserted in a
step of its own (`InsertResume`). Between the two the scheduler may be stopped and
its worker may leave (`StopScheduler`, `SchedulerExit`): the resume is then in a
queue nobody serves, nothing aborts, and the coroutine waits for good. `OneShotCell`
has a step for this reader (`Strand`), possible only once the worker is gone.

The contract assumed of callers: the promise is destroyed once, after its Set
calls returned; a caller of Then or Get holds a reference for the duration.

### Attach

`C == INSTANCE Cancellation` supplies the token; its actions are called from the
future's, so every interleaving of the token's sections with the future's atomic
operations is there. A process has two token threads: `<<p, 1>>` for the token
call it made, `<<p, 2>>` for the one made from inside a callback or release hook
that the token itself is running. Future code waits for its token call
(`Returned`), token code for the callback or hook. Actions follow
`UfsrvFutureAttachCancellation` line by line (`AttachCheck`, `AttachCas`,
`RetainToken`, `RetainFuture`, `Register` or `RegisterFails` and `RollBack`,
`StoreHandle`, `Recheck`), then `sFutureComplete`'s part in it (`Claim`,
`TakeHandle`, `Unregister`) and the end of `UfsrvFutureRelease` (`FreeFuture`).
Result, stacks and drains are left to `Future`.

The store of `cancel_handle` has release order and the load of `is_completed`
after it acquire order, which lets a processor delay the store past the load.
With `StoreBuffers` the store takes effect in a step of its own, `StoreDrains`;
an exchange by the same thread waits for it, as a locked instruction does.

### CancellableGet

The token is `C == INSTANCE Cancellation`, as in `Attach`; getter `g` registers
node `g`. A waiter has three references: the pusher's, the stack's and the
callback node's. The completer's drain and the token's callback compete for it
(`Claim`), the winner wakes the getter, and each drops its reference (`Unref`). A
registration can fail after the waiter was pushed, and the getter rolls back. A wake-up
lasts until the getter gets to wait, as the eventfd's counter and the queued
resumption do.

### Operators

Two calls of any kind share one input, and their callbacks may return the same
inner future. A process is a caller or the thread that completed a future; it runs
the continuations stacked there, one action per kind, following
`sMapContinuation`, `sFlatMapContinuation`, `sOnErrorContinuation` and
`sDoOnSuccessContinuation`. Values are named after their origin, so a value that
is in two places, or in none and not freed, can be told. `token` and `list` follow
the token through `Inherit` and `AttachInner`, and `Cancel` with its callbacks
completes what is registered. Registration is refused where a node cannot be
allocated. An attachment is refused where it cannot register or the future has
another token (`AttachRefused`); no operator looks at the answer, and `refused`
remembers it. An input's error is tested when the continuation runs and read again
by `Settle`, as in the code.

### Combinators

Any of the three calls over an array of entries, where an entry may be NULL or
repeat an earlier one. The caller registers entry by entry while inputs complete
and run their continuations against the shared context: `remaining`, the
`failed` or `claimed` flag, zip's two copied results. A step is one atomic
operation on the context, or one read of an input's result: all tests the error, wins
the flag, and reads the error again (`Given`), while operators elsewhere may take the
result. Refused registrations take the code's own repairs
(`RefusedAll`, `RefusedAny`, `RefusedZip`).

### Scheduler

The worker's program counter follows `sWorkerMain`: loop check, pop, job, eventfd
read, final drain. `queue` is the MPSC queue, `eventFd` the eventfd's counter.
Submitters do `SubmitCheck` (allocation and `is_running` test), `SubmitInsert`,
`SubmitWrite`; controllers Start (with a failing `pthread_create`), Stop, Join
and Destroy. `fate` records for each job whether it was refused, queued, run or
dropped by Destroy. Assumed of callers: Start does not overlap another control
call, and Destroy is called once, when no other call is in progress on the
scheduler.

### Pool

The pool's calls are loops over its workers, one step for each call made on a
worker; Submit's check and insertion are two. A Start that fails part of the way
stops the workers it had started (`RollBack`); one that succeeds raises the pool's
flag in a last step (`PoolStarted`). The round-robin counter has
`Wrap` values, standing for 2^32. Assumed of callers: one thread starts, joins and
destroys; another may stop at any time but during Destroy, in the middle of Start
too. `crossed` remembers that a Stop and a Start were under way together.

### Coroutine

A worker is named as its scheduler. `at[t]` is what thread `t` is doing, with
which coroutine, and which scheduler its job will restore: `Resume`, `SpawnJob` or
`ResumeJob` begin a resumption, `Switch` is `aco_resume` with the trampoline's
unlinking of the start record, the coroutine then waits (`Await`, `Yield`) or ends
(`Exit`), and `AfterResume` destroys one that has ended. `SubmitResume` can come
between `Await` and `Yield`: the wake-up is then queued for a coroutine that still
runs. A job is accepted by `Spawn` or `SubmitResume` and queued by `Insert`, with a
Stop and the worker's exit possible in between; `QueuedRuns` is about the jobs
queued while the worker is there. `FreeThreadState` is the reclaiming of coroutines never resumed, by
ThreadCleanup or by the thread's destructor.

## Runs

| Run | Instance | Shows |
|---|---|---|
| `cancellation` | three threads, three nodes, two of them with hooks | no freed node or token is used; every registration is settled once; the token implements `CancellationRegistry`; abandoned tokens and nodes are reclaimed |
| `future` | a value and an error, a doOnSuccess and an onError | the winner's result and no other is delivered, once to each continuation; the value changes hands and is released once; no node is leaked |
| `future_liveness` | one Set, one continuation, a coroutine getter, a stoppable scheduler | no dangling node, no wake-up of one who does not wait; refinement of `OneShotCell`, so every call returns unless the process aborts or the worker left between the acceptance and the insertion of a resume |
| `future_error_input` | an error, a mover, a plain continuation | *violation*: a later continuation of a failed future is handed success |
| `attach` | two Attach calls, the promise, a Cancel, the caller's releases; with and without store buffers | future and token outlive their users; a cancelled attached future completes; without the buffer a completed future keeps no registration and the cycle future, token, node is always broken |
| `attach_buffered` | the same, with store buffers only | *violation*: a completed future can keep its registration for good |
| `cancellable_get` | two getters, a completion, a Cancel, failing registrations | a waiter is woken only while it waits and is freed after its last user; the answer is true; every get returns |
| `operators` | two calls of any kinds, one inner future, one token | contexts and their token references are given back; each value is in one place; a cancellation reaches the outputs and inner futures that took the token; each output has the right outcome, and none hangs |
| `combinators` | up to three entries over two futures | the shared context and zip's inputs live long enough and are freed; one settlement, with the right outcome, as early as the code promises |
| `scheduler` | two jobs, two submitters, two controllers, two starts | no lost wake-up; Destroy last; Join returns after Stop; refinement of `FifoExecutor` |
| `pool` | two workers, one submitter, four jobs, two starts, a counter of three values | flags and workers agree also after a failed Start, unless a Stop met a Start; picks are balanced but for the wrap; no accepted job is dropped by a live worker; Destroy ends and frees last |
| `coroutine` | two workers, a plain thread, two coroutines | a coroutine is resumed on its own thread and only when it does not run; the current scheduler is right; it is destroyed once; one queued before its worker is gone runs |

`PROJECT.json` lists for every property of a passing run one mutant that violates
it.

The violations. In `future_error_input` a document says more than the code does.
`attach_buffered` is a store-load race in the code: completion
exchanges `cancel_handle` and finds NULL while Attach, whose store is still in the
processor's buffer, loads `is_completed` and finds false, so neither unregisters
the handle. Nothing is used after free (`attach`), but the node keeps its handle's
reference, and through it the future and the token stay allocated. A sequentially
consistent exchange for the store would close the window: without the delay
`NothingLeaks` holds, `CompletedIsDetached` included. `PROJECT.json` quotes code
and documents under `findings`.

**Bounds.** Every race of the token is between two threads over one node, or
between a walk and the withdrawal of one of its nodes; three threads and three
nodes hold all such pairs plus a bystander that drops the
last reference, and the theorems below remove the bound. A future has one
completion, so what matters is the number of competitors (two Set calls,
the owner and the canceller: four) and of nodes per stack (two continuations, so
that order and the loop's step are exercised; one waiter suffices as waiters do
not interact, and a coroutine, as its wake-up can also be refused). Only one Attach can win its compare-and-swap, so a second one is all
the company it needs; the roll-back lets it win after all. Getters meet only on the
waiters' stack and the token's list, and two make both longer than one. Two operators on one input
give every pair of kinds, in both orders, over one value; one inner future is the
case of two callbacks that return the same. Three entries over two futures include
every repetition, a NULL entry, and a registration refused in the middle. A
scheduler has one worker; two submitters and two controllers
give every pair of racing calls, two jobs a queue behind a
running job, and two starts a retry after a failed one. The pool's counter of three values wraps
within four picks and is not a multiple of the two workers. Two coroutines over two workers and a
plain thread have every pair of threads. `MaxRefs`, `MaxStarts`,
`MaxStops`, `MaxJobs`, `MaxInputs` and `MaxCount` name the caps; each is in a guard or in the initial states.

**Symmetry** is used in the two runs of `Attach`, over the interchangeable
attachers, and in the run of `Operators`, over the interchangeable calls; none
of them checks liveness.

**Fairness.** Weak fairness of each thread's steps inside the library: a thread
that has entered a call keeps being scheduled, user callbacks and jobs
terminate, a mutex section ends, and a worker that is still there takes the resumes
in its queue. No fairness is
assumed of callers. Steps that merely may happen, such as a signal interrupting
the worker's read or a failing thread creation, are not fair. In `Coroutine` a
worker's taking of the next job is strongly fair: user code that drives coroutines by hand on the worker
is part of an earlier job, which returns to the loop, and the model has it take
turns with the queue.

**Deadlock** is checked in every run. `Finished` is the stuttering step of states
in which the system may rest: every caller has given up its references, or the
process has aborted.

## Proofs

Each theorem holds for every value of the constants that the named assumption of
its module allows; nothing else is assumed. The argument has the same shape
everywhere. A property is seldom inductive, so the component's module defines a
stronger `IInv`, which TLC checked on the run's instance before it was proved;
`InitInv` and `NextInv` show it inductive, with one lemma per action; `Invariance`
is `Spec => []IInv`, and each property follows from `IInv` alone. For a refinement,
every step that starts in `IInv` is shown to map to a step of the abstract
specification or to a stutter. Sets are counted by bijections with `1..n` (module
`Chains`), so that no set has to be assumed finite.

**The token.** `CancellationProofs`, for any sets of threads and nodes and any
positive `MaxRefs` (`CancellationAssumption`):

* `TypeCorrect`: types, and no reference count outside its range;
* `NodesSafe`: no freed node is reachable from the list, a handle, a running
  callback or Cancel's walk;
* `TokenSafe`: a freed token has no user left;
* `OneShot`: `SettledOnce` and `ReclaimedIsSettled`;
* `NodesKept`: a node stays allocated only for its handle, a walk or a thread at
  work on it;
* `RefinesRegistry`: the safety part of `CancellationRegistry`.

Whether a node may be freed depends on who holds its
two references, and whether the token may be freed on how many nodes are left.
`IInv` therefore says, for each place a node can be (listed, on a walk, in a
registration, in a callback, about to be freed, freed), what its count, handle
and history are; that no node is in two places (`PairInv`, `IsInjective`); and that
the token's count is `callerRefs` plus the number of nodes that have not let it
go (`TokenInv`). A consequence worth noting is
inside `TokenReclaimInv`: when the last token reference goes the list is empty,
so the reclaiming loop at the end of `sTokenRelease` never finds a node.

**The scheduler.** `SchedulerProofs`, for any sets of jobs, submitters and
controllers and any bounds on starts and stops (`SchedulerAssumption`):

* `TypeCorrect`;
* `WakeUpsKept`: `NoLostWakeup`, the worker's decision to sleep against the
  submitters' insert-then-write and Stop's clear-then-write;
* `JobsInOnePlace`: `OnePlace`, no job is duplicated, run twice or freed twice;
* `DrainIsComplete`: `DrainedBeforeExit`;
* `FreedLast`: `DestroyIsLast`;
* `RefinesExecutor`: the safety part of `FifoExecutor`.

`IInv` adds what these need of one another: that an accepted job has one holder
(`PlaceInv`); that a Start is alone, and a worker exists once it made the thread
and has exited once a Join is over (`LifeInv`); that from Destroy on its caller is
alone and does not free before the join (`CloseInv`); and, for the wake-ups, that
already at the second look at `is_running`, one step before the worker sleeps, a
job it missed has its write to come (`WorkerInv`).

**The pool.** `PoolProofs`, for any size, any counter range not below it, any
submitters and any bounds (`PoolAssumption`): `FlagsAgreeHolds`, `BalancedHolds` and
`PoolFreedLastHolds`. The invariant follows each control call's loop: which workers it
has dealt with and which it has still to; which calls exclude one another; that with
the flag down whatever runs lies before some Stop under way (`Swept`) or before the
loop of Start or Destroy; and for the round robin that the workers before the counter's place in its turn are the ones
a pick ahead (`TurnInv`).

**Coroutines.** `CoroutineProofs`, for any sets of workers, other threads and
coroutines (`CoroutineAssumption`):

* `TypeCorrect`;
* `HomeResumption`: `ResumedAtHome`, in particular that a wake-up queued before the
  yield is taken up only after it;
* `CurrentScheduler`: `SchedulerIsCurrent`;
* `OneDestruction`: `DestroyedOnce`.

Whether a queued coroutine may be resumed depends on what its thread is doing, and
what a thread may do on where its coroutine is. `IInv` says both: `ThreadInv` what
each place of a thread says of its coroutine, `CoInv` what became of a coroutine
says of its thread. `QueueInv` adds that a coroutine is in one queue at most, once,
and that a queued one has no waiter left, so that it cannot be queued again;
`AcceptInv` says the same of a job accepted and not yet inserted; this is why a coroutine that ended is in no queue. `ListInv` is the list of unstarted coroutines.

**The future.** `FutureProofs`, for any sets of Set calls, continuations of the
three kinds and getters (`FutureAssumption`, which only keeps their names apart):

* `DeliversWinnerHolds`, `RunsOnceHolds`, `NoDanglingHolds`, `ValueReleasedOnceHolds`;
* `Submission`: while a resume is being submitted its coroutine is where it waited;
* `RefinesCell`: the safety part of `OneShotCell`, when no continuation is a mover.
  A mover takes the content out of the cell, which `OneShotCell` does not describe;
  the instance of `future_liveness`, which checks the refinement, has none either.

The invariant relates the winner's progress through `sFutureComplete` to everyone
else: before it publishes nobody has seen a result; a node is in a stack, in the
stolen chain, or in the hands of one call, and its two references are exactly those
holders; the future's references are its holders; and a value is owned by its Set
call, by the result, by the mover that consumed it, or is disposed of. `SubmitInv`,
inductive relative to `IInv`, carries a claimed coroutine from the acceptance of its
resume to the insertion.

**The combinators.** `CombinatorsProofs`, for any number of inputs and any length of
the array (`CombinatorsAssumption`): `ContextOutlivesUsersHolds`, `RightOutcomeHolds`,
`NothingLeaksHolds`. What all three need is that `remaining` is the number of entries
that have not reported (`CountInv`), so that the last report is the last use.
`InputInv` and `RefInv` say where each entry's continuation and each of zip's
references is; `SettleInv` and `OutcomeInv` what a raised flag and a settled output
say of the inputs; `Rereads` that the error all will read again was that of a failed
entry, so that a zeroed outcome has a cause.

**The cancellable get.** `CancellableGetProofs`, for any set of getters
(`GetAssumption`): `WakesWaitingHolds`, `WaiterFreedLastHolds`, `AnswerIsTrueHolds`.
The proof is compositional: it takes the token's inductive invariant and `NodesKept`
from `CancellationProofs` through INSTANCE, and every action is first shown to be a
token step or none (`TokenInv`). On top of it `RefInv` says that a waiter's count is
the getter's reference, the callback node's and the stack's; `GetterInv` which of
them a getter's position implies; `ClaimInv` that a wake-up belongs to whoever
claimed, so that no two processes are about to wake one getter. `WaiterFreedLast`
at rest needs `NodesKept`: with no thread inside the token a live node has a handle,
and a getter that returned has none.

**Only model-checked:** all liveness, the liveness of the three refinements included
(fairness and ENABLED are outside the prover), and the safety of `Attach` and
`Operators`. These two follow a process through nested calls, of token code from
future code and of either from the other's callbacks, so that their invariants have
to speak of call stacks; they have not been found yet.

## Where the code does less than its text says

Two are runs (above). The others were met while modelling; the models follow the code:

* `ufsrv_future.c:546` and `:624` say of the roll-back in GetWithCancellation that the
  stack's reference remains for `UfsrvFutureRelease`. When the completer's drain has
  dropped it already, the roll-back's decrement is the last and frees nothing: the
  waiter leaks. A drain that comes later may wake a getter that has returned.
  `WaiterFreedLast` and `WakesWaiting` except the getters in `rolledBack`.
* `ufsrv_future.c:934` and `:1012` ignore the result of `sFutureThen` on the inner or
  recovered future. A refused registration leaves the output unsettled and its
  promise allocated. `NothingHangs` excludes these (`lost`). At `:968` a refused
  registration of flatMap itself does not give the context's token reference back.
* `ufsrv_future.c:1390` says of a refused second registration of zip that the first
  continuation frees the context through the counter. The counter stays at one, and
  context, promise and inputs stay allocated. `NothingLeaks` excepts the case.
* `ufsrv_future.c:1152` tests an input's error and `:1153` reads it again for
  SetError; so do `:811`, `:903` and `:996` with `:812`, `:904` and `:999`, the last one
  after the user's recovery ran. When doOnSuccess takes the result of the same future
  in between, the second read finds 0 and the failed output is a success without a
  value. `RightOutcome`, of `Combinators` and of `Operators`, says when this can happen.
* `ufsrv_future.c:922`, and the operators that inherit a token, ignore a refused
  attachment: a cancellation then does not reach that future. `CancelReaches` leaves
  out the futures in `refused`.
* `ufsrv_scheduler.c:177` checks `is_running` before the insertion at `:182`. A job
  accepted across Stop and the final drain is never run, although Submit returned
  true. For a coroutine's resume the abort at `ufsrv_future.c:126` does not happen
  either, and the coroutine stays suspended.
* `ufsrv_scheduler.c:325` raises the pool's flag after a Stop that came while Start
  was under way, and the pool counts as running with stopped workers.
* `README.md:94` says that reads of a future "are unaffected and may be repeated"; the
  result reads as zero after doOnSuccess or onError took it.
* `docs/man/ufsrvrxlib.7:288` lets Destroy reclaim nodes still registered. They hold
  token references, so none is listed when the last one goes (see the proof above).
* `include/ufsrvrxlib/ufsrv_scheduler/ufsrv_scheduler.h:69` says that Join waits; of two calls of Join, the second returns without waiting.

## Not modelled

Nothing to check: JSON introspection (it formats and copies names), the version
string, build files, examples.

Left out of parts that are modelled: a worker whose eventfd read fails
other than by a signal, on which `sWorkerMain` leaves its loop; a get called on a
worker outside a coroutine, which asserts or, without assertions, returns EDEADLK at
`ufsrv_future.c:595` and changes nothing; relaxed memory orders (apart from the store in `Attach`
the models are sequentially consistent); the prev/next rewiring inside the
token's list; the inside of uflib's stack and queue and of libaco's switch, which
are external and are modelled from their use here.
