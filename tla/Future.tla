------------------------------- MODULE Future -------------------------------
(***************************************************************************)
(* A promise and its future: the core of ufsrv_future.c.                   *)
(*                                                                         *)
(* Every call is a process: one SetValue or SetError per member of Values, *)
(* the owner's PromiseDestroy, the cancellation callback of an attached    *)
(* token, one Then per continuation and one Get per getter.  A step is one *)
(* atomic operation of the code, or one write or read of future->result,   *)
(* which is plain memory.                                                  *)
(*                                                                         *)
(* The two Treiber stacks belong to uflib and are modelled from their use  *)
(* here: push is refused once steal_all_and_close has run, a node is born  *)
(* with two references (its pusher's and the stack's), claim succeeds once.*)
(*                                                                         *)
(* Calls follow the documented contract: the promise is destroyed once,    *)
(* after every Set call on it has returned, and a caller of Then or Get    *)
(* owns a reference on the future for the duration of the call.            *)
(***************************************************************************)
EXTENDS Integers, Sequences, Functions

CONSTANTS
  Values,      \* the results Set calls offer, one call each
  Errors,      \* those offered by SetError: they carry no destructor
  Conts,       \* the continuations registered through sFutureThen
  Movers,      \* those of doOnSuccess: they move any result
  OkMovers,    \* those of onError: they move a success and read an error
  Getters,     \* the calls of UfsrvFutureGet
  Coroutines   \* those made inside a scheduler's coroutine

Owner == "owner"
Canceller == "canceller"
EPIPE == "EPIPE"
ECANCELED == "ECANCELED"
Zero == "zero"     \* (UfsrvFutureResult){0}: calloc'd, or moved out
Failed == "failed" \* the error Get makes up: -1 or EDEADLK

Completers == Values \cup {Owner, Canceller}
Clients == Conts \cup Getters \cup {Canceller}
Procs == Completers \cup Conts \cup Getters
Nodes == Conts \cup Getters
Results == Values \cup {EPIPE, ECANCELED, Zero}
Owned == Values \ Errors

ASSUME FutureAssumption ==
  /\ Errors \subseteq Values
  /\ Movers \subseteq Conts
  /\ OkMovers \subseteq Conts \ Movers
  /\ Coroutines \subseteq Getters
  /\ Conts \cap Getters = {}
  /\ Values \cap (Conts \cup Getters) = {}
  /\ {Owner, Canceller, EPIPE, ECANCELED, Zero, Failed, "caller", "none"}
       \cap (Values \cup Conts \cup Getters) = {}

VARIABLES
  fulfilled,   \* promise->is_fulfilled
  completed,   \* future->is_completed
  consumed,    \* future->is_consumed
  ready,       \* future->state = UFSRV_FUTURE_READY
  result,      \* future->result
  conts,       \* future->continuations, top first
  contsClosed,
  waiters,     \* future->waiters, top first
  waitersClosed,
  refs,        \* future->refcount
  holders,     \* whose references refcount counts
  freed,       \* the future was freed
  nodeRefs,    \* references on each continuation and waiter node
  nodeFreed,   \* the nodes freed
  claimed,     \* the nodes claimed
  signals,     \* per getter: eventfd writes, or resumes accepted
  scheduler,   \* the coroutines' scheduler: "up", "stopped", or its worker is "gone"
  inserted,    \* the coroutines whose resume is in its queue, or was taken from it
  aborted,     \* abort() was called
  pc,          \* what each process does next
  chain,       \* the stolen nodes a completer has still to handle
  cur,         \* the continuation it runs
  winner,      \* history: the process that completed the future
  ran,         \* history: times each continuation was called
  saw,         \* history: the result each continuation or getter was handed
  disposed     \* history: times a value was freed or handed on

flagVars == <<fulfilled, completed, consumed, ready, result>>
stackVars == <<conts, contsClosed, waiters, waitersClosed>>
refVars == <<refs, holders, freed>>
nodeVars == <<nodeRefs, nodeFreed, claimed, signals>>
envVars == <<scheduler, inserted, aborted>>
procVars == <<pc, chain, cur>>
history == <<winner, ran, saw, disposed>>
vars == <<flagVars, stackVars, refVars, nodeVars, envVars, procVars, history>>

(* PromiseCreate: one reference for the promise, one for the caller.        *)
Init ==
  /\ fulfilled = FALSE /\ completed = FALSE /\ consumed = FALSE /\ ready = FALSE
  /\ result = Zero
  /\ conts = <<>> /\ contsClosed = FALSE
  /\ waiters = <<>> /\ waitersClosed = FALSE
  /\ refs = 2 /\ holders = {Owner, "caller"} /\ freed = FALSE
  /\ nodeRefs = [n \in Nodes |-> 0]
  /\ nodeFreed = {} /\ claimed = {}
  /\ signals = [g \in Getters |-> 0]
  /\ scheduler = "up" /\ inserted = {} /\ aborted = FALSE
  /\ pc = [p \in Procs |-> "idle"]
  /\ chain = [p \in Completers |-> <<>>]
  /\ cur = [p \in Procs |-> "none"]
  /\ winner = "none"
  /\ ran = [k \in Conts |-> 0]
  /\ saw = [n \in Nodes |-> "none"]
  /\ disposed = [v \in Values |-> 0]

Goto(p, l) == pc' = [pc EXCEPT ![p] = l]

(* free_value(value), when the result carries both.                         *)
Dispose(r) ==
  disposed' = IF r \in Owned THEN [disposed EXCEPT ![r] = @ + 1] ELSE disposed

(* Mutant: a node is freed by whoever releases it first.                    *)
DropNodeEarly(n, c) ==
  /\ nodeRefs' = [nodeRefs EXCEPT ![n] = @ - c]
  /\ nodeFreed' = nodeFreed \cup {n}

(* lockless_treiber_stack_release of c references, freeing at zero.         *)
DropNode(n, c) ==
  /\ nodeRefs' = [nodeRefs EXCEPT ![n] = @ - c]
  /\ nodeFreed' = IF nodeRefs[n] = c THEN nodeFreed \cup {n} ELSE nodeFreed

-----------------------------------------------------------------------------
(* UfsrvFutureRetain by a client that borrows the caller's reference; a     *)
(* coroutine runs while its worker does.                                    *)
Retain(p) ==
  /\ pc[p] = "idle"
  /\ p \in Coroutines => scheduler # "gone"
  /\ "caller" \in holders
  /\ refs' = refs + 1
  /\ holders' = holders \cup {p}
  /\ Goto(p, IF p = Canceller THEN "claim" ELSE "check")
  /\ UNCHANGED <<flagVars, stackVars, freed, nodeVars, envVars, chain, cur, history>>

(* UfsrvFutureRelease; the last reference frees the value, the nodes still  *)
(* stacked and the future, which nobody else can reach any more.            *)
DropFuture(h) ==
  LET left == Range(conts) \cup Range(waiters) IN
  /\ holders' = holders \ {h}
  /\ refs' = refs - 1
  /\ IF refs # 1
       THEN UNCHANGED <<freed, stackVars, nodeRefs, nodeFreed, disposed>>
       ELSE /\ freed' = TRUE
            /\ Dispose(result)
            /\ conts' = <<>> /\ waiters' = <<>>
            /\ contsClosed' = TRUE /\ waitersClosed' = TRUE
            /\ nodeRefs' = [n \in Nodes |-> nodeRefs[n] - (IF n \in left THEN 1 ELSE 0)]
            /\ nodeFreed' = nodeFreed \cup {n \in left : nodeRefs[n] = 1}

Release(p) ==
  /\ pc[p] = "release"
  /\ DropFuture(p)
  /\ Goto(p, "done")
  /\ UNCHANGED <<flagVars, claimed, signals, envVars, chain, cur, winner, ran, saw>>

CallerRelease ==
  /\ "caller" \in holders
  /\ DropFuture("caller")
  /\ UNCHANGED <<flagVars, claimed, signals, envVars, procVars, winner, ran, saw>>

-----------------------------------------------------------------------------
(* UfsrvPromiseSetResult up to sFutureComplete: a second fulfilment only    *)
(* frees the value it brought.                                              *)
SetResult(v) ==
  /\ pc[v] = "idle"
  /\ pc[Owner] = "idle"
  /\ fulfilled' = TRUE
  /\ IF fulfilled THEN Dispose(v) /\ Goto(v, "done")
                  ELSE UNCHANGED disposed /\ Goto(v, "claim")
  /\ UNCHANGED <<completed, consumed, ready, result, stackVars, refVars, nodeVars,
                 envVars, chain, cur, winner, ran, saw>>

(* UfsrvPromiseDestroy up to sFutureComplete: an abandoned promise          *)
(* completes its future with EPIPE.                                         *)
PromiseDestroy ==
  /\ pc[Owner] = "idle"
  /\ \A v \in Values : pc[v] \in {"idle", "done"}
  /\ fulfilled' = TRUE
  /\ Goto(Owner, IF fulfilled THEN "release" ELSE "claim")
  /\ UNCHANGED <<completed, consumed, ready, result, stackVars, refVars, nodeVars,
                 envVars, chain, cur, history>>

-----------------------------------------------------------------------------
(* sFutureComplete, step by step.                                           *)
ResultOf(p) ==
  IF p \in Values THEN p ELSE IF p = Owner THEN EPIPE ELSE ECANCELED

(* Where a completer goes when sFutureComplete returns.                     *)
AfterComplete(p) == IF p \in Values THEN "done" ELSE "release"

(* The exchange on is_completed: a losing Set frees its value.              *)
Claim(p) ==
  /\ pc[p] = "claim"
  /\ completed' = TRUE
  /\ IF completed
       THEN /\ Dispose(ResultOf(p)) /\ Goto(p, AfterComplete(p))
            /\ UNCHANGED winner
       ELSE /\ winner' = p /\ Goto(p, "publish")
            /\ UNCHANGED disposed
  /\ UNCHANGED <<fulfilled, consumed, ready, result, stackVars, refVars, nodeVars,
                 envVars, chain, cur, ran, saw>>

Publish(p) ==
  /\ pc[p] = "publish"
  /\ result' = ResultOf(p)
  /\ Goto(p, "ready")
  /\ UNCHANGED <<fulfilled, completed, consumed, ready, stackVars, refVars, nodeVars,
                 envVars, chain, cur, history>>

SetReady(p) ==
  /\ pc[p] = "ready"
  /\ ready' = TRUE
  /\ Goto(p, "steal_waiters")
  /\ UNCHANGED <<fulfilled, completed, consumed, result, stackVars, refVars, nodeVars,
                 envVars, chain, cur, history>>

(* sDrainWaiters: steal the stack and close it ...                          *)
StealWaiters(p) ==
  /\ pc[p] = "steal_waiters"
  /\ chain' = [chain EXCEPT ![p] = waiters]
  /\ waiters' = <<>>
  /\ waitersClosed' = TRUE
  /\ Goto(p, IF waiters = <<>> THEN "steal_conts" ELSE "wake")
  /\ UNCHANGED <<flagVars, conts, contsClosed, refVars, nodeVars, envVars, cur, history>>

(* ... claim each waiter and wake it: write its eventfd or submit its       *)
(* coroutine's resume, which a scheduler that was stopped refuses, and so   *)
(* does one that finds no memory ...                                        *)
WakeWaiter(p) ==
  LET g == Head(chain[p]) IN
  /\ pc[p] = "wake"
  /\ claimed' = claimed \cup {g}
  /\ \/ /\ g \in Coroutines \ claimed => scheduler = "up"
        /\ signals' = [signals EXCEPT ![g] = IF g \in claimed THEN @ ELSE @ + 1]
        /\ Goto(p, IF g \in Coroutines \ claimed THEN "submit" ELSE "unref_waiter")
        /\ UNCHANGED aborted
     \/ /\ g \in Coroutines \ claimed
        /\ aborted' = TRUE
        /\ Goto(p, "unref_waiter")
        /\ UNCHANGED signals
  /\ UNCHANGED <<flagVars, stackVars, refVars, nodeRefs, nodeFreed, scheduler, inserted,
                 chain, cur, history>>

(* ... insert the accepted resume, even if the worker is gone by now ...    *)
InsertResume(p) ==
  /\ pc[p] = "submit"
  /\ inserted' = inserted \cup {Head(chain[p])}
  /\ Goto(p, "unref_waiter")
  /\ UNCHANGED <<flagVars, stackVars, refVars, nodeVars, scheduler, aborted, chain, cur, history>>

(* ... and release the stack's reference on it.                             *)
UnrefWaiter(p) ==
  /\ pc[p] = "unref_waiter"
  /\ DropNode(Head(chain[p]), 1)
  /\ chain' = [chain EXCEPT ![p] = Tail(@)]
  /\ Goto(p, IF Len(chain[p]) = 1 THEN "steal_conts" ELSE "wake")
  /\ UNCHANGED <<flagVars, stackVars, refVars, claimed, signals, envVars, cur, history>>

(* Mutant: the continuation stack is stolen and left open.                  *)
StealContsOpen(p) ==
  /\ pc[p] = "steal_conts"
  /\ chain' = [chain EXCEPT ![p] = conts]
  /\ conts' = <<>>
  /\ Goto(p, IF conts = <<>> THEN AfterComplete(p) ELSE "take_cont")
  /\ UNCHANGED <<flagVars, contsClosed, waiters, waitersClosed, refVars, nodeVars, envVars,
                 cur, history>>

(* sDrainContinuations.                                                     *)
StealConts(p) ==
  /\ pc[p] = "steal_conts"
  /\ chain' = [chain EXCEPT ![p] = conts]
  /\ conts' = <<>>
  /\ contsClosed' = TRUE
  /\ Goto(p, IF conts = <<>> THEN AfterComplete(p) ELSE "take_cont")
  /\ UNCHANGED <<flagVars, waiters, waitersClosed, refVars, nodeVars, envVars, cur, history>>

(* sRunContinuation: the claim.                                             *)
TakeCont(p) ==
  LET k == Head(chain[p]) IN
  /\ pc[p] = "take_cont"
  /\ claimed' = claimed \cup {k}
  /\ cur' = [cur EXCEPT ![p] = k]
  /\ Goto(p, IF k \in claimed THEN "unref_cont" ELSE "run")
  /\ UNCHANGED <<flagVars, stackVars, refVars, nodeRefs, nodeFreed, signals, envVars,
                 chain, history>>

UnrefCont(p) ==
  /\ pc[p] = "unref_cont"
  /\ DropNode(Head(chain[p]), 1)
  /\ chain' = [chain EXCEPT ![p] = Tail(@)]
  /\ cur' = [cur EXCEPT ![p] = "none"]
  /\ Goto(p, IF Len(chain[p]) = 1 THEN AfterComplete(p) ELSE "take_cont")
  /\ UNCHANGED <<flagVars, stackVars, refVars, claimed, signals, envVars, history>>

-----------------------------------------------------------------------------
(* A continuation call, by a completer's drain or inline by sFutureThen.    *)
AfterRun(p) == IF p \in Completers THEN "unref_cont" ELSE "discard"

(* The continuation reads the result; doOnSuccess, and onError on success,  *)
(* then try to take it.                                                     *)
RunCont(p) ==
  LET k == cur[p] IN
  /\ pc[p] = "run"
  /\ ran' = [ran EXCEPT ![k] = @ + 1]
  /\ saw' = [saw EXCEPT ![k] = result]
  /\ Goto(p, IF k \in Movers \/ (k \in OkMovers /\ result \in Owned \cup {Zero})
               THEN "consume" ELSE AfterRun(p))
  /\ UNCHANGED <<flagVars, stackVars, refVars, nodeVars, envVars, chain, cur,
                 winner, disposed>>

(* Mutant: every mover goes on.                                             *)
ConsumeAgain(p) ==
  /\ pc[p] = "consume"
  /\ consumed' = TRUE
  /\ Goto(p, "move")
  /\ UNCHANGED <<fulfilled, completed, ready, result, stackVars, refVars, nodeVars,
                 envVars, chain, cur, history>>

(* sConsumeOnce: only the first mover goes on.                              *)
ConsumeOnce(p) ==
  /\ pc[p] = "consume"
  /\ consumed' = TRUE
  /\ Goto(p, IF consumed THEN AfterRun(p) ELSE "move")
  /\ UNCHANGED <<fulfilled, completed, ready, result, stackVars, refVars, nodeVars,
                 envVars, chain, cur, history>>

(* UfsrvPromiseSetResult(out_promise, *result_ptr): the value is handed on. *)
Move(p) ==
  /\ pc[p] = "move"
  /\ Dispose(result)
  /\ Goto(p, "zero")
  /\ UNCHANGED <<flagVars, stackVars, refVars, nodeVars, envVars, chain, cur,
                 winner, ran, saw>>

(* *result_ptr = (UfsrvFutureResult){0}                                     *)
ZeroResult(p) ==
  /\ pc[p] = "zero"
  /\ result' = Zero
  /\ Goto(p, AfterRun(p))
  /\ UNCHANGED <<fulfilled, completed, consumed, ready, stackVars, refVars, nodeVars,
                 envVars, chain, cur, history>>

-----------------------------------------------------------------------------
(* Mutant: the completion guard taken for the publication.                  *)
IsCompleted == completed

(* UfsrvFutureIsReady, and the same test in Then and Get.                   *)
IsReady == ready

(* sFutureThen: run at once when the future is ready; otherwise make a node *)
(* (or fail to, and return false).                                          *)
ThenCheck(k) ==
  /\ pc[k] = "check"
  /\ \/ /\ IsReady
        /\ cur' = [cur EXCEPT ![k] = k]
        /\ Goto(k, "run")
        /\ UNCHANGED nodeRefs
     \/ /\ ~IsReady
        /\ nodeRefs' = [nodeRefs EXCEPT ![k] = 2]
        /\ Goto(k, "push")
        /\ UNCHANGED cur
     \/ /\ ~IsReady
        /\ Goto(k, "release")
        /\ UNCHANGED <<cur, nodeRefs>>
  /\ UNCHANGED <<flagVars, stackVars, refVars, nodeFreed, claimed, signals, envVars,
                 chain, history>>

(* A refused push means the future completed meanwhile: run inline.         *)
ThenPush(k) ==
  /\ pc[k] = "push"
  /\ IF contsClosed
       THEN /\ cur' = [cur EXCEPT ![k] = k]
            /\ Goto(k, "run")
            /\ UNCHANGED conts
       ELSE /\ conts' = <<k>> \o conts
            /\ Goto(k, "unref")
            /\ UNCHANGED cur
  /\ UNCHANGED <<flagVars, contsClosed, waiters, waitersClosed, refVars, nodeVars,
                 envVars, chain, history>>

(* sNodeDiscard after a refused push; nothing to do if no node was made.    *)
Discard(k) ==
  /\ pc[k] = "discard"
  /\ IF nodeRefs[k] = 0 THEN UNCHANGED <<nodeRefs, nodeFreed>> ELSE DropNode(k, 2)
  /\ Goto(k, "release")
  /\ cur' = [cur EXCEPT ![k] = "none"]
  /\ UNCHANGED <<flagVars, stackVars, refVars, claimed, signals, envVars, chain, history>>

(* The pusher's reference goes: after a push, or after a getter's wake-up.  *)
Unref(p) ==
  /\ pc[p] = "unref"
  /\ DropNode(p, 1)
  /\ Goto(p, IF p \in Getters THEN "read" ELSE "release")
  /\ UNCHANGED <<flagVars, stackVars, refVars, claimed, signals, envVars, chain, cur,
                 history>>

-----------------------------------------------------------------------------
(* UfsrvFutureGet: read a ready result; otherwise make a waiter, or fail    *)
(* (no memory, no eventfd, a plain call on a worker thread).                *)
GetCheck(g) ==
  /\ pc[g] = "check"
  /\ \/ IsReady /\ Goto(g, "read") /\ UNCHANGED <<nodeRefs, saw>>
     \/ /\ ~IsReady
        /\ nodeRefs' = [nodeRefs EXCEPT ![g] = 2]
        /\ Goto(g, "push")
        /\ UNCHANGED saw
     \/ /\ ~IsReady
        /\ saw' = [saw EXCEPT ![g] = Failed]
        /\ Goto(g, "release")
        /\ UNCHANGED nodeRefs
  /\ UNCHANGED <<flagVars, stackVars, refVars, nodeFreed, claimed, signals, envVars,
                 chain, cur, winner, ran, disposed>>

(* The push; a refused waiter is discarded and the result read.             *)
GetPush(g) ==
  /\ pc[g] = "push"
  /\ IF waitersClosed
       THEN DropNode(g, 2) /\ Goto(g, "read") /\ UNCHANGED waiters
       ELSE /\ waiters' = <<g>> \o waiters
            /\ Goto(g, "wait")
            /\ UNCHANGED <<nodeRefs, nodeFreed>>
  /\ UNCHANGED <<flagVars, conts, contsClosed, waitersClosed, refVars, claimed, signals,
                 envVars, chain, cur, history>>

(* read(block_fd) returns, or the worker takes the resume and the coroutine *)
(* comes back from Yield.                                                   *)
GetWake(g) ==
  /\ pc[g] = "wait"
  /\ signals[g] > 0
  /\ g \in Coroutines => g \in inserted /\ scheduler # "gone"
  /\ Goto(g, "unref")
  /\ UNCHANGED <<flagVars, stackVars, refVars, nodeVars, envVars, chain, cur, history>>

GetRead(g) ==
  /\ pc[g] = "read"
  /\ saw' = [saw EXCEPT ![g] = result]
  /\ Goto(g, "release")
  /\ UNCHANGED <<flagVars, stackVars, refVars, nodeVars, envVars, chain, cur, winner,
                 ran, disposed>>

(* The coroutines' scheduler is stopped by its owner ...                    *)
StopScheduler ==
  /\ Coroutines # {}
  /\ scheduler = "up"
  /\ scheduler' = "stopped"
  /\ UNCHANGED <<flagVars, stackVars, refVars, nodeVars, inserted, aborted, procVars, history>>

(* ... and its worker leaves, when it finds the queue empty.                *)
SchedulerExit ==
  /\ scheduler = "stopped"
  /\ \A g \in Coroutines :
       pc[g] \in {"idle", "wait", "done"} /\ (pc[g] = "wait" => g \notin inserted)
  /\ scheduler' = "gone"
  /\ UNCHANGED <<flagVars, stackVars, refVars, nodeVars, inserted, aborted, procVars, history>>

-----------------------------------------------------------------------------
Complete(p) ==
  \/ Claim(p) \/ Publish(p) \/ SetReady(p)
  \/ StealWaiters(p) \/ WakeWaiter(p) \/ InsertResume(p) \/ UnrefWaiter(p)
  \/ StealConts(p) \/ TakeCont(p) \/ UnrefCont(p)

Run(p) == RunCont(p) \/ ConsumeOnce(p) \/ Move(p) \/ ZeroResult(p)

(* What a process does once its call is under way.                          *)
Step(p) ==
  /\ ~aborted
  /\ \/ p \in Completers /\ Complete(p)
     \/ p \in Conts /\ (ThenCheck(p) \/ ThenPush(p) \/ Discard(p))
     \/ p \in Getters /\ (GetCheck(p) \/ GetPush(p) \/ GetWake(p) \/ GetRead(p))
     \/ p \in Nodes /\ Unref(p)
     \/ Run(p)
     \/ Release(p)

Call ==
  /\ ~aborted
  /\ \/ \E v \in Values : SetResult(v)
     \/ PromiseDestroy
     \/ \E p \in Clients : Retain(p)
     \/ CallerRelease
     \/ StopScheduler \/ SchedulerExit

(* The process is gone, or the caller and the producer are through.         *)
Finished ==
  /\ aborted \/ ("caller" \notin holders /\ pc[Owner] = "done")
  /\ UNCHANGED vars

Next == Call \/ (\E p \in Procs : Step(p)) \/ Finished

Spec == Init /\ [][Next]_vars

(* A call that was made runs on (continuations terminate, and a worker that *)
(* is not gone takes what is in its queue); nothing makes anybody call.     *)
FairSpec == Spec /\ \A p \in Procs : WF_vars(Step(p))

-----------------------------------------------------------------------------
(* Where a process can be: the winner's drain, a continuation's body, and   *)
(* the calls of each kind of process.                                       *)
BodyPCs == {"run", "consume", "move", "zero"}
WakePCs == {"wake", "submit", "unref_waiter"}
RunPCs == BodyPCs \cup {"take_cont", "unref_cont"}
DrainPCs ==
  {"publish", "ready", "steal_waiters", "steal_conts"} \cup WakePCs \cup RunPCs
PCs(p) ==
  {"idle", "done"} \cup
  (IF p \in Completers THEN {"claim"} \cup DrainPCs ELSE {"check", "push", "unref"}) \cup
  (IF p \in Values THEN {} ELSE {"release"}) \cup
  (IF p \in Conts THEN {"discard"} \cup BodyPCs ELSE {}) \cup
  (IF p \in Getters THEN {"wait", "read"} ELSE {})

(* Type invariant; no counter leaves its range.                             *)
TypeOK ==
  /\ {fulfilled, completed, consumed, ready, contsClosed, waitersClosed, freed,
      aborted} \subseteq BOOLEAN
  /\ scheduler \in {"up", "stopped", "gone"} /\ inserted \subseteq Getters
  /\ result \in Results
  /\ conts \in Seq(Conts) /\ waiters \in Seq(Getters)
  /\ holders \subseteq Clients \cup {Owner, "caller"}
  /\ refs \in Nat
  /\ nodeRefs \in [Nodes -> 0..2]
  /\ nodeFreed \subseteq Nodes /\ claimed \subseteq Nodes
  /\ signals \in [Getters -> 0..1]
  /\ DOMAIN pc = Procs /\ \A p \in Procs : pc[p] \in PCs(p)
  /\ chain \in [Completers -> Seq(Nodes)]
  /\ cur \in [Procs -> Conts \cup {"none"}]
  /\ winner \in Completers \cup {"none"}
  /\ ran \in [Conts -> Nat]
  /\ saw \in [Nodes -> Results \cup {Failed, "none"}]
  /\ disposed \in [Values -> Nat]

(* What the future's result reads once published: the winner's, unless a    *)
(* mover has taken it.                                                      *)
Published == IF winner = "none" THEN Zero ELSE ResultOf(winner)

(* Everyone who is handed the result is handed the one the winner of the    *)
(* completion race published: neither a calloc'd result read too early nor  *)
(* a loser's.  A zero is seen only where a mover had claimed the value.     *)
DeliversWinner ==
  \A n \in Nodes : saw[n] \in {"none", Failed, Published} \/ (saw[n] = Zero /\ consumed)

(* Exactly-once delivery: no continuation is called twice, and when the     *)
(* future is gone every continuation whose registration was accepted has    *)
(* been called (sFutureThen against sDrainContinuations) and every node     *)
(* that was made has been freed.                                            *)
RunsOnce ==
  /\ TypeOK
  /\ \A k \in Conts : ran[k] <= 1 /\ (freed /\ k \in nodeFreed => ran[k] = 1)
  /\ freed => \A n \in Nodes : nodeRefs[n] = 0

(* The nodes in a stack or in the winner's stolen chain.                    *)
Placed ==
  Range(conts) \cup Range(waiters) \cup UNION {Range(chain[p]) : p \in Completers}

(* Nodes reachable through these or through a running call.                 *)
Reachable == Placed \cup {n \in Nodes : pc[n] \in {"push", "wait", "unref"}}

(* No use after free: a node that can still be reached is allocated, the    *)
(* future outlives the promise, every call on it and every stacked node,    *)
(* whoever drops the last reference, and a getter is woken once at most and *)
(* while it waits: no resume of a coroutine that moved on, however long its *)
(* submission takes, no write to a closed eventfd.                          *)
NoDangling ==
  /\ Reachable \cap nodeFreed = {}
  /\ freed => /\ Reachable = {} /\ holders = {}
              /\ \A p \in Procs : pc[p] \in {"idle", "done"}
  /\ \A p \in Completers : LET g == Head(chain[p]) IN
       /\ pc[p] \in {"wake", "submit"} => pc[g] = "wait" /\ g \notin nodeFreed \cup inserted
       /\ pc[p] = "wake" => signals[g] = 0

(* "Every value carries its own destructor, so a value is released exactly  *)
(* once": never twice on any path (second Set, lost race, move, last        *)
(* release), and when the future is gone every value a Set call brought has *)
(* been released or handed on.                                              *)
ValueReleasedOnce ==
  \A v \in Owned :
    /\ disposed[v] <= 1
    /\ freed /\ pc[v] = "done" => disposed[v] = 1

(* "map, flatMap and zip never run their callbacks on an error input": a    *)
(* continuation of a failed future is never handed an error-free result.    *)
NoCallbackOnError ==
  Published \notin Owned \cup {Zero} =>
    \A k \in Conts \ (Movers \cup OkMovers) : saw[k] # Zero

-----------------------------------------------------------------------------
(* The inductive invariant behind the safety properties.                    *)

(* The race for is_completed and how far its winner has got.                *)
Before(l) == winner = "none" \/ pc[winner] \in l
Unready == {"publish", "ready"}
Unwoken == Unready \cup {"steal_waiters"}
Unstolen == Unwoken \cup {"steal_conts"} \cup WakePCs

RaceInv ==
  /\ completed <=> winner # "none"
  /\ \A p \in Completers : /\ pc[p] \in DrainPCs => winner = p
                           /\ pc[p] \in {"idle", "claim"} => winner # p
  /\ ready <=> ~Before(Unready)
  /\ waitersClosed <=> ~Before(Unwoken)
  /\ contsClosed <=> ~Before(Unstolen)

(* The promise: fulfilled by the first Set or by its destruction, which     *)
(* comes after the Set calls.                                               *)
PromiseInv ==
  /\ \A p \in Values \cup {Owner} : pc[p] # "idle" => fulfilled
  /\ fulfilled /\ ~completed => \E p \in Values \cup {Owner} : pc[p] = "claim"
  /\ pc[Owner] # "idle" => \A v \in Values : pc[v] \in {"idle", "done"}

(* refcount counts its holders: the caller, the promise until destroyed and *)
(* every call under way.                                                    *)
RefInv ==
  /\ ExistsBijection(1..refs, holders)
  /\ Owner \in holders <=> pc[Owner] # "done"
  /\ \A p \in Clients : p \in holders <=> pc[p] \notin {"idle", "done"}
  /\ freed <=> holders = {}

StackInv ==
  /\ IsInjective(conts) /\ IsInjective(waiters)
  /\ (Range(conts) \cup Range(waiters)) \cap claimed = {}
  /\ contsClosed => conts = <<>>
  /\ waitersClosed => waiters = <<>>

(* The drain: of the stolen nodes, only the head can be claimed.            *)
ChainInv ==
  \A p \in Completers : LET h == Head(chain[p]) IN
    /\ IsInjective(chain[p])
    /\ chain[p] # <<>> <=> pc[p] \in WakePCs \cup RunPCs
    /\ pc[p] \in WakePCs => Range(chain[p]) \subseteq Getters
    /\ pc[p] \in RunPCs => Range(chain[p]) \subseteq Conts
    /\ \A n \in Range(chain[p]) \cap claimed : n = h
    /\ pc[p] \in {"wake", "take_cont"} => h \notin claimed
    /\ pc[p] \in BodyPCs => cur[p] = h /\ h \in claimed
    /\ pc[p] = "run" => ran[h] = 0
    /\ pc[p] \in {"consume", "move", "zero", "unref_cont"} => ran[h] = 1

(* A node's references: its pusher's and its place's.                       *)
NodeInv ==
  \A n \in Nodes :
    /\ n \in Placed => /\ pc[n] \in {"wait", "unref", "read", "release", "done"}
                       /\ nodeRefs[n] = IF pc[n] \in {"wait", "unref"} THEN 2 ELSE 1
    /\ n \notin Placed =>
         /\ pc[n] = "push" => nodeRefs[n] = 2
         /\ pc[n] \in {"wait", "unref"} => nodeRefs[n] = 1
         /\ pc[n] \in BodyPCs \cup {"discard"} => nodeRefs[n] \in {0, 2}
         /\ pc[n] \in {"idle", "check", "read", "release", "done"} => nodeRefs[n] = 0
    /\ n \in nodeFreed => nodeRefs[n] = 0 /\ pc[n] \in {"read", "release", "done"}
    /\ pc[n] \in {"idle", "check", "push"} => n \notin claimed

(* A getter is signalled by the claim of its node, and waits until then.    *)
GetterInv ==
  \A g \in Getters :
    /\ g \notin claimed => signals[g] = 0
    /\ g \in claimed => ready
    /\ g \in Placed \ claimed => pc[g] = "wait"
    /\ pc[g] \in {"unref", "read"} => ready

(* A continuation runs from its call, or is placed until the drain runs it. *)
ContInv ==
  \A k \in Conts :
    /\ ran[k] \in {0, 1}
    /\ pc[k] \in {"idle", "check", "push", "run"} \/ k \in Placed \ claimed => ran[k] = 0
    /\ pc[k] \in {"consume", "move", "zero", "discard"} \/ k \in nodeFreed => ran[k] = 1
    /\ pc[k] = "unref" /\ k \notin Placed => ran[k] = 1
    /\ pc[k] \in BodyPCs => cur[k] = k

(* The result is the winner's from its publication until a mover, of whom   *)
(* there is one, zeroes it.                                                 *)
Moving(p) == pc[p] \in {"move", "zero"}
ResultInv ==
  /\ Before({"publish"}) => result = Zero
  /\ ~Before({"publish"}) =>
       result = IF consumed /\ \A p \in Procs : ~Moving(p) THEN Zero ELSE Published
  /\ \A p, q \in Procs : Moving(p) /\ Moving(q) => p = q
  /\ \A p \in Procs : Moving(p) => consumed
  /\ \A p \in Procs : pc[p] \in BodyPCs => ready
  /\ consumed => ready

(* A loser's value is freed when it loses, the winner's when it is moved or *)
(* with the future.                                                         *)
ValueInv ==
  \A v \in Owned :
    /\ pc[v] \in {"idle", "claim"} => disposed[v] = 0
    /\ pc[v] \notin {"idle", "claim"} /\ winner # v => disposed[v] = 1
    /\ winner = v =>
         disposed[v] = IF freed \/ (consumed /\ \A p \in Procs : pc[p] # "move")
                         THEN 1 ELSE 0

SawInv ==
  /\ DeliversWinner
  /\ ~ready => \A n \in Nodes : saw[n] \in {"none", Failed}

IInv ==
  /\ TypeOK /\ RaceInv /\ PromiseInv /\ RefInv /\ StackInv /\ ChainInv
  /\ NodeInv /\ GetterInv /\ ContInv /\ ResultInv /\ ValueInv /\ SawInv

(* On top of it: a coroutine whose resume is being submitted is where it    *)
(* waited, and its resume is in no queue yet.                               *)
SubmitInv ==
  /\ inserted \subseteq claimed \cap Coroutines
  /\ \A p \in Completers : pc[p] = "submit" =>
       /\ Head(chain[p]) \in (claimed \cap Coroutines) \ inserted
       /\ pc[Head(chain[p])] = "wait"
=============================================================================
