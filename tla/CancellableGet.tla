--------------------------- MODULE CancellableGet ---------------------------
(***************************************************************************)
(* UfsrvFutureGetWithCancellation, blocking or in a coroutine, composed    *)
(* with the token of module Cancellation: the completion of the future and *)
(* the token's callback compete for one waiter, which carries three        *)
(* references, the pusher's, the stack's and the callback node's.          *)
(*                                                                         *)
(* Getter g registers node g from thread g of the token.  A wake is the    *)
(* write of the eventfd, or the resumption queued on the coroutine's       *)
(* scheduler; both last until the getter gets to wait.  The getters' owner *)
(* holds the token throughout, and the scheduler runs (module Future has   *)
(* the abort of a wake-up that a stopped scheduler refuses).               *)
(***************************************************************************)
EXTENDS Integers, Sequences, Functions

CONSTANTS Getters, NoNode

Canceller == "canceller"
Completer == "completer"

ASSUME GetAssumption ==
  {NoNode, Canceller, Completer} \cap Getters = {}

VARIABLES
  tokenRefs, tokenFreed, isCancelled, list, callerRefs, mem, refcount, active,
  claimed, handles, pc, cb, walk, fired, won, released,  \* Cancellation's
  ready, closed,   \* future->state; the waiters' stack refuses pushes
  stack, drain,    \* the waiters on it; those the completer has stolen
  futureReleased,  \* the last reference on the future is gone
  gpc,             \* what each getter does next
  wpc,             \* what the completer, or a callback, does next to its waiter
  wrefs, wmem,     \* waiter -> its references and its memory
  taken,           \* the waiters claimed
  wakes,           \* history: getter -> times it was woken
  rolledBack,      \* history: the getters whose registration failed
  got              \* getter -> what it returned

C == INSTANCE Cancellation WITH
  Threads <- Getters \cup {Canceller}, Nodes <- Getters, HookNodes <- Getters, MaxRefs <- 1

Procs == Getters \cup {Canceller, Completer}

tokenVars == <<tokenRefs, tokenFreed, isCancelled, list, callerRefs, mem, refcount,
               active, claimed, handles, pc, cb, walk, fired, won, released>>
stackVars == <<ready, closed, stack, drain, futureReleased>>
waiterVars == <<wrefs, wmem, taken, wakes>>
vars == <<tokenVars, stackVars, waiterVars, gpc, wpc, rolledBack, got>>

Init ==
  /\ C!Init
  /\ ready = FALSE /\ closed = FALSE /\ stack = <<>> /\ drain = <<>> /\ futureReleased = FALSE
  /\ gpc = [g \in Getters |-> "idle"] /\ got = [g \in Getters |-> "none"]
  /\ wpc = [p \in Procs |-> "none"]
  /\ wrefs = [g \in Getters |-> 0] /\ wmem = [g \in Getters |-> "none"]
  /\ taken = {} /\ wakes = [g \in Getters |-> 0] /\ rolledBack = {}

(* A getter goes on when the token call it made has returned.               *)
At(g, l) == gpc[g] = l /\ pc[g] = "idle"
Goto(g, l) == gpc' = [gpc EXCEPT ![g] = l]
Return(g, r) == Goto(g, "done") /\ got' = [got EXCEPT ![g] = r]

(* Mutant: two references left count as the last.                           *)
UnrefEarly(g) ==
  /\ wrefs' = [wrefs EXCEPT ![g] = @ - 1]
  /\ wmem' = IF wrefs[g] = 2 THEN [wmem EXCEPT ![g] = "freed"] ELSE wmem

(* A reference on waiter g is dropped, and the waiter freed with the last.  *)
Unref(g) ==
  /\ wrefs' = [wrefs EXCEPT ![g] = @ - 1]
  /\ wmem' = IF wrefs[g] = 1 THEN [wmem EXCEPT ![g] = "freed"] ELSE wmem

-----------------------------------------------------------------------------
(* The call: a cancelled token, then a ready future, end it at once; so     *)
(* does a failed allocation.                                                *)
CheckToken(g) ==
  /\ At(g, "idle") /\ ~futureReleased
  /\ IF isCancelled THEN Return(g, "ECANCELED") ELSE Goto(g, "check_ready") /\ UNCHANGED got
  /\ UNCHANGED <<tokenVars, stackVars, waiterVars, wpc, rolledBack>>

CheckReady(g) ==
  /\ At(g, "check_ready")
  /\ IF ready THEN Return(g, "result")
       ELSE \/ Return(g, "-1")
            \/ Goto(g, "push") /\ UNCHANGED got
  /\ UNCHANGED <<tokenVars, stackVars, waiterVars, wpc, rolledBack>>

(* The waiter is pushed with two references, or refused and discarded.      *)
Push(g) ==
  /\ At(g, "push")
  /\ IF closed
       THEN Return(g, "result") /\ UNCHANGED <<stack, wrefs, wmem>>
       ELSE /\ stack' = <<g>> \o stack
            /\ wrefs' = [wrefs EXCEPT ![g] = 2] /\ wmem' = [wmem EXCEPT ![g] = "live"]
            /\ Goto(g, "retain") /\ UNCHANGED got
  /\ UNCHANGED <<tokenVars, ready, closed, drain, futureReleased, taken, wakes, wpc, rolledBack>>

(* A third reference, for the callback.                                     *)
Retained(g) == [wrefs EXCEPT ![g] = @ + 1]

Retain(g) ==
  /\ At(g, "retain")
  /\ wrefs' = Retained(g)
  /\ Goto(g, "register")
  /\ UNCHANGED <<tokenVars, stackVars, wmem, taken, wakes, wpc, rolledBack, got>>

Register(g) ==
  /\ At(g, "register")
  /\ C!RegisterAlloc(g, g)
  /\ Goto(g, "wait")
  /\ UNCHANGED <<stackVars, waiterVars, wpc, rolledBack, got>>

(* A failed registration is rolled back with two decrements that free       *)
(* nothing: the stack's reference is taken to be still there.               *)
RegisterFails(g) ==
  /\ At(g, "register")
  /\ rolledBack' = rolledBack \cup {g}
  /\ Goto(g, "roll_back")
  /\ UNCHANGED <<tokenVars, stackVars, waiterVars, wpc, got>>

RollBack(g) ==
  /\ gpc[g] \in {"roll_back", "roll_back_more"}
  /\ wrefs' = [wrefs EXCEPT ![g] = @ - 1]
  /\ IF gpc[g] = "roll_back" THEN Goto(g, "roll_back_more") /\ UNCHANGED got ELSE Return(g, "-1")
  /\ UNCHANGED <<tokenVars, stackVars, wmem, taken, wakes, wpc, rolledBack>>

(* Mutant: the read is repeated when it succeeds.                           *)
WaitAgain(g) ==
  /\ At(g, "wait") /\ wakes[g] > 0
  /\ UNCHANGED vars

(* The read of the eventfd, or the yield, comes back once woken.            *)
Wait(g) ==
  /\ At(g, "wait") /\ wakes[g] > 0
  /\ Goto(g, "unregister")
  /\ UNCHANGED <<tokenVars, stackVars, waiterVars, wpc, rolledBack, got>>

Unregister(g) ==
  /\ At(g, "unregister")
  /\ C!Unregister(g, g)
  /\ Goto(g, "release")
  /\ UNCHANGED <<stackVars, waiterVars, wpc, rolledBack, got>>

Release(g) ==
  /\ At(g, "release")
  /\ Unref(g)
  /\ Goto(g, "answer")
  /\ UNCHANGED <<tokenVars, stackVars, taken, wakes, wpc, rolledBack, got>>

(* Mutant: who was woken takes the future for ready.                        *)
Completed == "result"

(* What the token says decides what woke the getter.                        *)
Outcome == IF isCancelled THEN "ECANCELED" ELSE "result"

Answer(g) ==
  /\ At(g, "answer")
  /\ Return(g, Outcome)
  /\ UNCHANGED <<tokenVars, stackVars, waiterVars, wpc, rolledBack>>

-----------------------------------------------------------------------------
(* Mutant: the claim is not looked at.                                      *)
ClaimAlways(p, g) ==
  /\ taken' = taken \cup {g}
  /\ wpc' = [wpc EXCEPT ![p] = "wake"]

(* lockless_treiber_stack_claim: one of completion and callback wakes.      *)
Claim(p, g) ==
  /\ taken' = taken \cup {g}
  /\ wpc' = [wpc EXCEPT ![p] = IF g \in taken THEN "leave" ELSE "wake"]

Wake(p, g) ==
  /\ wpc[p] = "wake"
  /\ wakes' = [wakes EXCEPT ![g] = @ + 1]
  /\ wpc' = [wpc EXCEPT ![p] = "leave"]
  /\ UNCHANGED <<tokenVars, stackVars, wrefs, wmem, taken, gpc, rolledBack, got>>

(* The promise's thread publishes the result, closes and steals the stack,  *)
(* and for each waiter claims, wakes and drops the stack's reference.       *)
Complete ==
  /\ ~ready /\ ~futureReleased
  /\ ready' = TRUE
  /\ UNCHANGED <<tokenVars, closed, stack, drain, futureReleased, waiterVars, gpc, wpc,
                 rolledBack, got>>

Steal ==
  /\ ready /\ ~closed
  /\ closed' = TRUE /\ drain' = stack /\ stack' = <<>>
  /\ UNCHANGED <<tokenVars, ready, futureReleased, waiterVars, gpc, wpc, rolledBack, got>>

DrainClaim ==
  /\ drain # <<>> /\ wpc[Completer] = "none"
  /\ Claim(Completer, Head(drain))
  /\ UNCHANGED <<tokenVars, stackVars, wrefs, wmem, wakes, gpc, rolledBack, got>>

DrainUnref ==
  /\ wpc[Completer] = "leave"
  /\ Unref(Head(drain))
  /\ drain' = Tail(drain)
  /\ wpc' = [wpc EXCEPT ![Completer] = "none"]
  /\ UNCHANGED <<tokenVars, ready, closed, stack, futureReleased, taken, wakes, gpc,
                 rolledBack, got>>

(* The last reference on the future goes, and with it the stack's on what   *)
(* was never drained.                                                       *)
ReleaseFuture ==
  /\ ~futureReleased /\ ready = closed /\ drain = <<>>
  /\ \A g \in Getters : gpc[g] \in {"idle", "done"}
  /\ futureReleased' = TRUE
  /\ wrefs' = [g \in Getters |-> IF g \in Range(stack) THEN wrefs[g] - 1 ELSE wrefs[g]]
  /\ wmem' = [g \in Getters |-> IF g \in Range(stack) /\ wrefs[g] = 1 THEN "freed" ELSE wmem[g]]
  /\ stack' = <<>>
  /\ UNCHANGED <<tokenVars, ready, closed, drain, taken, wakes, gpc, wpc, rolledBack, got>>

-----------------------------------------------------------------------------
(* The token's side: Cancel, and its callback, which claims and wakes, on   *)
(* the canceller's thread or inside a late registration ...                 *)
Cancel ==
  /\ C!Cancel(Canceller)
  /\ UNCHANGED <<stackVars, waiterVars, gpc, wpc, rolledBack, got>>

CallbackEnter(t) ==
  /\ C!CallbackEnter(t) \/ C!InlineEnter(t)
  /\ Claim(t, cb'[t])
  /\ UNCHANGED <<stackVars, wrefs, wmem, wakes, gpc, rolledBack, got>>

CallbackReturn(t) ==
  /\ wpc[t] = "leave"
  /\ C!CallbackReturn(t) \/ C!InlineReturn(t)
  /\ wpc' = [wpc EXCEPT ![t] = "none"]
  /\ UNCHANGED <<stackVars, waiterVars, gpc, rolledBack, got>>

(* ... the node's hook, sWaiterCancelRelease ...                            *)
NodeFree(t) ==
  /\ C!NodeFree(t)
  /\ Unref(cb[t])
  /\ UNCHANGED <<stackVars, taken, wakes, gpc, wpc, rolledBack, got>>

(* ... and the rest.                                                        *)
TokenStep(t) ==
  /\ C!RegisterLink(t) \/ C!RegisterLate(t) \/ C!TokenRelease(t)
  /\ UNCHANGED <<stackVars, waiterVars, gpc, wpc, rolledBack, got>>

-----------------------------------------------------------------------------
GetStep(g) ==
  \/ CheckReady(g) \/ Push(g) \/ Retain(g) \/ Register(g) \/ RegisterFails(g) \/ RollBack(g)
  \/ Wait(g) \/ Unregister(g) \/ Release(g) \/ Answer(g)

TokenSide(t) ==
  \/ CallbackEnter(t) \/ CallbackReturn(t) \/ NodeFree(t) \/ TokenStep(t)
  \/ Wake(t, cb[t])

Drain == Steal \/ DrainClaim \/ (drain # <<>> /\ Wake(Completer, Head(drain))) \/ DrainUnref

Finished ==
  /\ futureReleased /\ isCancelled /\ \A t \in Getters \cup {Canceller} : pc[t] = "idle"
  /\ UNCHANGED vars

Next ==
  \/ \E g \in Getters : CheckToken(g) \/ GetStep(g)
  \/ \E t \in Getters \cup {Canceller} : TokenSide(t)
  \/ Complete \/ Drain \/ Cancel \/ ReleaseFuture
  \/ Finished

(* A thread inside a call runs on; nobody has to call, complete or cancel.  *)
Spec ==
  /\ Init /\ [][Next]_vars
  /\ \A g \in Getters : WF_vars(GetStep(g))
  /\ \A t \in Getters \cup {Canceller} : WF_vars(TokenSide(t))
  /\ WF_vars(Drain)

-----------------------------------------------------------------------------
GetPCs == {"idle", "check_ready", "push", "retain", "register", "roll_back", "roll_back_more",
           "wait", "unregister", "release", "answer", "done"}

(* Type invariant.                                                          *)
TypeOK ==
  /\ C!TypeOK
  /\ {ready, closed, futureReleased} \subseteq BOOLEAN
  /\ stack \in Seq(Getters) /\ drain \in Seq(Getters) /\ taken \cup rolledBack \subseteq Getters
  /\ gpc \in [Getters -> GetPCs] /\ wpc \in [Procs -> {"none", "wake", "leave"}]
  /\ wrefs \in [Getters -> 0..3] /\ wmem \in [Getters -> {"none", "live", "freed"}]
  /\ wakes \in [Getters -> Nat]
  /\ got \in [Getters -> {"none", "result", "ECANCELED", "-1"}]

(* Whom a process is about to wake.                                         *)
Target(p) == IF p = Completer THEN Head(drain) ELSE cb[p]

(* "Resuming is claim-guarded on the waiter so that a concurrent future     *)
(* completion cannot resume the same coroutine twice": a getter is woken    *)
(* once at most, while it waits or is on its way to, and its waiter lives.  *)
(* Only a getter whose registration failed may be gone.                     *)
WakesWaiting ==
  /\ \A g \in Getters : wakes[g] <= 1
  /\ \A p \in Procs : wpc[p] = "wake" /\ Target(p) \notin rolledBack =>
       /\ gpc[Target(p)] \in {"retain", "register", "wait"}
       /\ wmem[Target(p)] = "live" /\ wakes[Target(p)] = 0

(* "A third reference keeps the waiter alive while the cancel callback may  *)
(* still write its fd": no waiter is freed that the stack, the completer, a *)
(* callback node or its getter will still touch, and every waiter and node  *)
(* is freed once the calls have returned and the future is gone, but for a  *)
(* waiter whose roll-back came after the completer had already dropped the  *)
(* stack's reference.                                                       *)
WaiterFreedLast ==
  /\ TypeOK
  /\ \A g \in Getters : wmem[g] = "freed" =>
       /\ g \notin Range(stack) \cup Range(drain)
       /\ mem[g] # "live"
       /\ gpc[g] \in {"answer", "done"}
  /\ futureReleased /\ (\A t \in Getters \cup {Canceller} : pc[t] = "idle") =>
       \A g \in Getters :
         /\ mem[g] # "live"
         /\ wmem[g] = "live" => g \in rolledBack /\ ready

(* A getter reads the result only of a ready future, and answers ECANCELED  *)
(* only for a cancelled token, whoever woke it.                             *)
AnswerIsTrue ==
  \A g \in Getters :
    /\ got[g] = "result" => ready
    /\ got[g] = "ECANCELED" => isCancelled

(* A getter returns once the future is completed or the token cancelled,    *)
(* whatever the order of the two, the push and the registration.            *)
GetReturns ==
  \A g \in Getters : gpc[g] # "idle" /\ (ready \/ isCancelled) ~> gpc[g] = "done"
-----------------------------------------------------------------------------
(* The inductive invariant behind the three, with Cancellation's.           *)
Early == {"idle", "check_ready", "push"}
Registering == {"register", "inline", "in_inline"}
RollingBack == {"roll_back", "roll_back_more"}
Queued(g) == g \in Range(stack) \cup Range(drain)

StackInv ==
  /\ IsInjective(stack) /\ IsInjective(drain) /\ Range(stack) \cap Range(drain) = {}
  /\ closed => ready /\ stack = <<>>
  /\ drain # <<>> => closed
  /\ wpc[Completer] # "none" => drain # <<>>
  /\ futureReleased =>
       /\ ready = closed /\ stack = <<>> /\ drain = <<>>
       /\ \A g \in Getters : gpc[g] \in {"idle", "done"}

(* Where a getter is says whether it has a waiter and a registration.       *)
GetterInv ==
  \A g \in Getters :
    /\ gpc[g] \in Early => wmem[g] = "none"
    /\ wmem[g] = "none" => gpc[g] \in Early \cup {"done"} /\ ~Queued(g) /\ mem[g] = "unused"
    /\ wmem[g] # "none" => Queued(g) \/ closed \/ futureReleased
    /\ gpc[g] \in Early \cup {"retain", "register"} => mem[g] = "unused"
    /\ gpc[g] \in RollingBack => g \in rolledBack
    /\ g \in rolledBack => gpc[g] \in RollingBack \cup {"done"} /\ mem[g] = "unused"
    /\ gpc[g] = "wait" => mem[g] = "live" /\ (g \in handles \/ pc[g] \in Registering)
    /\ gpc[g] = "unregister" => g \in handles
    /\ g \in handles => gpc[g] \in {"wait", "unregister"}

ThreadInv ==
  \A t \in Getters \cup {Canceller} :
    /\ pc[t] \in Registering => t \in Getters /\ gpc[t] = "wait" /\ cb[t] = t
    /\ wpc[t] # "none" <=> pc[t] \in {"in_callback", "in_inline"}

(* The getter's reference, the callback's, and the stack's.                 *)
Own(g) ==
  IF gpc[g] \in {"retain", "register", "wait", "unregister", "release", "roll_back"} THEN 1 ELSE 0
Callbacks(g) ==
  IF mem[g] = "live" \/ gpc[g] \in {"register"} \cup RollingBack THEN 1 ELSE 0
Stacked(g) == IF Queued(g) THEN 1 ELSE 0

RefInv ==
  \A g \in Getters :
    /\ wrefs[g] = Own(g) + Callbacks(g) + Stacked(g)
    /\ wrefs[g] > 0 => wmem[g] = "live"
    /\ wmem[g] = "live" /\ wrefs[g] = 0 => g \in rolledBack /\ ready

ClaimInv ==
  /\ \A g \in Getters :
       /\ wakes[g] \in {0, 1} /\ (wakes[g] = 1 => g \in taken)
       /\ g \in taken => wmem[g] # "none" /\ (ready \/ isCancelled)
       /\ gpc[g] \in {"unregister", "release", "answer"} => wakes[g] = 1
       /\ gpc[g] = "done" /\ wmem[g] # "none" => wakes[g] = 1 \/ g \in rolledBack
  /\ \A p \in Procs : wpc[p] = "wake" => Target(p) \in taken /\ wakes[Target(p)] = 0
  /\ \A p, q \in Procs : wpc[p] = "wake" /\ wpc[q] = "wake" /\ Target(p) = Target(q) => p = q

IInv ==
  /\ C!IInv /\ C!KeptInv
  /\ TypeOK /\ StackInv /\ GetterInv /\ ThreadInv /\ RefInv /\ ClaimInv /\ AnswerIsTrue
=============================================================================
