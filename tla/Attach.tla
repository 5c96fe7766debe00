------------------------------- MODULE Attach -------------------------------
(***************************************************************************)
(* A token attached to a future: UfsrvFutureAttachCancellation composed    *)
(* with the promise's completion, the future's release and the token of    *)
(* module Cancellation.                                                    *)
(*                                                                         *)
(* A process runs future code (fpc) and, when that code calls the token or *)
(* the token calls back, token code: thread <<p, 1>> of Cancellation is    *)
(* the process's outermost token call, <<p, 2>> the call it makes from     *)
(* inside a callback or a release hook.  Future code waits for the token   *)
(* call it made, token code for the callback or hook it entered.           *)
(*                                                                         *)
(* The handle is stored with release order and is_completed then loaded    *)
(* with acquire order.  That leaves the processor free to hold the store   *)
(* back in its store buffer past the load, and every x86 does: on buffered *)
(* hardware the store takes effect in a step of its own.                   *)
(*                                                                         *)
(* Result, stacks and drains are Future's.  The caller owns a reference on *)
(* the future and on the token whenever it calls Attach or Cancel.         *)
(***************************************************************************)
EXTENDS Integers, FiniteSets, Sequences, SequencesExt

CONSTANTS
  Attachers,     \* calls of Attach; each names the node it registers
  NoNode,        \* a NULL handle
  StoreBuffers   \* the hardware considered: it may hold stores back, or not

ASSUME AttachAssumption ==
  /\ IsFiniteSet(Attachers) /\ NoNode \notin Attachers
  /\ StoreBuffers \subseteq BOOLEAN

Promise == "promise"
Canceller == "canceller"
Caller == "caller"

ASSUME AttachNames == {Promise, Canceller, Caller, "none"} \cap Attachers = {}

Procs == Attachers \cup {Promise, Canceller, Caller}

VARIABLES
  tokenRefs, tokenFreed, isCancelled, list, callerRefs, mem, refcount, active,
  claimed, handles, pc, cb, walk, fired, won, released,  \* Cancellation's
  completed,     \* future->is_completed
  cancelToken,   \* future->cancel_token is not NULL
  cancelHandle,  \* future->cancel_handle, as other threads see it
  buffered,      \* the hardware holds stores back
  buffer,        \* the handle in each attacher's store buffer
  futureRefs, futureFreed,  \* future->refcount; free(future) has run
  dying,         \* the process that dropped the last reference and frees the future
  futureHeld, tokenHeld,    \* the caller still owns its references
  fpc,           \* what each process does next in the future's code
  taken,         \* the handle it took with an exchange and will unregister
  attached       \* history: the Attach calls that returned true

C == INSTANCE Cancellation WITH
  Threads <- Procs \X {1, 2}, Nodes <- Attachers, HookNodes <- Attachers,
  MaxRefs <- 1 + Cardinality(Attachers)

tokenVars == <<tokenRefs, tokenFreed, isCancelled, list, callerRefs, mem, refcount,
               active, claimed, handles, pc, cb, walk, fired, won, released>>
futureVars == <<completed, cancelToken, cancelHandle, buffer, futureRefs, futureFreed,
                dying, futureHeld, tokenHeld, fpc, taken, attached, buffered>>
vars == <<tokenVars, futureVars>>

Init ==
  /\ C!Init
  /\ completed = FALSE
  /\ cancelToken = FALSE /\ cancelHandle = NoNode
  /\ buffered \in StoreBuffers
  /\ buffer = [a \in Attachers |-> NoNode]
  /\ futureRefs = 2 /\ futureFreed = FALSE
  /\ dying = "none"
  /\ futureHeld = TRUE /\ tokenHeld = TRUE
  /\ fpc = [p \in Procs |-> "idle"]
  /\ taken = [p \in Procs |-> NoNode]
  /\ attached = {}

(* The process is inside a callback the token runs.                         *)
InCallback(p) == pc[<<p, 1>>] \in {"in_callback", "in_inline"}

(* Future code goes on once the token call it made has returned and the     *)
(* future it was the last to release is freed.                              *)
Returned(p) ==
  /\ pc[<<p, 2>>] = "idle"
  /\ pc[<<p, 1>>] = "idle" \/ InCallback(p)
  /\ dying # p

At(p, l) == fpc[p] = l /\ Returned(p)
Goto(p, l) == fpc' = [fpc EXCEPT ![p] = l]

(* No call of Attach is under way, and what it stored is visible: a release *)
(* is a read-modify-write, or comes after synchronising with the attacher.  *)
NoAttach ==
  \A a \in Attachers : fpc[a] \in {"idle", "done"} /\ Returned(a) /\ buffer[a] = NoNode

-----------------------------------------------------------------------------
(* UfsrvFutureAttachCancellation: an already completed future is refused ... *)
AttachCheck(a) ==
  /\ At(a, "idle")
  /\ futureHeld /\ tokenHeld
  /\ Goto(a, IF completed THEN "done" ELSE "cas")
  /\ UNCHANGED <<tokenVars, completed, cancelToken, cancelHandle, buffer, futureRefs,
                 futureFreed, dying, futureHeld, tokenHeld, taken, attached, buffered>>

(* ... and so is a second token ...                                         *)
AttachCas(a) ==
  /\ At(a, "cas")
  /\ cancelToken' = TRUE
  /\ Goto(a, IF cancelToken THEN "done" ELSE "retain_token")
  /\ UNCHANGED <<tokenVars, completed, cancelHandle, buffer, futureRefs, futureFreed,
                 dying, futureHeld, tokenHeld, taken, attached, buffered>>

(* Mutant: the token is borrowed.                                           *)
BorrowToken(a) ==
  /\ At(a, "retain_token")
  /\ Goto(a, "retain_future")
  /\ UNCHANGED <<tokenVars, completed, cancelToken, cancelHandle, buffer, futureRefs,
                 futureFreed, dying, futureHeld, tokenHeld, taken, attached, buffered>>

(* ... the future takes a reference on the token ...                        *)
RetainToken(a) ==
  /\ At(a, "retain_token")
  /\ C!RetainInternal
  /\ Goto(a, "retain_future")
  /\ UNCHANGED <<completed, cancelToken, cancelHandle, buffer, futureRefs,
                 futureFreed, dying, futureHeld, tokenHeld, taken, attached, buffered>>

(* Mutant: the callback borrows the future.                                 *)
BorrowFuture(a) ==
  /\ At(a, "retain_future")
  /\ Goto(a, "register")
  /\ UNCHANGED <<tokenVars, completed, cancelToken, cancelHandle, buffer, futureRefs,
                 futureFreed, dying, futureHeld, tokenHeld, taken, attached, buffered>>

(* ... the callback one on the future ...                                   *)
RetainFuture(a) ==
  /\ At(a, "retain_future")
  /\ futureRefs' = futureRefs + 1
  /\ Goto(a, "register")
  /\ UNCHANGED <<tokenVars, completed, cancelToken, cancelHandle, buffer,
                 futureFreed, dying, futureHeld, tokenHeld, taken, attached, buffered>>

(* ... and it is registered, or cannot be for want of memory.               *)
Register(a) ==
  /\ At(a, "register")
  /\ C!RegisterAlloc(<<a, 1>>, a)
  /\ Goto(a, "store")
  /\ UNCHANGED <<completed, cancelToken, cancelHandle, buffer, futureRefs,
                 futureFreed, dying, futureHeld, tokenHeld, taken, attached, buffered>>

RegisterFails(a) ==
  /\ At(a, "register")
  /\ cancelToken' = FALSE
  /\ Goto(a, "rollback")
  /\ UNCHANGED <<tokenVars, completed, cancelHandle, buffer, futureRefs, futureFreed,
                 dying, futureHeld, tokenHeld, taken, attached, buffered>>

(* The roll-back: the token's reference, then the future's.                 *)
RollBack(a) ==
  /\ At(a, "rollback")
  /\ C!Destroy(<<a, 1>>)
  /\ Goto(a, "release")
  /\ UNCHANGED <<completed, cancelToken, cancelHandle, buffer, futureRefs,
                 futureFreed, dying, futureHeld, tokenHeld, taken, attached, buffered>>

(* The handle is stored ...                                                 *)
StoreHandle(a) ==
  /\ At(a, "store")
  /\ IF buffered THEN buffer' = [buffer EXCEPT ![a] = a] /\ UNCHANGED cancelHandle
                     ELSE cancelHandle' = a /\ UNCHANGED buffer
  /\ Goto(a, "recheck")
  /\ UNCHANGED <<tokenVars, completed, cancelToken, futureRefs, futureFreed, dying,
                 futureHeld, tokenHeld, taken, attached, buffered>>

(* ... reaches memory ...                                                   *)
StoreDrains(a) ==
  /\ buffer[a] # NoNode
  /\ cancelHandle' = buffer[a]
  /\ buffer' = [buffer EXCEPT ![a] = NoNode]
  /\ UNCHANGED <<tokenVars, completed, cancelToken, futureRefs, futureFreed, dying,
                 futureHeld, tokenHeld, fpc, taken, attached, buffered>>

(* Mutants: no second look at is_completed; the handle is taken back        *)
(* whatever it says.                                                        *)
RecheckSkipped(a) ==
  /\ At(a, "recheck")
  /\ attached' = attached \cup {a}
  /\ Goto(a, "done")
  /\ UNCHANGED <<tokenVars, completed, cancelToken, cancelHandle, buffer, futureRefs,
                 futureFreed, dying, futureHeld, tokenHeld, taken, buffered>>

RecheckAlways(a) ==
  /\ At(a, "recheck")
  /\ attached' = attached \cup {a}
  /\ Goto(a, "take")
  /\ UNCHANGED <<tokenVars, completed, cancelToken, cancelHandle, buffer, futureRefs,
                 futureFreed, dying, futureHeld, tokenHeld, taken, buffered>>

(* ... and is_completed is loaded: a future completed inside the window     *)
(* found no handle to unregister.                                           *)
Recheck(a) ==
  /\ At(a, "recheck")
  /\ attached' = attached \cup {a}
  /\ Goto(a, IF completed THEN "take" ELSE "done")
  /\ UNCHANGED <<tokenVars, completed, cancelToken, cancelHandle, buffer, futureRefs,
                 futureFreed, dying, futureHeld, tokenHeld, taken, buffered>>

-----------------------------------------------------------------------------
(* The promise is fulfilled or abandoned.                                   *)
PromiseCompletes ==
  /\ At(Promise, "idle")
  /\ Goto(Promise, "claim")
  /\ UNCHANGED <<tokenVars, completed, cancelToken, cancelHandle, buffer, futureRefs,
                 futureFreed, dying, futureHeld, tokenHeld, taken, attached, buffered>>

(* Where a process goes after sFutureComplete, or after Attach's exchange.  *)
After(p) ==
  IF InCallback(p) THEN "return" ELSE IF p = Promise THEN "release" ELSE "done"

(* sFutureComplete: the exchange on is_completed ...                        *)
Claim(p) ==
  /\ At(p, "claim")
  /\ completed' = TRUE
  /\ Goto(p, IF completed THEN After(p) ELSE "take")
  /\ UNCHANGED <<tokenVars, cancelToken, cancelHandle, buffer, futureRefs, futureFreed,
                 dying, futureHeld, tokenHeld, taken, attached, buffered>>

(* ... the one on cancel_handle, as at the end of Attach: it empties the    *)
(* process's own store buffer first ...                                     *)
TakeHandle(p) ==
  /\ At(p, "take")
  /\ p \in Attachers => buffer[p] = NoNode
  /\ taken' = [taken EXCEPT ![p] = cancelHandle]
  /\ cancelHandle' = NoNode
  /\ Goto(p, IF cancelHandle = NoNode THEN After(p) ELSE "unregister")
  /\ UNCHANGED <<tokenVars, completed, cancelToken, buffer, futureRefs, futureFreed,
                 dying, futureHeld, tokenHeld, attached, buffered>>

(* ... and the unregistration of what it returned.                          *)
Unregister(p) ==
  /\ At(p, "unregister")
  /\ C!Unregister(<<p, IF InCallback(p) THEN 2 ELSE 1>>, taken[p])
  /\ taken' = [taken EXCEPT ![p] = NoNode]
  /\ Goto(p, After(p))
  /\ UNCHANGED <<completed, cancelToken, cancelHandle, buffer, futureRefs,
                 futureFreed, dying, futureHeld, tokenHeld, attached, buffered>>

-----------------------------------------------------------------------------
(* UfsrvFutureRelease: the decrement ...                                    *)
DropFuture(p) ==
  /\ futureRefs' = futureRefs - 1
  /\ dying' = IF futureRefs = 1 THEN p ELSE dying

Release(p) ==
  /\ At(p, "release")
  /\ DropFuture(p)
  /\ Goto(p, "done")
  /\ UNCHANGED <<tokenVars, completed, cancelToken, cancelHandle, buffer, futureFreed,
                 futureHeld, tokenHeld, taken, attached, buffered>>

CallerRelease ==
  /\ NoAttach
  /\ futureHeld
  /\ futureHeld' = FALSE
  /\ DropFuture(Caller)
  /\ UNCHANGED <<tokenVars, completed, cancelToken, cancelHandle, buffer, futureFreed,
                 tokenHeld, fpc, taken, attached, buffered>>

(* ... and for the last reference the token's, before the future is freed.  *)
FreeFuture(p) ==
  /\ dying = p
  /\ IF cancelToken THEN C!Destroy(<<p, 2>>) ELSE UNCHANGED tokenVars
  /\ dying' = "none" /\ futureFreed' = TRUE /\ cancelToken' = FALSE
  /\ UNCHANGED <<completed, cancelHandle, buffer, futureRefs, futureHeld, tokenHeld,
                 fpc, taken, attached, buffered>>

-----------------------------------------------------------------------------
(* The caller cancels, and gives up its token reference.                    *)
CallerCancel ==
  /\ At(Canceller, "idle")
  /\ tokenHeld
  /\ C!Cancel(<<Canceller, 1>>)
  /\ UNCHANGED futureVars

CallerDestroy ==
  /\ NoAttach
  /\ tokenHeld
  /\ C!Destroy(<<Caller, 1>>)
  /\ tokenHeld' = FALSE
  /\ UNCHANGED <<completed, cancelToken, cancelHandle, buffer, futureRefs,
                 futureFreed, dying, futureHeld, fpc, taken, attached, buffered>>

(* The token enters sFutureCancelCallback, from Cancel or inline ...        *)
CallbackEnter(p) ==
  /\ C!CallbackEnter(<<p, 1>>) \/ C!InlineEnter(<<p, 1>>)
  /\ Goto(p, "claim")
  /\ UNCHANGED <<completed, cancelToken, cancelHandle, buffer, futureRefs,
                 futureFreed, dying, futureHeld, tokenHeld, taken, attached, buffered>>

(* ... and goes on when it has returned.                                    *)
CallbackReturn(p) ==
  /\ At(p, "return")
  /\ C!CallbackReturn(<<p, 1>>) \/ C!InlineReturn(<<p, 1>>)
  /\ Goto(p, IF p = Canceller THEN "idle" ELSE "store")
  /\ UNCHANGED <<completed, cancelToken, cancelHandle, buffer, futureRefs,
                 futureFreed, dying, futureHeld, tokenHeld, taken, attached, buffered>>

(* sNodeFree runs sFutureCancelRelease, which drops the future's reference; *)
(* it goes on when that has returned.                                       *)
NodeFree(p, i) ==
  /\ C!NodeFree(<<p, i>>)
  /\ DropFuture(p)
  /\ UNCHANGED <<completed, cancelToken, cancelHandle, buffer, futureFreed,
                 futureHeld, tokenHeld, fpc, taken, attached, buffered>>

TokenRelease(p, i) ==
  /\ dying # p
  /\ i = 1 => pc[<<p, 2>>] = "idle"
  /\ C!TokenRelease(<<p, i>>)
  /\ UNCHANGED futureVars

(* Token code that runs without leaving the token.                          *)
TokenStep(p, i) ==
  /\ C!RegisterLink(<<p, i>>) \/ C!RegisterLate(<<p, i>>) \/ C!TokenReclaim(<<p, i>>)
  /\ UNCHANGED futureVars

-----------------------------------------------------------------------------
(* Nothing is under way.                                                    *)
Idle == NoAttach /\ \A p \in Procs : fpc[p] \in {"idle", "done"} /\ Returned(p)

Gone == Idle /\ fpc[Promise] = "done" /\ ~futureHeld /\ ~tokenHeld

Finished == Gone /\ UNCHANGED vars

AttachStep(a) ==
  \/ AttachCheck(a) \/ AttachCas(a) \/ RetainToken(a) \/ RetainFuture(a)
  \/ Register(a) \/ RegisterFails(a) \/ RollBack(a)
  \/ StoreHandle(a) \/ StoreDrains(a) \/ Recheck(a)

Step(p) ==
  \/ Claim(p) \/ TakeHandle(p) \/ Unregister(p) \/ Release(p) \/ FreeFuture(p)
  \/ CallbackEnter(p) \/ CallbackReturn(p)
  \/ \E i \in {1, 2} : NodeFree(p, i) \/ TokenRelease(p, i) \/ TokenStep(p, i)

Next ==
  \/ \E a \in Attachers : AttachStep(a)
  \/ \E p \in Procs : Step(p)
  \/ PromiseCompletes \/ CallerCancel \/ CallerRelease \/ CallerDestroy
  \/ Finished

Spec == Init /\ [][Next]_vars

-----------------------------------------------------------------------------
(* Type invariant.                                                          *)
TypeOK ==
  /\ C!TypeOK
  /\ {completed, cancelToken, futureFreed, futureHeld, tokenHeld, buffered} \subseteq BOOLEAN
  /\ cancelHandle \in Attachers \cup {NoNode}
  /\ buffer \in [Attachers -> Attachers \cup {NoNode}]
  /\ futureRefs \in Nat
  /\ dying \in Procs \cup {"none"}
  /\ taken \in [Procs -> Attachers \cup {NoNode}]
  /\ attached \subseteq Attachers

(* "Retains the future for the lifetime of the cancel callback, so a cancel *)
(* that fires after the future was otherwise released is still safe": the   *)
(* future is freed only when no node carries it as its context, no callback *)
(* or hook runs on it and no call is inside it.                             *)
FutureOutlivesUsers ==
  /\ TypeOK
  /\ futureFreed \/ dying # "none" =>
       /\ ~futureHeld
       /\ \A a \in Attachers : mem[a] # "live" /\ buffer[a] = NoNode
       /\ \A p \in Procs : fpc[p] \in {"idle", "done"}

(* "The token lives until both drop it": a token attached to a future is    *)
(* not freed before the future lets go of it, whatever its caller does.     *)
TokenOutlivesFuture ==
  /\ tokenFreed => ~cancelToken
  /\ C!TokenOutlivesUsers /\ C!NoDanglingNode

(* "Makes the future complete with ECANCELED when the token fires, racing   *)
(* the promise": once Attach has returned true and Cancel is over, the      *)
(* future is completed, also when Cancel ran inside the registration.       *)
CancelCompletes ==
  attached # {} /\ isCancelled /\ pc[<<Canceller, 1>>] = "idle" => completed

(* "Is released when the future completes, so a completed future is not     *)
(* pinned by its token": with nothing under way, a completed future has no  *)
(* registration left, on whichever side of the window the completion fell.  *)
CompletedIsDetached ==
  completed /\ Idle => cancelHandle = NoNode /\ handles = {}

(* So it is where a load does not overtake the store before it: exactly one *)
(* side of the window unregisters the handle.  Then also the cycle future,  *)
(* token, node, future is broken: when the promise is completed and the     *)
(* caller has given up both references, all three are freed.                *)
NothingLeaks ==
  ~buffered =>
    /\ CompletedIsDetached
    /\ Gone => futureFreed /\ tokenFreed /\ \A a \in Attachers : mem[a] # "live"
=============================================================================
