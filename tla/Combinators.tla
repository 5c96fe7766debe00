---------------------------- MODULE Combinators -----------------------------
(***************************************************************************)
(* UfsrvFutureAll, UfsrvFutureAny and UfsrvFutureZip of ufsrv_future.c:    *)
(* one call over an array of input futures, each completed by a thread of  *)
(* its own while the caller still registers on the rest.                   *)
(*                                                                         *)
(* An input is what module Future shows of one: it completes once, and a   *)
(* continuation is stacked and run by the completer, or run at once by the *)
(* caller when the input is ready.  A step of a continuation is one atomic *)
(* operation on the shared context.  Settling the output promise and       *)
(* destroying it is one step: the output is a Future of its own.           *)
(*                                                                         *)
(* The same input may occur twice.  An operator elsewhere may take an      *)
(* input's value before a continuation runs.  The caller holds a reference *)
(* on every input until the call returns and may drop it then.             *)
(***************************************************************************)
EXTENDS Integers, Sequences, Functions

CONSTANTS MaxInputs, MaxCount  \* bounds: futures, entries of the array

ASSUME CombinatorsAssumption == MaxInputs \in Nat /\ MaxCount \in Nat

Inputs == 1..MaxInputs  \* the futures, and the threads that complete them
Null == 0               \* a NULL entry of the array
Caller == 0
Procs == {Caller} \cup Inputs
Kinds == {"all", "any", "zip"}
OK == "ok"         \* a success
ERR == "error"     \* the error an input failed with
EINVAL == "EINVAL"
Moved == "moved"   \* a result zeroed by the operator that took it
None == "none"     \* no result yet

VARIABLES
  kind, slots,       \* the combinator called, and its array
  result, consumed,  \* input -> its result; the inputs with is_consumed
  stack, chain,      \* input -> the entries registered on it; those its completer has to run
  refs, callerHolds, \* input -> its refcount; the caller still has its references
  context,           \* the shared context: "none", "live" or "freed"
  remaining, flag,   \* context->remaining; context->failed or context->claimed
  first,             \* zip: entry -> the copy of the input's result
  at,                \* process -> what it does next, for which entry, to settle with what
  outcome, settles,  \* the output's result; history: times its promise was settled
  refused, null,     \* history: the entries refused; the call returned NULL
  was                \* history: input -> what it completed with

inputVars == <<result, consumed, stack, chain, was>>
refVars == <<refs, callerHolds>>
ctxVars == <<context, remaining, flag, first>>
outVars == <<outcome, settles, null>>
vars == <<kind, slots, inputVars, refVars, ctxVars, at, outVars, refused>>

Count == Len(slots)
Idle == [pc |-> "idle", slot |-> 0, give |-> None]

(* The call is made; futures are numbered as they come up in the array.     *)
Init ==
  /\ kind \in Kinds
  /\ slots \in UNION {[1..n -> Inputs \cup {Null}] : n \in 0..MaxCount}
  /\ \A i \in 1..Count : slots[i] > 1 => \E k \in 1..(i - 1) : slots[k] = slots[i] - 1
  /\ kind = "zip" => Count = 2 /\ Null \notin Range(slots)
  /\ result = [f \in Inputs |-> None] /\ was = result /\ consumed = {}
  /\ stack = [f \in Inputs |-> <<>>] /\ chain = stack
  /\ refs = [f \in Inputs |-> 2] /\ callerHolds = TRUE
  /\ context = "none" /\ remaining = 0 /\ flag = FALSE
  /\ first = [i \in 1..Count |-> None]
  /\ at = [p \in Procs |-> IF p = Caller THEN [Idle EXCEPT !.pc = "start"] ELSE Idle]
  /\ outcome = None /\ settles = 0 /\ null = FALSE /\ refused = {}

Become(p, l, i, r) == at' = [at EXCEPT ![p] = [pc |-> l, slot |-> i, give |-> r]]
Goto(p, l) == at' = [at EXCEPT ![p].pc = l]
At(p, l) == at[p].pc = l
Slot(p) == at[p].slot
Used == Inputs \cap Range(slots)
Input(p) == slots[Slot(p)]
Ready(f) == result[f] # None

-----------------------------------------------------------------------------
(* References zip takes on its inputs; the same input may be both.          *)
Retained(f) ==
  IF kind # "zip" \/ f \notin Range(slots) THEN 0 ELSE IF slots[1] = slots[2] THEN 2 ELSE 1

RetainInput(f) == refs[f] + Retained(f)

(* An empty array succeeds at once; without memory the call returns NULL.   *)
StartEmpty ==
  /\ At(Caller, "start") /\ Count = 0
  /\ outcome' = OK /\ settles' = 1
  /\ Goto(Caller, "returned")
  /\ UNCHANGED <<kind, slots, inputVars, refVars, ctxVars, null, refused>>

StartFails ==
  /\ At(Caller, "start")
  /\ null' = TRUE
  /\ Goto(Caller, "returned")
  /\ UNCHANGED <<kind, slots, inputVars, refVars, ctxVars, outcome, settles, refused>>

(* Otherwise the context is made, and zip retains its inputs.               *)
Start ==
  /\ At(Caller, "start") /\ Count > 0
  /\ context' = "live" /\ remaining' = Count
  /\ refs' = [f \in Inputs |-> RetainInput(f)]
  /\ Become(Caller, "register", 1, None)
  /\ UNCHANGED <<kind, slots, inputVars, callerHolds, flag, first, outVars, refused>>

(* Where a process goes when it is done with an entry.                      *)
Resume(p) ==
  IF p # Caller THEN Become(p, "drain", 0, None)
  ELSE IF Slot(p) < Count THEN Become(p, "register", Slot(p) + 1, None)
  ELSE Become(p, "returned", 0, None)

(* UfsrvFutureThen on the next entry: at once, stacked, or refused for want *)
(* of memory (any also makes a registration first) or of a future.          *)
RunInline ==
  /\ At(Caller, "register") /\ Input(Caller) # Null /\ Ready(Input(Caller))
  /\ Goto(Caller, "run")
  /\ UNCHANGED <<kind, slots, inputVars, refVars, ctxVars, outVars, refused>>

Push ==
  LET f == Input(Caller) IN
  /\ At(Caller, "register") /\ f # Null /\ ~Ready(f)
  /\ stack' = [stack EXCEPT ![f] = <<Slot(Caller)>> \o @]
  /\ Resume(Caller)
  /\ UNCHANGED <<kind, slots, result, consumed, chain, was, refVars, ctxVars, outVars, refused>>

(* A refused entry of all fails the output; of any it counts as reported;   *)
(* zip gives up.                                                            *)
RefusedAll ==
  /\ kind = "all"
  /\ flag' = TRUE
  /\ Become(Caller, IF flag THEN "sub" ELSE "settle", Slot(Caller), EINVAL)
  /\ UNCHANGED null

RefusedAny == kind = "any" /\ Goto(Caller, "sub") /\ UNCHANGED <<flag, null>>

RefusedZip ==
  kind = "zip" /\ null' = TRUE /\ Become(Caller, "returned", 0, None) /\ UNCHANGED flag

Refuse ==
  LET f == Input(Caller) IN
  /\ At(Caller, "register") /\ (f \in Inputs /\ kind # "any" => ~Ready(f))
  /\ refused' = refused \cup {Slot(Caller)}
  /\ RefusedAll \/ RefusedAny \/ RefusedZip
  /\ UNCHANGED <<kind, slots, inputVars, refVars, context, remaining, first, outcome, settles>>

-----------------------------------------------------------------------------
(* An input's promise is fulfilled or abandoned, by a thread that then runs *)
(* what was stacked and drops the promise's reference.                      *)
Complete(f, r) ==
  /\ At(f, "idle") /\ f \in Used
  /\ result' = [result EXCEPT ![f] = r] /\ was' = [was EXCEPT ![f] = r]
  /\ chain' = [chain EXCEPT ![f] = stack[f]] /\ stack' = [stack EXCEPT ![f] = <<>>]
  /\ Goto(f, "drain")
  /\ UNCHANGED <<kind, slots, consumed, refVars, ctxVars, outVars, refused>>

Drain(f) ==
  /\ At(f, "drain")
  /\ IF chain[f] = <<>>
       THEN /\ refs' = [refs EXCEPT ![f] = @ - 1]
            /\ Become(f, "done", 0, None)
            /\ UNCHANGED chain
       ELSE /\ chain' = [chain EXCEPT ![f] = Tail(@)]
            /\ Become(f, "run", Head(chain[f]), None)
            /\ UNCHANGED refs
  /\ UNCHANGED <<kind, slots, result, consumed, stack, was, callerHolds, ctxVars, outVars, refused>>

(* Another operator's move of the input's result.                           *)
Take(f) ==
  /\ Ready(f) /\ refs[f] > 0 /\ f \notin consumed
  /\ consumed' = consumed \cup {f} /\ result' = [result EXCEPT ![f] = Moved]
  /\ UNCHANGED <<kind, slots, stack, chain, was, refVars, ctxVars, at, outVars, refused>>

CallerRelease ==
  /\ At(Caller, "returned") /\ callerHolds
  /\ callerHolds' = FALSE /\ refs' = [f \in Inputs |-> refs[f] - 1]
  /\ UNCHANGED <<kind, slots, inputVars, ctxVars, at, outVars, refused>>

-----------------------------------------------------------------------------
(* The continuations up to their first operation on the context.            *)
(* sAllContinuation: the first error wins the exchange on failed; SetError  *)
(* then reads it again.                                                     *)
RunAll(p) ==
  /\ kind = "all"
  /\ IF result[Input(p)] = ERR /\ ~flag
       THEN flag' = TRUE /\ Become(p, "settle", Slot(p), ERR)
       ELSE Goto(p, "sub") /\ UNCHANGED flag
  /\ UNCHANGED first

(* sAnyContinuation: the first to report wins the exchange on claimed.      *)
RunAny(p) ==
  /\ kind = "any"
  /\ flag' = TRUE
  /\ Goto(p, IF flag THEN "sub" ELSE "consume")
  /\ UNCHANGED first

(* sZipFirstContinuation and sZipSecondContinuation copy the result.        *)
RunZip(p) ==
  /\ kind = "zip"
  /\ first' = [first EXCEPT ![Slot(p)] = result[Input(p)]]
  /\ Goto(p, "sub")
  /\ UNCHANGED flag

Run(p) ==
  /\ At(p, "run")
  /\ RunAll(p) \/ RunAny(p) \/ RunZip(p)
  /\ UNCHANGED <<kind, slots, inputVars, refVars, context, remaining, outVars, refused>>

(* Any's winner takes the result, unless another operator has.              *)
Consume(p) ==
  LET f == Input(p) IN
  /\ At(p, "consume")
  /\ Become(p, "settle", Slot(p), IF f \in consumed THEN EINVAL ELSE result[f])
  /\ consumed' = consumed \cup {f}
  /\ result' = [result EXCEPT ![f] = Moved]
  /\ UNCHANGED <<kind, slots, stack, chain, was, refVars, ctxVars, outVars, refused>>

(* All's SetError(out_promise, result_ptr->error): the second read finds    *)
(* error 0, which the caller reads as a success, if an operator elsewhere   *)
(* has taken the result since the test.                                     *)
Given(p) == IF kind = "all" /\ at[p].give = ERR THEN result[Input(p)] ELSE at[p].give

(* PromiseSet... and PromiseDestroy; who settles last also frees.           *)
Settle(p) ==
  /\ At(p, "settle") \/ At(p, "last_settle")
  /\ outcome' = IF settles = 0 THEN Given(p) ELSE outcome
  /\ settles' = settles + 1
  /\ Goto(p, IF At(p, "settle") THEN "sub" ELSE "free")
  /\ UNCHANGED <<kind, slots, inputVars, refVars, ctxVars, null, refused>>

(* Mutant: the entry that finds one left takes itself for the last.         *)
LastButOne == remaining <= 2

(* fetch_sub returned one.                                                  *)
IsLast == remaining = 1

Sub(p) ==
  /\ At(p, "sub")
  /\ remaining' = remaining - 1
  /\ IF IsLast THEN Goto(p, "last") ELSE Resume(p)
  /\ UNCHANGED <<kind, slots, inputVars, refVars, context, flag, first, outVars, refused>>

(* Mutant: zip looks at its first input's error only.                       *)
ZippedByFirst == IF first[1] = ERR THEN {ERR} ELSE {OK, "zip_failed"}

(* sZipComplete: the first error, or what the zipper returns.               *)
Zipped ==
  IF \E i \in 1..Count : first[i] = ERR THEN {ERR} ELSE {OK, "zip_failed"}

(* What the last entry settles with, if nobody has: all succeeded; every    *)
(* entry of any was refused; zip has both results.                          *)
LastOutcome ==
  IF flag THEN {None}
  ELSE CASE kind = "zip" -> Zipped
         [] kind = "all" -> {OK}
         [] kind = "any" -> {EINVAL}

(* Mutant: the last entry of all waits for an error.                        *)
LastWaits(p) ==
  /\ At(p, "last")
  /\ IF kind = "all" /\ ~flag THEN UNCHANGED at
       ELSE \E r \in LastOutcome :
              Become(p, IF r = None THEN "free" ELSE "last_settle", Slot(p), r)
  /\ UNCHANGED <<kind, slots, inputVars, refVars, ctxVars, outVars, refused>>

Last(p) ==
  /\ At(p, "last")
  /\ \E r \in LastOutcome :
       Become(p, IF r = None THEN "free" ELSE "last_settle", Slot(p), r)
  /\ UNCHANGED <<kind, slots, inputVars, refVars, ctxVars, outVars, refused>>

Free(p) ==
  /\ At(p, "free")
  /\ context' = "freed"
  /\ IF kind = "zip" THEN Become(p, "release", Slot(p), None) ELSE Resume(p)
  /\ UNCHANGED <<kind, slots, inputVars, refVars, remaining, flag, first, outVars, refused>>

(* Mutant: zip keeps its references.                                        *)
KeepInputs(p) ==
  /\ At(p, "release")
  /\ Resume(p)
  /\ UNCHANGED <<kind, slots, inputVars, refVars, ctxVars, outVars, refused>>

(* Zip gives its references on the inputs back.                             *)
ReleaseInputs(p) ==
  /\ At(p, "release")
  /\ refs' = [f \in Inputs |-> refs[f] - Retained(f)]
  /\ Resume(p)
  /\ UNCHANGED <<kind, slots, inputVars, callerHolds, ctxVars, outVars, refused>>

-----------------------------------------------------------------------------
Finished ==
  /\ At(Caller, "returned")
  /\ \A f \in Used : At(f, "done")
  /\ UNCHANGED vars

Step(p) ==
  \/ Run(p) \/ Consume(p) \/ Settle(p) \/ Sub(p) \/ Last(p) \/ Free(p) \/ ReleaseInputs(p)
  \/ p = Caller /\ (StartEmpty \/ StartFails \/ Start \/ RunInline \/ Push \/ Refuse)
  \/ p \in Inputs /\ Drain(p)

Next ==
  \/ \E p \in Procs : Step(p)
  \/ CallerRelease
  \/ \E f \in Inputs : Take(f) \/ \E r \in {OK, ERR} : Complete(f, r)
  \/ Finished

(* A call and a completion that began run on; nobody has to complete.       *)
Spec == Init /\ [][Next]_vars /\ \A p \in Procs : WF_vars(Step(p))

-----------------------------------------------------------------------------
(* What a process may be at.                                                *)
HolderPCs == {"run", "consume", "settle", "sub", "last", "last_settle", "free", "release"}
CallerPCs == {"start", "register", "returned"}
InputPCs == {"idle", "drain", "done"}
PCs(p) == HolderPCs \cup IF p = Caller THEN CallerPCs ELSE InputPCs
Gives == {None, OK, ERR, EINVAL, Moved, "zip_failed"}

(* Type invariant.                                                          *)
TypeOK ==
  /\ context \in {"none", "live", "freed"} /\ remaining \in 0..MaxCount
  /\ flag \in BOOLEAN /\ null \in BOOLEAN
  /\ result \in [Inputs -> {None, OK, ERR, Moved}]
  /\ refs \in [Inputs -> Nat]
  /\ outcome \in Gives
  /\ at \in [Procs -> [pc : HolderPCs \cup CallerPCs \cup InputPCs,
                      slot : 0..Count, give : Gives]]
  /\ \A p \in Procs : at[p].pc \in PCs(p)

(* The entries that will still report to the context.                       *)
Ending(p) == at[p].pc \in {"last", "last_settle", "free"}
Working(p) == at[p].pc \in {"run", "consume", "settle", "sub"}
Waiting(i) == \E f \in Inputs : i \in Range(stack[f]) \cup Range(chain[f])
Due(i) == Waiting(i) \/ \E p \in Procs : Working(p) /\ Slot(p) = i
Unregistered(i) ==
  \/ At(Caller, "register") /\ i >= Slot(Caller)
  \/ i > Slot(Caller) /\ at[Caller].pc \notin {"returned", "start"}

(* The counter protocol: the context is freed by whoever reports last, once *)
(* nobody has it in a stack, a chain, its hands or its loop, and an input a *)
(* continuation runs on, or zip's callback reads, is not freed before, even *)
(* if the caller released it as soon as the call returned.                  *)
ContextOutlivesUsers ==
  /\ TypeOK
  /\ context = "freed" => \A i \in 1..Count : ~Due(i) /\ ~Unregistered(i)
  /\ \A p, q \in Procs : Ending(p) => context = "live" /\ (Ending(q) => p = q)
  /\ \A p \in Procs :
       /\ Working(p) /\ Input(p) # Null => refs[Input(p)] > 0
       /\ kind = "zip" /\ Ending(p) => \A i \in 1..Count : refs[slots[i]] > 0

Succeeded(i) == slots[i] # Null /\ was[slots[i]] = OK
Failed(i) == slots[i] # Null /\ was[slots[i]] = ERR

(* "Completes when every input has succeeded, or with the first error":     *)
(* the promise, destroyed as soon as it is settled, is settled once; the    *)
(* outcome of all and of zip agrees with every entry, that of any with some *)
(* entry; EINVAL means a refused entry or a value taken elsewhere.  A       *)
(* zeroed outcome, which the caller of all cannot tell from a success, only *)
(* comes of an input that failed and whose error was taken elsewhere, and   *)
(* never of any or zip.                                                     *)
RightOutcome ==
  LET E == 1..Count IN
  /\ settles <= 1
  /\ kind \in {"all", "zip"} /\ outcome = OK /\ Count > 0 =>
       \A i \in E : i \notin refused /\ (Succeeded(i) \/ slots[i] \in consumed)
  /\ outcome = ERR => \E i \in E : Failed(i)
  /\ kind = "any" /\ outcome = OK /\ Count > 0 => \E i \in E : Succeeded(i)
  /\ outcome = EINVAL => refused # {} \/ \E i \in E : slots[i] \in consumed
  /\ outcome = Moved => kind = "all" /\ \E i \in E : Failed(i) /\ slots[i] \in consumed

(* When everybody is through, nothing is left: the context freed, the       *)
(* output settled, only the caller's references on the inputs.  Zip with a  *)
(* refused entry is the exception the code's comment concedes.              *)
NothingLeaks ==
  /\ At(Caller, "returned") /\ \A f \in Used : At(f, "done")
  /\ ~(kind = "zip" /\ refused # {})
  => /\ context # "live" /\ (null \/ settles = 1)
     /\ \A f \in Used : refs[f] = (IF callerHolds THEN 1 ELSE 0)

(* An entry that settles the output alone: a refusal or an error of all,    *)
(* any's first report.                                                      *)
Decides(i) ==
  CASE kind = "all" -> i \in refused \/ (Due(i) /\ Failed(i))
    [] kind = "any" -> Due(i) /\ i \notin refused /\ Ready(slots[i])
    [] OTHER -> FALSE

(* No output hangs: it is settled when every input has completed, and       *)
(* already when one entry decides, while the others are still pending; only *)
(* an operator that takes an input's error can keep all waiting.            *)
OutputSettles ==
  /\ context = "live" /\ ~(kind = "zip" /\ refused # {}) /\
       (\A i \in 1..Count : i \in refused \/ (slots[i] # Null /\ Ready(slots[i])))
     ~> outcome # None
  /\ (\E i \in 1..Count : Decides(i)) ~> outcome # None \/ (kind = "all" /\ consumed # {})

-----------------------------------------------------------------------------
(* The inductive invariant behind the three.                                *)
Holds(p) == at[p].pc \in HolderPCs

ShapeInv ==
  /\ kind \in Kinds /\ slots \in Seq(Inputs \cup {Null}) /\ Count <= MaxCount
  /\ kind = "zip" => Count = 2 /\ Null \notin Range(slots)
  /\ first \in [1..Count -> {None, OK, ERR, Moved}] /\ refused \subseteq 1..Count
  /\ was \in [Inputs -> {None, OK, ERR}] /\ consumed \subseteq Inputs
  /\ DOMAIN stack = Inputs /\ DOMAIN chain = Inputs
  /\ \A p \in Procs : Holds(p) \/ At(p, "register") => Slot(p) # 0

(* Entries of zip that will never report: the call gave up on them.         *)
Abandoned(i) == kind = "zip" /\ \E j \in refused : i >= j
Registered(i) == (At(Caller, "returned") \/ i < Slot(Caller)) /\ ~Abandoned(i)
Pending == {i \in 1..Count : Due(i) \/ Unregistered(i) \/ Abandoned(i)}

(* An entry is registered on its own input, once.                           *)
InputInv ==
  \A f \in Inputs :
    /\ Ready(f) <=> ~At(f, "idle")
    /\ Ready(f) => stack[f] = <<>>
    /\ ~Ready(f) => was[f] = None
    /\ at[f].pc \in {"idle", "done"} => chain[f] = <<>>
    /\ result[f] = Moved => f \in consumed
    /\ result[f] \in {OK, ERR} => was[f] = result[f]
    /\ \A s \in {stack[f], chain[f]} :
         /\ s \in Seq(1..Count) /\ IsInjective(s)
         /\ \A i \in Range(s) : slots[i] = f /\ Registered(i)
    /\ Holds(f) =>
         Input(f) = f /\ Registered(Slot(f)) /\ Slot(f) \notin Range(chain[f])

CallerInv ==
  /\ at[Caller].pc \in {"run", "consume"} => Input(Caller) # Null /\ Ready(Input(Caller))
  /\ callerHolds \/ At(Caller, "returned")
  /\ kind = "zip" /\ refused # {} => At(Caller, "returned")
  /\ kind = "all" /\ refused # {} => flag

(* remaining counts the entries that have not reported.                     *)
CountInv ==
  /\ context = "none" =>
       /\ at[Caller].pc \in {"start", "returned"} /\ remaining = 0 /\ refused = {} /\ ~flag
       /\ \A f \in Inputs : ~Holds(f) /\ stack[f] = <<>> /\ chain[f] = <<>>
  /\ context # "none" => ~At(Caller, "start") /\ ExistsBijection(1..remaining, Pending)
  /\ context = "freed" => remaining = 0
  /\ context = "live" /\ remaining = 0 => \E p \in Procs : Ending(p)
  /\ \A p \in Procs : Ending(p) => context = "live" /\ remaining = 0
  /\ \A p \in Procs : At(p, "release") => kind = "zip" /\ context = "freed"
  /\ \A p, q \in Procs : (Ending(p) \/ At(p, "release")) /\ (Ending(q) \/ At(q, "release")) => p = q

Held == kind = "zip" /\ (context = "live" \/ \E p \in Procs : At(p, "release"))
RefInv ==
  \A f \in Inputs :
    refs[f] = (IF callerHolds THEN 1 ELSE 0) + (IF At(f, "done") THEN 0 ELSE 1)
                + (IF Held THEN Retained(f) ELSE 0)

(* Who won the exchange settles, or whoever is last.                        *)
Settling(p) == at[p].pc \in {"consume", "settle", "last_settle"}
SettleInv ==
  /\ settles \in {0, 1} /\ (settles = 0 => outcome = None)
  /\ \A p, q \in Procs : Settling(p) /\ Settling(q) => p = q
  /\ \A p \in Procs :
       /\ Settling(p) => settles = 0
       /\ at[p].pc \in {"consume", "settle"} => flag
       /\ At(p, "consume") => kind = "any"
       /\ At(p, "last_settle") => ~flag
       /\ At(p, "free") => settles = 1
  /\ flag => kind # "zip" /\ (settles = 0 => \E p \in Procs : at[p].pc \in {"consume", "settle"})
  /\ ~flag /\ settles = 1 =>
       Count = 0 \/ context = "freed" \/ \E p \in Procs : At(p, "free")
  /\ context = "freed" => settles = 1
  /\ context = "none" /\ At(Caller, "returned") => null \/ settles = 1
  /\ context = "none" /\ At(Caller, "start") => settles = 0
  /\ Count = 0 => context = "none"

(* What r says of the entries.                                              *)
AllTaken == \A i \in 1..Count : i \notin refused /\ (Succeeded(i) \/ slots[i] \in consumed)
Right(r) ==
  /\ r = OK /\ Count > 0 => IF kind = "any" THEN \E i \in 1..Count : Succeeded(i)
                            ELSE AllTaken /\ remaining = 0 /\ context # "none"
  /\ r = ERR => \E i \in 1..Count : Failed(i)
  /\ r = EINVAL => refused # {} \/ \E i \in 1..Count : slots[i] \in consumed
  /\ r = Moved => kind = "all" /\ \E i \in 1..Count : Failed(i) /\ slots[i] \in consumed

(* The error all's winner will read again is that of a failed entry.        *)
Rereads(p) == kind = "all" /\ at[p].give = ERR => Failed(Slot(p))

Reported(i) ==
  ~Waiting(i) /\ ~Unregistered(i) /\ \A p \in Procs : ~(At(p, "run") /\ Slot(p) = i)

(* What a reported entry leaves behind.                                     *)
Fine(i) ==
  /\ kind = "all" /\ ~flag => i \notin refused /\ (Succeeded(i) \/ slots[i] \in consumed)
  /\ kind = "any" /\ ~flag => i \in refused
  /\ kind = "zip" /\ ~Abandoned(i) =>
       /\ first[i] # None
       /\ first[i] = OK => Succeeded(i)
       /\ first[i] = ERR => Failed(i)
       /\ first[i] = Moved => slots[i] \in consumed

OutcomeInv ==
  /\ Right(outcome)
  /\ \A p \in Procs : at[p].pc \in {"settle", "last_settle"} => Right(at[p].give) /\ Rereads(p)
  /\ context # "none" => \A i \in 1..Count : Reported(i) => Fine(i)

IInv ==
  /\ TypeOK /\ ShapeInv /\ InputInv /\ CallerInv /\ CountInv /\ RefInv /\ SettleInv
  /\ OutcomeInv
=============================================================================
