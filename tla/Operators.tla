----------------------------- MODULE Operators ------------------------------
(***************************************************************************)
(* map, flatMap, onError and doOnSuccess of ufsrv_future.c: several calls  *)
(* on one input future, with the futures their callbacks return (inner     *)
(* futures, which two callbacks may share) and a cancellation token that   *)
(* the outputs, and flatMap's inner futures, inherit.                      *)
(*                                                                         *)
(* Futures are what module Future shows of them: completed once, their     *)
(* continuations run by whoever completes them, or by the caller when they *)
(* are ready.  Attaching a token is one step, as module Attach justifies.  *)
(* A process is a caller, named by its output, or the thread that          *)
(* completed a future, named by the future.                                *)
(***************************************************************************)
EXTENDS Integers, Sequences, FiniteSets, Functions

CONSTANTS
  Ops,     \* operator calls; each names its output future
  Inners,  \* futures the callbacks return
  In,      \* the input future
  Null

Sources == {In} \cup Inners
Futures == Sources \cup Ops

ASSUME OperatorsAssumption ==
  /\ IsFiniteSet(Futures) /\ Null \notin Futures
  /\ Ops \cap Sources = {} /\ In \notin Inners

Kinds == {"map", "flatMap", "onError", "doOnSuccess"}

(* A result is a value, named after the future or mapper it came from, a    *)
(* zeroed result, which reads as success, or an error.                      *)
None == "none"
Moved == "moved"
ECANCELED == "ECANCELED"
EINVAL == "EINVAL"
ERR == "error"    \* what a promise fails with
FAIL == "-1"      \* what a callback's NULL gives
Again == "again"  \* the input's error, to be read again
IsOk(r) == r \in Futures \cup {Moved}

VARIABLES
  kind,             \* op -> its kind
  result, consumed, \* future -> its result; the futures with is_consumed
  stack, chain,     \* future -> the ops stacked on it; those left to its completer
  fulfilled,        \* the sources whose promise was fulfilled
  token,            \* the futures with a cancel_token
  cancelled, list, walk, busy, \* the token: its flag, its registrations, those Cancel has to
                         \* call, and the future its callback may be draining
  at,               \* process -> what it does next, for which op, with which result and source
  context, ctxToken,\* op -> its context; the flatMap contexts holding a token reference
  inner,            \* op -> the future its callback returned
  settles,          \* history: op -> times its promise was settled
  made, freed,      \* history: the values made, those freed
  null, lost,       \* history: the ops that returned NULL; those an inner future refused
  covered,          \* history: the ops called on an input that had a token
  refused           \* history: the futures an attach was refused for

futVars == <<result, stack, chain, list, freed>>
attVars == <<token, refused>>
tokVars == <<attVars, cancelled, walk, busy>>
opVars == <<context, ctxToken, inner, settles, null, lost, covered>>
vars == <<kind, futVars, consumed, fulfilled, tokVars, at, opVars, made>>

Idle == [pc |-> "idle", op |-> Null, give |-> None, src |-> Null]

Init ==
  /\ kind \in [Ops -> Kinds]
  /\ result = [f \in Futures |-> None] /\ consumed = {} /\ fulfilled = {}
  /\ stack = [f \in Futures |-> <<>>] /\ chain = stack
  /\ token = {} /\ cancelled = FALSE /\ list = <<>> /\ walk = <<>> /\ busy = Null
  /\ at = [p \in Futures |-> Idle]
  /\ context = [o \in Ops |-> "none"] /\ ctxToken = {} /\ inner = [o \in Ops |-> Null]
  /\ settles = [o \in Ops |-> 0] /\ made = {} /\ freed = {}
  /\ null = {} /\ lost = {} /\ covered = {} /\ refused = {}

At(p, l) == at[p].pc = l
Op(p) == at[p].op
Become(p, l, o, r, s) == at' = [at EXCEPT ![p] = [pc |-> l, op |-> o, give |-> r, src |-> s]]
Goto(p, l) == at' = [at EXCEPT ![p].pc = l]

(* What a process does after a continuation: a caller goes on with its call.*)
Resume(p) ==
  IF p \in Ops THEN Become(p, "inherit", p, None, Null) ELSE Become(p, "idle", Null, None, Null)

(* The completer of f has run every continuation.                           *)
Drained(f) == f \in Ops \/ (chain[f] = <<>> /\ At(f, "idle"))

-----------------------------------------------------------------------------
(* Mutant: the value that came too late is forgotten.                       *)
FillLeaks(f, r) ==
  IF result[f] = None
    THEN /\ result' = [result EXCEPT ![f] = r]
         /\ chain' = [chain EXCEPT ![f] = stack[f]] /\ stack' = [stack EXCEPT ![f] = <<>>]
         /\ list' = SelectSeq(list, LAMBDA g : g # f)
         /\ UNCHANGED freed
    ELSE UNCHANGED futVars

(* sFutureComplete: the first result stays, its continuations are up and    *)
(* the token's registration goes; a later value is freed.                   *)
Fill(f, r) ==
  IF result[f] = None
    THEN /\ result' = [result EXCEPT ![f] = r]
         /\ chain' = [chain EXCEPT ![f] = stack[f]] /\ stack' = [stack EXCEPT ![f] = <<>>]
         /\ list' = SelectSeq(list, LAMBDA g : g # f)
         /\ UNCHANGED freed
    ELSE /\ freed' = freed \cup ({r} \cap Futures)
         /\ UNCHANGED <<result, chain, stack, list>>

(* A source's promise is fulfilled, with a value or an error, or born so by *)
(* FromValue or FromError.                                                  *)
Fulfil(f, r) ==
  /\ f \notin fulfilled
  /\ fulfilled' = fulfilled \cup {f}
  /\ made' = made \cup ({r} \cap Futures)
  /\ Fill(f, r)
  /\ UNCHANGED <<kind, consumed, tokVars, at, opVars>>

(* Mutant: attaching a cancelled token only registers.                      *)
AttachLate(f) ==
  IF f \in token \/ result[f] # None THEN UNCHANGED <<futVars, attVars>>
  ELSE /\ token' = token \cup {f}
       /\ list' = <<f>> \o list /\ UNCHANGED <<result, chain, stack, freed, refused>>

(* UfsrvFutureAttachCancellation: once, and not on a completed future; a    *)
(* cancelled token completes the future at once.                            *)
Attach(f) ==
  IF f \in token \/ result[f] # None THEN UNCHANGED <<futVars, attVars>>
  ELSE /\ token' = token \cup {f}
       /\ UNCHANGED refused
       /\ IF cancelled THEN Fill(f, ECANCELED)
            ELSE list' = <<f>> \o list /\ UNCHANGED <<result, chain, stack, freed>>

(* It returns false and leaves all as it was where the future has another   *)
(* token, or the registration fails and is rolled back.                     *)
AttachRefused(f) ==
  /\ f \notin token /\ result[f] = None
  /\ refused' = refused \cup {f}
  /\ UNCHANGED <<futVars, token>>

(* An operator's attach: the answer is not looked at.                       *)
AttachTo(f) == Attach(f) \/ AttachRefused(f)

AttachInput ==
  /\ In \notin token /\ result[In] = None
  /\ Attach(In)
  /\ UNCHANGED <<kind, consumed, fulfilled, cancelled, walk, busy, at, opVars, made>>

(* UfsrvCancellationTokenCancel, and the callbacks it runs one by one, each *)
(* with the continuations of the future it completes.                       *)
Cancel ==
  /\ ~cancelled
  /\ cancelled' = TRUE /\ walk' = list /\ list' = <<>>
  /\ UNCHANGED <<kind, result, stack, chain, freed, consumed, fulfilled, attVars, busy, at, opVars,
                 made>>

CancelNext ==
  /\ walk # <<>> /\ (busy \in Futures => Drained(busy))
  /\ walk' = Tail(walk)
  /\ busy' = IF result[Head(walk)] = None /\ stack[Head(walk)] # <<>> THEN Head(walk) ELSE Null
  /\ Fill(Head(walk), ECANCELED)
  /\ UNCHANGED <<kind, consumed, fulfilled, attVars, cancelled, at, opVars, made>>

-----------------------------------------------------------------------------
(* A call: output and context are made, or NULL is returned.  The rest of   *)
(* it, registration and inheritance, is the same for the four.              *)
Begin(o, k, holders) ==
  /\ kind[o] = k /\ At(o, "idle") /\ context[o] = "none" /\ o \notin null
  /\ \/ null' = null \cup {o} /\ UNCHANGED <<at, context, ctxToken, covered>>
     \/ /\ context' = [context EXCEPT ![o] = "live"]
        /\ ctxToken' = ctxToken \cup holders
        /\ covered' = IF In \in token THEN covered \cup {o} ELSE covered
        /\ Become(o, "then", o, None, Null)
        /\ UNCHANGED null
  /\ UNCHANGED <<kind, futVars, consumed, fulfilled, tokVars, inner, settles, lost, made>>

Map(o) == Begin(o, "map", {})

(* flatMap's context takes a reference on the input's token.                *)
FlatMap(o) == Begin(o, "flatMap", IF In \in token THEN {o} ELSE {})

OnError(o) == Begin(o, "onError", {})

DoOnSuccess(o) == Begin(o, "doOnSuccess", {})

(* The callback runs on a success and makes a value, or NULL.  An error is  *)
(* tested here, and read again for SetError.                                *)
RunMap(p, o, r) ==
  /\ kind[o] = "map"
  /\ \/ /\ ~IsOk(r)
        /\ Become(p, "settle", o, Again, Null)
        /\ UNCHANGED made
     \/ \E g \in {o, FAIL} :
          /\ IsOk(r)
          /\ Become(p, "settle", o, g, Null)
          /\ made' = made \cup ({g} \cap {o})
  /\ UNCHANGED inner

RunFlatMap(p, o, r) ==
  /\ kind[o] = "flatMap"
  /\ \/ ~IsOk(r) /\ Become(p, "settle", o, Again, Null) /\ UNCHANGED inner
     \/ IsOk(r) /\ Become(p, "settle", o, FAIL, Null) /\ UNCHANGED inner
     \/ \E n \in Inners :
          /\ IsOk(r)
          /\ inner' = [inner EXCEPT ![o] = n]
          /\ Become(p, "attach", o, None, n)
  /\ UNCHANGED made

(* A success is forwarded; on an error the recovery runs, and gives a       *)
(* future or NULL.                                                          *)
RunOnError(p, o, r) ==
  /\ kind[o] = "onError"
  /\ \/ IsOk(r) /\ Become(p, "consume", o, None, In) /\ UNCHANGED inner
     \/ ~IsOk(r) /\ Become(p, "settle", o, Again, Null) /\ UNCHANGED inner
     \/ \E n \in Inners :
          /\ ~IsOk(r)
          /\ inner' = [inner EXCEPT ![o] = n]
          /\ Become(p, "consume", o, None, n)
  /\ UNCHANGED made

RunDoOnSuccess(p, o, r) ==
  /\ kind[o] = "doOnSuccess"
  /\ Become(p, "consume", o, None, In)
  /\ UNCHANGED <<inner, made>>

(* A continuation call on the completed input.                              *)
Run(p, o) ==
  /\ \/ RunMap(p, o, result[In]) \/ RunFlatMap(p, o, result[In])
     \/ RunOnError(p, o, result[In]) \/ RunDoOnSuccess(p, o, result[In])
  /\ UNCHANGED <<kind, result, stack, list, freed, consumed, fulfilled, tokVars, context, ctxToken,
                 settles, null, lost, covered>>

(* sFutureThen on the input: at once, stacked, or refused.                  *)
ThenInline(o) ==
  /\ At(o, "then") /\ result[In] # None
  /\ Run(o, o)
  /\ UNCHANGED chain

(* Mutant: stacked without looking again whether the input is ready.        *)
ThenPushLate(o) ==
  /\ At(o, "then")
  /\ stack' = [stack EXCEPT ![In] = <<o>> \o @]
  /\ Resume(o)
  /\ UNCHANGED <<kind, result, chain, list, freed, consumed, fulfilled, tokVars, opVars, made>>

ThenPush(o) ==
  /\ At(o, "then") /\ result[In] = None
  /\ stack' = [stack EXCEPT ![In] = <<o>> \o @]
  /\ Resume(o)
  /\ UNCHANGED <<kind, result, chain, list, freed, consumed, fulfilled, tokVars, opVars, made>>

ThenRefused(o) ==
  /\ At(o, "then") /\ result[In] = None
  /\ context' = [context EXCEPT ![o] = "freed"] /\ null' = null \cup {o}
  /\ Become(o, "done", o, None, Null)
  /\ UNCHANGED <<kind, futVars, consumed, fulfilled, tokVars, ctxToken, inner, settles, lost,
                 covered, made>>

(* The output inherits the input's token.                                   *)
Inherit(o) ==
  /\ At(o, "inherit")
  /\ IF In \in token THEN AttachTo(o) ELSE UNCHANGED <<futVars, attVars>>
  /\ Become(o, "done", o, None, Null)
  /\ UNCHANGED <<kind, consumed, fulfilled, cancelled, walk, busy, opVars, made>>

-----------------------------------------------------------------------------
(* The continuation on an inner future: it moves the result on.             *)
MoveChain(f, o) ==
  /\ Become(f, "settle", o, result[f], f)
  /\ UNCHANGED <<kind, result, stack, list, freed, consumed, fulfilled, tokVars, opVars, made>>

(* Mutant: the continuation stays on the chain.                             *)
DrainKeeps(f) ==
  /\ At(f, "idle") /\ chain[f] # <<>>
  /\ IF f = In THEN Run(f, Head(chain[f])) ELSE MoveChain(f, Head(chain[f]))
  /\ UNCHANGED chain

(* A completer takes and calls its next continuation.                       *)
Drain(f) ==
  /\ At(f, "idle") /\ chain[f] # <<>>
  /\ IF f = In THEN Run(f, Head(chain[f])) ELSE MoveChain(f, Head(chain[f]))
  /\ chain' = [chain EXCEPT ![f] = Tail(@)]

(* flatMap hands its token on to the inner future, and lets go of it.       *)
AttachInner(p) ==
  /\ At(p, "attach")
  /\ IF Op(p) \in ctxToken THEN AttachTo(at[p].src) ELSE UNCHANGED <<futVars, attVars>>
  /\ ctxToken' = ctxToken \ {Op(p)}
  /\ Goto(p, IF result[at[p].src] = None /\ result'[at[p].src] # None THEN "await" ELSE "consume")
  /\ UNCHANGED <<kind, consumed, fulfilled, cancelled, walk, busy, context, inner, settles, null,
                 lost, covered, made>>

(* Attaching completed the inner future and ran its continuations.          *)
Await(p) ==
  /\ At(p, "await") /\ Drained(at[p].src)
  /\ Goto(p, "consume")
  /\ UNCHANGED <<kind, futVars, consumed, fulfilled, tokVars, opVars, made>>

(* Mutant: the input's flag is looked at, whatever is moved.                *)
ConsumeOfInput(p) ==
  LET s == at[p].src IN
  /\ At(p, "consume")
  /\ consumed' = consumed \cup {s}
  /\ IF In \in consumed THEN Become(p, "settle", Op(p), EINVAL, Null)
     ELSE IF s = In THEN Become(p, "settle", Op(p), result[s], s)
     ELSE Goto(p, "chain")
  /\ UNCHANGED <<kind, futVars, fulfilled, tokVars, opVars, made>>

(* sConsumeOnce: only the first operator may move a future's result.        *)
Consume(p) ==
  LET s == at[p].src IN
  /\ At(p, "consume")
  /\ consumed' = consumed \cup {s}
  /\ IF s \in consumed THEN Become(p, "settle", Op(p), EINVAL, Null)
     ELSE IF s = In THEN Become(p, "settle", Op(p), result[s], s)
     ELSE Goto(p, "chain")
  /\ UNCHANGED <<kind, futVars, fulfilled, tokVars, opVars, made>>

(* sFutureThen on the inner future, whose answer nobody looks at; the       *)
(* context is freed.                                                        *)
FreeContext(o) == context' = [context EXCEPT ![o] = "freed"]

ChainInline(p) ==
  /\ At(p, "chain") /\ result[at[p].src] # None
  /\ Become(p, "settle", Op(p), result[at[p].src], at[p].src)
  /\ UNCHANGED <<kind, futVars, consumed, fulfilled, tokVars, opVars, made>>

ChainPush(p) ==
  /\ At(p, "chain") /\ result[at[p].src] = None
  /\ stack' = [stack EXCEPT ![at[p].src] = <<Op(p)>> \o @]
  /\ FreeContext(Op(p)) /\ Resume(p)
  /\ UNCHANGED <<kind, result, chain, list, freed, consumed, fulfilled, tokVars, ctxToken, inner,
                 settles, null, lost, covered, made>>

ChainRefused(p) ==
  /\ At(p, "chain") /\ result[at[p].src] = None
  /\ lost' = lost \cup {Op(p)}
  /\ FreeContext(Op(p)) /\ Resume(p)
  /\ UNCHANGED <<kind, futVars, consumed, fulfilled, tokVars, ctxToken, inner, settles, null,
                 covered, made>>

(* sDropContextToken.                                                       *)
TokenDropped(o) == ctxToken \ {o}

(* The output's promise is settled and destroyed, the context freed ...     *)
(* SetError(out_promise, result_ptr->error) reads the input a second time,  *)
(* in onError after the user's recovery: an error that another operator has *)
(* moved meanwhile reads 0, and the output is a success.                    *)
Settle(p) ==
  LET o == Op(p) IN
  /\ At(p, "settle")
  /\ Fill(o, IF at[p].give = Again THEN result[In] ELSE at[p].give)
  /\ settles' = [settles EXCEPT ![o] = @ + 1]
  /\ FreeContext(o)
  /\ ctxToken' = TokenDropped(o)
  /\ IF at[p].src # Null THEN Goto(p, "zero") ELSE Resume(p)
  /\ UNCHANGED <<kind, consumed, fulfilled, tokVars, inner, null, lost, covered, made>>

(* ... and a moved result zeroed.                                           *)
Zero(p) ==
  /\ At(p, "zero")
  /\ result' = [result EXCEPT ![at[p].src] = Moved]
  /\ Resume(p)
  /\ UNCHANGED <<kind, stack, chain, list, freed, consumed, fulfilled, tokVars, opVars, made>>

-----------------------------------------------------------------------------
Step(p) ==
  \/ AttachInner(p) \/ Await(p) \/ Consume(p)
  \/ ChainInline(p) \/ ChainPush(p) \/ ChainRefused(p) \/ Settle(p) \/ Zero(p)
  \/ p \in Ops /\ (ThenInline(p) \/ ThenPush(p) \/ ThenRefused(p) \/ Inherit(p))
  \/ p \in Sources /\ Drain(p)

Through == walk = <<>> /\ \A p \in Futures : Drained(p) /\ at[p].pc \in {"idle", "done"}

Finished ==
  /\ Through /\ fulfilled = Sources /\ cancelled
  /\ \A o \in Ops : context[o] # "none" \/ o \in null
  /\ UNCHANGED vars

Next ==
  \/ \E o \in Ops : Map(o) \/ FlatMap(o) \/ OnError(o) \/ DoOnSuccess(o)
  \/ \E p \in Futures : Step(p)
  \/ \E f \in Sources, r \in Sources \cup {ERR} : r \in {f, ERR} /\ Fulfil(f, r)
  \/ AttachInput \/ Cancel \/ CancelNext
  \/ Finished

Spec == Init /\ [][Next]_vars

-----------------------------------------------------------------------------
(* Type invariant.                                                          *)
TypeOK ==
  /\ \A f \in Futures :
       result[f] \in Futures \cup {None, Moved, ECANCELED, EINVAL, ERR, FAIL}
  /\ consumed \subseteq Sources /\ token \subseteq Futures /\ ctxToken \subseteq Ops
  /\ \A p \in Futures : Op(p) \in Ops \cup {Null} /\ at[p].src \in Sources \cup {Null}
  /\ context \in [Ops -> {"none", "live", "freed"}]

(* An operator's promise is settled at most once, by its own continuation   *)
(* or by the inner future's, and its context is there while anybody who     *)
(* will use it is.  Freed, it holds no token reference, unless the          *)
(* registration on the input was refused.                                   *)
ContextOutlivesUsers ==
  /\ TypeOK
  /\ \A o \in Ops :
    /\ settles[o] <= 1
    /\ o \in ctxToken /\ context[o] = "freed" => o \in null
    /\ o \in Range(stack[In]) \cup Range(chain[In]) => context[o] = "live"
    /\ \A p \in Futures :
         Op(p) = o /\ at[p].pc \in {"then", "attach", "await", "consume", "chain"}
           => context[o] = "live"

(* Where a value is: in a result that is not about to be zeroed, or freed.  *)
Places(v) ==
  Cardinality({f \in Futures :
                 result[f] = v /\ \A p \in Futures : ~(At(p, "zero") /\ at[p].src = f)})
  + IF v \in freed THEN 1 ELSE 0

(* "A value is released exactly once": whatever moves it, and whether its   *)
(* new owner was cancelled meanwhile, a value is in one place at most, and  *)
(* in one when nothing is under way.                                        *)
ValueInOnePlace ==
  \A v \in made : Places(v) <= 1 /\ (Through => Places(v) = 1)

(* "Propagate cancellation across the async boundary": after Cancel has     *)
(* run, every future with the token is completed, and so are the output of  *)
(* every operator called on a future with the token and the inner future    *)
(* flatMap went on to.  Where the attach was refused, which no operator     *)
(* notices, an inner future is not reached, nor an output that waits for    *)
(* one; any other output fails through its input.                           *)
CancelReaches ==
  cancelled /\ walk = <<>> =>
    /\ \A f \in token : result[f] # None
    /\ \A o \in covered \ null : At(o, "done") =>
         /\ \/ result[o] # None
            \/ o \in refused /\ (Through => inner[o] # Null)
         /\ kind[o] = "flatMap" /\ context[o] = "freed" /\ inner[o] # Null
              => result[inner[o]] # None \/ inner[o] \in refused

(* The future whose result op o moves on.                                   *)
Source(o) == IF inner[o] # Null THEN inner[o] ELSE In

(* An output has the result of the future it was to move, the value its own *)
(* callback made or an error; it fails with EINVAL only where another       *)
(* operator came for the same future.  It is a zeroed result, a success     *)
(* without a value, only where doOnSuccess moved the input's error between  *)
(* the test and the second read: never for doOnSuccess itself, for a        *)
(* recovered onError, or on an input whose value is still to be had.        *)
RightOutcome ==
  \A o \in Ops :
    /\ result[o] \in Sources => result[o] = Source(o) /\ kind[o] # "map"
    /\ result[o] \in Ops => result[o] = o /\ kind[o] = "map"
    /\ result[o] = EINVAL => \E q \in Ops \ {o} :
         kind[q] # "map" /\ context[q] # "none" /\ Source(q) = Source(o)
    /\ result[o] = Moved =>
         /\ kind[o] # "doOnSuccess" /\ inner[o] = Null
         /\ In \in made => In \in freed
         /\ \E q \in Ops \ {o} : kind[q] = "doOnSuccess" /\ context[q] = "freed"

(* No output hangs: with the sources fulfilled and nothing under way it is  *)
(* settled, unless an inner future refused the registration whose failure   *)
(* nobody looks at.                                                         *)
NothingHangs ==
  Through /\ fulfilled = Sources =>
    \A o \in Ops \ (lost \cup null) : context[o] # "none" => result[o] # None /\ settles[o] = 1
=============================================================================
