---------------------------- MODULE Cancellation ----------------------------
(***************************************************************************)
(* The cancellation token: ufsrv_cancellation.c.                           *)
(*                                                                         *)
(* One token and the callback nodes registered on it.  A node carries two  *)
(* references, the registration handle's and the token list's; every node  *)
(* holds one reference on the token.  Each section the code runs under the *)
(* token lock is one step, and so is each atomic read-modify-write and     *)
(* each piece of user code (callback, release hook) it calls unlocked.     *)
(* The intrusive list is the sequence of its nodes, head first.            *)
(*                                                                         *)
(* A call made from inside a callback is a call of another thread confined *)
(* to the callback's duration: no lock is held across user code.           *)
(* Calls that return without effect (NULL arguments, a failed allocation,  *)
(* IsCancelled, the second Cancel) are stuttering steps.                   *)
(***************************************************************************)
EXTENDS Integers, Sequences, Functions

CONSTANTS
  Threads,    \* threads that call into the library
  Nodes,      \* callback nodes; each is allocated at most once
  HookNodes,  \* the nodes registered through RegisterEx with a release hook
  MaxRefs,    \* bound: references on the token held by callers at one time
  NoNode      \* cb[t] of a thread that handles no node

ASSUME CancellationAssumption ==
  /\ HookNodes \subseteq Nodes
  /\ NoNode \notin Nodes
  /\ MaxRefs \in Nat \ {0}

VARIABLES
  tokenRefs,    \* token->refcount
  tokenFreed,   \* free(token) has run
  isCancelled,  \* token->is_cancelled
  list,         \* token->head and the links behind it
  callerRefs,   \* references owned outside the nodes: creator, futures, contexts
  mem,          \* node -> "unused", "live", "freed"
  refcount,     \* cb->refcount
  active,       \* the nodes with cb->active set
  claimed,      \* the nodes with cb->claimed set
  handles,      \* nodes whose handle was returned and not yet unregistered
  pc,           \* what each thread does next
  cb,           \* the node it does it to
  walk,         \* the rest of the chain Cancel detached
  fired,        \* history: times the callback was entered
  won,          \* history: the nodes Unregister returned true for
  released      \* history: times release_context ran

tokenVars == <<tokenRefs, tokenFreed, isCancelled, list, callerRefs>>
nodeVars == <<mem, refcount, active, claimed>>
threadVars == <<handles, pc, cb, walk>>
history == <<fired, won, released>>
vars == <<tokenVars, nodeVars, threadVars, history>>

Init ==
  /\ tokenRefs = 1
  /\ tokenFreed = FALSE
  /\ isCancelled = FALSE
  /\ list = <<>>
  /\ callerRefs = 1
  /\ mem = [n \in Nodes |-> "unused"]
  /\ refcount = [n \in Nodes |-> 0]
  /\ active = {}
  /\ claimed = {}
  /\ handles = {}
  /\ pc = [t \in Threads |-> "idle"]
  /\ cb = [t \in Threads |-> NoNode]
  /\ walk = [t \in Threads |-> <<>>]
  /\ fired = [n \in Nodes |-> 0]
  /\ won = {}
  /\ released = [n \in Nodes |-> 0]

-----------------------------------------------------------------------------
(* Mutant: Cancel's loop ends after one node.                               *)
AfterFirstNode(t) == "idle"

(* Where a thread stands once it is done with a node: back in Cancel's      *)
(* loop while the detached chain lasts, otherwise out of the library.       *)
AfterNode(t) == IF walk[t] = <<>> THEN "idle" ELSE "walk"

(* Mutants: the value fetch_sub returns taken for the count that is left,   *)
(* and for one more than it is.                                             *)
DropTokenRefLate(t) ==
  /\ tokenRefs' = tokenRefs - 1
  /\ pc' = [pc EXCEPT ![t] = IF tokenRefs = 0 THEN "reclaim" ELSE AfterNode(t)]

DropTokenRefEarly(t) ==
  /\ tokenRefs' = tokenRefs - 1
  /\ pc' = [pc EXCEPT ![t] = IF tokenRefs = 2 THEN "reclaim" ELSE AfterNode(t)]

(* sTokenRelease, the atomic decrement; the thread that drops the last      *)
(* reference goes on to reclaim the token.                                  *)
DropTokenRef(t) ==
  /\ tokenRefs' = tokenRefs - 1
  /\ pc' = [pc EXCEPT ![t] = IF tokenRefs = 1 THEN "reclaim" ELSE AfterNode(t)]

(* RegisterEx up to the lock: a node with both references and a token       *)
(* reference of its own.  The caller owns a token reference on entry; from  *)
(* here on the node's keeps the token alive.                                *)
RegisterAlloc(t, n) ==
  /\ pc[t] = "idle"
  /\ callerRefs > 0
  /\ mem[n] = "unused"
  /\ mem' = [mem EXCEPT ![n] = "live"]
  /\ refcount' = [refcount EXCEPT ![n] = 2]
  /\ tokenRefs' = tokenRefs + 1
  /\ pc' = [pc EXCEPT ![t] = "register"]
  /\ cb' = [cb EXCEPT ![t] = n]
  /\ UNCHANGED <<tokenFreed, isCancelled, list, callerRefs, active, claimed,
                 handles, walk, history>>

(* RegisterEx under the lock: link the node, or find the token cancelled.   *)
RegisterLink(t) ==
  LET n == cb[t] IN
  /\ pc[t] = "register"
  /\ ~isCancelled
  /\ list' = <<n>> \o list
  /\ active' = active \cup {n}
  /\ handles' = handles \cup {n}
  /\ pc' = [pc EXCEPT ![t] = "idle"]
  /\ cb' = [cb EXCEPT ![t] = NoNode]
  /\ UNCHANGED <<tokenRefs, tokenFreed, isCancelled, callerRefs, mem, refcount,
                 claimed, walk, history>>

RegisterLate(t) ==
  LET n == cb[t] IN
  /\ pc[t] = "register"
  /\ isCancelled
  /\ claimed' = claimed \cup {n}
  /\ refcount' = [refcount EXCEPT ![n] = 1]
  /\ pc' = [pc EXCEPT ![t] = "inline"]
  /\ UNCHANGED <<tokenVars, mem, active, handles, cb, walk, history>>

(* The inline callback of a late registration; the handle exists for the    *)
(* caller only once RegisterEx returns.                                     *)
InlineEnter(t) ==
  /\ pc[t] = "inline"
  /\ fired' = [fired EXCEPT ![cb[t]] = @ + 1]
  /\ pc' = [pc EXCEPT ![t] = "in_inline"]
  /\ UNCHANGED <<tokenVars, nodeVars, handles, cb, walk, won, released>>

InlineReturn(t) ==
  /\ pc[t] = "in_inline"
  /\ handles' = handles \cup {cb[t]}
  /\ pc' = [pc EXCEPT ![t] = "idle"]
  /\ cb' = [cb EXCEPT ![t] = NoNode]
  /\ UNCHANGED <<tokenVars, nodeVars, walk, history>>

(* The chain without the node Unregister unlinks (prev and next rewired).   *)
Unlink(s, n) ==
  LET k == CHOOSE i \in DOMAIN s : s[i] = n
  IN  SubSeq(s, 1, k - 1) \o SubSeq(s, k + 1, Len(s))

(* Mutant: Unregister drops the list's reference on a node that is not      *)
(* listed.                                                                  *)
BothRefsTaken(n) == 2

(* What Unregister withdraws and returns true for: the node, if still       *)
(* active; and the references it then drops, the handle's included.         *)
Withdrawn(n) == active \cap {n}

RefsTaken(n) == IF n \in active THEN 2 ELSE 1

(* Unregister's lock section: withdraw an active node from the list and     *)
(* drop the list's reference, then drop the handle's.                       *)
Unregister(t, n) ==
  LET left == refcount[n] - RefsTaken(n) IN
  /\ pc[t] = "idle"
  /\ n \in handles
  /\ handles' = handles \ {n}
  /\ list' = IF n \in active THEN Unlink(list, n) ELSE list
  /\ claimed' = claimed \cup Withdrawn(n)
  /\ won' = won \cup Withdrawn(n)
  /\ active' = active \ {n}
  /\ refcount' = [refcount EXCEPT ![n] = left]
  /\ pc' = [pc EXCEPT ![t] = IF left = 0 THEN "free_node" ELSE "idle"]
  /\ cb' = [cb EXCEPT ![t] = IF left = 0 THEN n ELSE NoNode]
  /\ UNCHANGED <<tokenRefs, tokenFreed, isCancelled, callerRefs, mem, walk,
                 fired, released>>

(* The first Cancel: detach the whole list and claim every node on it.      *)
Cancel(t) ==
  LET detached == Range(list) IN
  /\ pc[t] = "idle"
  /\ callerRefs > 0
  /\ ~isCancelled
  /\ isCancelled' = TRUE
  /\ walk' = [walk EXCEPT ![t] = list]
  /\ list' = <<>>
  /\ active' = active \ detached
  /\ claimed' = claimed \cup detached
  /\ pc' = [pc EXCEPT ![t] = IF list = <<>> THEN "idle" ELSE "walk"]
  /\ UNCHANGED <<tokenRefs, tokenFreed, callerRefs, mem, refcount, handles, cb,
                 history>>

(* Cancel's loop: read next, enter the callback ...                         *)
CallbackEnter(t) ==
  /\ pc[t] = "walk"
  /\ cb' = [cb EXCEPT ![t] = Head(walk[t])]
  /\ walk' = [walk EXCEPT ![t] = Tail(@)]
  /\ fired' = [fired EXCEPT ![Head(walk[t])] = @ + 1]
  /\ pc' = [pc EXCEPT ![t] = "in_callback"]
  /\ UNCHANGED <<tokenVars, nodeVars, handles, won, released>>

(* ... and, when it has returned, sNodeDropRef the list's reference.        *)
CallbackReturn(t) ==
  LET n == cb[t] IN
  /\ pc[t] = "in_callback"
  /\ refcount' = [refcount EXCEPT ![n] = @ - 1]
  /\ pc' = [pc EXCEPT ![t] = IF refcount[n] = 1 THEN "free_node"
                                                ELSE AfterNode(t)]
  /\ cb' = [cb EXCEPT ![t] = IF refcount[n] = 1 THEN n ELSE NoNode]
  /\ UNCHANGED <<tokenVars, mem, active, claimed, handles, walk, history>>

(* release_context is called when there is one.                             *)
HookRuns(n) == n \in HookNodes

(* Mutant: the hook runs in sNodeFree and again in its caller.              *)
NodeFreeHooksTwice(t) ==
  LET n == cb[t] IN
  /\ pc[t] = "free_node"
  /\ mem' = [mem EXCEPT ![n] = "freed"]
  /\ released' = [released EXCEPT ![n] = IF HookRuns(n) THEN @ + 2 ELSE @]
  /\ pc' = [pc EXCEPT ![t] = "drop_token"]
  /\ UNCHANGED <<tokenVars, refcount, active, claimed, handles, cb, walk,
                 fired, won>>

(* sNodeFree: free the node, run its hook ...                               *)
NodeFree(t) ==
  LET n == cb[t] IN
  /\ pc[t] = "free_node"
  /\ mem' = [mem EXCEPT ![n] = "freed"]
  /\ released' = [released EXCEPT ![n] = IF HookRuns(n) THEN @ + 1 ELSE @]
  /\ pc' = [pc EXCEPT ![t] = "drop_token"]
  /\ UNCHANGED <<tokenVars, refcount, active, claimed, handles, cb, walk,
                 fired, won>>

(* ... and drop the node's token reference.                                 *)
TokenRelease(t) ==
  /\ pc[t] = "drop_token"
  /\ DropTokenRef(t)
  /\ cb' = [cb EXCEPT ![t] = NoNode]
  /\ UNCHANGED <<tokenFreed, isCancelled, list, callerRefs, nodeVars, handles,
                 walk, history>>

(* The rest of sTokenRelease for the last reference: run the hooks of the   *)
(* nodes still listed, free them and free the token.                        *)
TokenReclaim(t) ==
  LET listed == Range(list) IN
  /\ pc[t] = "reclaim"
  /\ list' = <<>>
  /\ mem' = [n \in Nodes |-> IF n \in listed THEN "freed" ELSE mem[n]]
  /\ released' = [n \in Nodes |-> IF n \in listed /\ HookRuns(n)
                                    THEN released[n] + 1 ELSE released[n]]
  /\ tokenFreed' = TRUE
  /\ pc' = [pc EXCEPT ![t] = AfterNode(t)]
  /\ UNCHANGED <<tokenRefs, isCancelled, callerRefs, refcount, active, claimed,
                 handles, cb, walk, fired, won>>

(* RetainInternal: a future or an operator context takes a reference.       *)
RetainInternal ==
  /\ callerRefs > 0
  /\ callerRefs < MaxRefs
  /\ callerRefs' = callerRefs + 1
  /\ tokenRefs' = tokenRefs + 1
  /\ UNCHANGED <<tokenFreed, isCancelled, list, nodeVars, threadVars, history>>

(* Destroy: the caller gives up its reference.                              *)
Destroy(t) ==
  /\ pc[t] = "idle"
  /\ callerRefs > 0
  /\ callerRefs' = callerRefs - 1
  /\ DropTokenRef(t)
  /\ UNCHANGED <<tokenFreed, isCancelled, list, nodeVars, handles, cb, walk,
                 history>>

(* The callers have honoured the contract and are through: the only states  *)
(* in which the system may rest for good.                                   *)
Finished ==
  /\ callerRefs = 0
  /\ handles = {}
  /\ \A t \in Threads : pc[t] = "idle"
  /\ UNCHANGED vars

Step(t) ==
  \/ RegisterLink(t) \/ RegisterLate(t) \/ InlineEnter(t) \/ InlineReturn(t)
  \/ CallbackEnter(t) \/ CallbackReturn(t) \/ NodeFree(t)
  \/ TokenRelease(t) \/ TokenReclaim(t)

Call(t) ==
  \/ \E n \in Nodes : RegisterAlloc(t, n) \/ Unregister(t, n)
  \/ Cancel(t)
  \/ Destroy(t)

Next ==
  \/ \E t \in Threads : Step(t) \/ Call(t)
  \/ RetainInternal
  \/ Finished

Spec == Init /\ [][Next]_vars

(* A thread inside the library, or in a callback that terminates, keeps     *)
(* running; nothing makes a caller call.                                    *)
Fairness == \A t \in Threads : WF_vars(Step(t))

FairSpec == Spec /\ Fairness

-----------------------------------------------------------------------------
PCs == {"idle", "register", "inline", "in_inline", "walk", "in_callback",
        "free_node", "drop_token", "reclaim"}

(* Type invariant: counters never go below zero, a thread at work on a node *)
(* has one.                                                                 *)
TypeOK ==
  /\ tokenRefs \in Nat
  /\ tokenFreed \in BOOLEAN
  /\ isCancelled \in BOOLEAN
  /\ list \in Seq(Nodes)
  /\ callerRefs \in 0..MaxRefs
  /\ mem \in [Nodes -> {"unused", "live", "freed"}]
  /\ refcount \in [Nodes -> 0..2]
  /\ active \subseteq Nodes
  /\ claimed \subseteq Nodes
  /\ handles \subseteq Nodes
  /\ pc \in [Threads -> PCs]
  /\ cb \in [Threads -> Nodes \cup {NoNode}]
  /\ walk \in [Threads -> Seq(Nodes)]
  /\ fired \in [Nodes -> Nat]
  /\ won \subseteq Nodes
  /\ released \in [Nodes -> Nat]

(* The nodes a thread will dereference, and those the list will.            *)
Touches(t) ==
  Range(walk[t]) \cup
  (IF pc[t] \in {"register", "inline", "in_inline", "in_callback", "free_node"}
     THEN {cb[t]} ELSE {})
Listed == Range(list)

(* No use after free: a node that is linked, whose handle is still to be    *)
(* unregistered, that a callback runs for or that Cancel's unlocked walk    *)
(* will read is allocated and not freed, whoever drops the other reference. *)
NoDanglingNode ==
  \A n \in Listed \cup handles \cup UNION {Touches(t) : t \in Threads} :
    mem[n] = "live"

(* The token outlives every node, every thread inside the library that will *)
(* still lock it or drop a reference on it, and every caller's reference.   *)
TokenOutlivesUsers ==
  tokenFreed =>
    /\ callerRefs = 0
    /\ handles = {}
    /\ \A n \in Nodes : mem[n] # "live"
    /\ \A t \in Threads : pc[t] = "idle"

(* A registration is settled once: its callback runs at most once, it never *)
(* runs when Unregister returned true, and the hook runs at most once, only *)
(* for a node that has been withdrawn or has fired.                         *)
SettledOnce ==
  \A n \in Nodes :
    /\ fired[n] + (IF n \in won THEN 1 ELSE 0) <= 1
    /\ released[n] <= 1
    /\ released[n] = 1 => n \in won \/ fired[n] = 1

(* Cancel or Unregister, never both and never neither: a node that was      *)
(* freed had its callback run or was withdrawn, and a node with a hook had  *)
(* its hook run (what the registry stress test counts after the fact).      *)
ReclaimedIsSettled ==
  \A n \in Nodes : mem[n] = "freed" =>
    /\ fired[n] + (IF n \in won THEN 1 ELSE 0) = 1
    /\ released[n] = IF n \in HookNodes THEN 1 ELSE 0

(* Nobody can call in any more: no caller's reference, no handle, none      *)
(* about to be returned.                                                    *)
Abandoned ==
  /\ callerRefs = 0
  /\ handles = {}
  /\ \A t \in Threads : pc[t] \notin {"register", "inline", "in_inline"}

(* When every handle was unregistered and every reference given up, the     *)
(* token and all its nodes are reclaimed.                                   *)
AbandonedIsReclaimed ==
  Abandoned ~> tokenFreed /\ \A n \in Nodes : mem[n] # "live"
-----------------------------------------------------------------------------
(* The inductive invariant behind the four safety properties: where each    *)
(* node's two references and its token reference are, at every step.        *)

NodePCs == {"register", "inline", "in_inline", "in_callback", "free_node"}
Busy == NodePCs \cup {"drop_token"}
Walker(t) == walk[t] # <<>> \/ pc[t] = "in_callback"
Holders ==
  {n \in Nodes : mem[n] = "live" \/ \E t \in Threads : pc[t] = "drop_token" /\ cb[t] = n}
NodeRefs == tokenRefs - callerRefs
Handle(n) == IF n \in handles THEN 1 ELSE 0
Pending(n) == fired[n] = 0 /\ n \notin won
Settled(n) == (fired[n] = 1 /\ n \notin won) \/ (fired[n] = 0 /\ n \in won)

ThreadInv ==
  \A t \in Threads :
    /\ pc[t] \in Busy => cb[t] \in Nodes /\ cb[t] \notin Listed
    /\ pc[t] \in {"idle", "register", "inline", "in_inline"} => walk[t] = <<>>
    /\ pc[t] = "walk" => walk[t] # <<>>
    /\ Walker(t) => isCancelled
    /\ IsInjective(walk[t])

PairInv ==
  \A t, u \in Threads :
    /\ Walker(t) /\ Walker(u) => t = u
    /\ pc[t] \in Busy /\ pc[u] \in Busy /\ cb[t] = cb[u] => t = u
    /\ pc[u] \in Busy => cb[u] \notin Range(walk[t])
    /\ pc[t] = "reclaim" /\ pc[u] = "reclaim" => t = u

ListInv ==
  /\ IsInjective(list)
  /\ isCancelled => list = <<>>
  /\ active = Listed

(* What a node's place says of its references and its history.              *)
PlaceInv ==
  /\ \A n \in Listed : mem[n] = "live" /\ refcount[n] = 2 /\ n \in handles /\ Pending(n)
  /\ \A t \in Threads : \A n \in Range(walk[t]) :
       mem[n] = "live" /\ refcount[n] = 1 + Handle(n) /\ Pending(n)
  /\ \A t \in Threads : LET n == cb[t] IN
       /\ pc[t] = "register" =>
            mem[n] = "live" /\ refcount[n] = 2 /\ n \notin handles /\ Pending(n)
       /\ pc[t] = "inline" =>
            mem[n] = "live" /\ refcount[n] = 1 /\ n \notin handles /\ Pending(n)
       /\ pc[t] = "in_inline" =>
            mem[n] = "live" /\ refcount[n] = 1 /\ n \notin handles /\ fired[n] = 1 /\ n \notin won
       /\ pc[t] = "in_callback" =>
            mem[n] = "live" /\ refcount[n] = 1 + Handle(n) /\ fired[n] = 1 /\ n \notin won
       /\ pc[t] = "free_node" =>
            mem[n] = "live" /\ refcount[n] = 0 /\ n \notin handles /\ Settled(n)
       /\ pc[t] = "drop_token" => mem[n] = "freed"

(* What a node's memory says of its place.                                  *)
NodeInv ==
  \A n \in Nodes :
    /\ n \in handles => mem[n] = "live"
    /\ Pending(n) \/ Settled(n)
    /\ mem[n] = "unused" => Pending(n)
    /\ mem[n] = "freed" =>
         Settled(n) /\ released[n] = IF n \in HookNodes THEN 1 ELSE 0
    /\ mem[n] # "freed" => released[n] = 0
    /\ n \in handles =>
         \/ n \in Listed
         \/ \E t \in Threads : n \in Range(walk[t])
         \/ \E t \in Threads : pc[t] = "in_callback" /\ cb[t] = n
         \/ refcount[n] = 1 /\ fired[n] = 1 /\ n \notin won

TokenInv ==
  /\ NodeRefs \in Nat /\ ExistsBijection(1..NodeRefs, Holders)
  /\ tokenFreed => tokenRefs = 0
  /\ \A t \in Threads : pc[t] = "reclaim" => tokenRefs = 0 /\ ~tokenFreed

(* Who keeps a live node: its handle, a walk or a thread at work on it.     *)
Kept(n) ==
  n \in handles \/ \E t \in Threads : n \in Range(walk[t]) \/ (pc[t] \in NodePCs /\ cb[t] = n)
KeptInv ==
  /\ \A n \in Nodes : mem[n] = "live" => Kept(n)
  /\ \A t \in Threads : pc[t] \in {"inline", "in_inline"} => isCancelled

IInv == TypeOK /\ ThreadInv /\ PairInv /\ ListInv /\ PlaceInv /\ NodeInv /\ TokenInv
=============================================================================
