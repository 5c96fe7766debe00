------------------------- MODULE CancellationProofs -------------------------
(***************************************************************************)
(* Proofs about the cancellation token, for any set of threads, any set of *)
(* nodes and any bound on the callers' references.                         *)
(*                                                                         *)
(* The invariant IInv of Cancellation is shown inductive, one lemma per    *)
(* action.  Its core is an account of references: a node's count is what   *)
(* its place (listed, detached, running, handed out) says, and the token's *)
(* count is the callers' references plus one for each node not yet let go. *)
(***************************************************************************)
EXTENDS MCCancellation, Chains

(* Unregister takes the node, and no other, out of the list.                *)
LEMMA UnlinkElements ==
  ASSUME NEW s \in Seq(Nodes), NEW n \in Range(s), IsInjective(s)
  PROVE  /\ Unlink(s, n) \in Seq(Nodes)
         /\ Range(Unlink(s, n)) = Range(s) \ {n}
         /\ IsInjective(Unlink(s, n))
<1> DEFINE k == CHOOSE i \in DOMAIN s : s[i] = n
<1>1. k \in 1..Len(s) /\ s[k] = n
  BY DEF Range
<1>2. Unlink(s, n) = SubSeq(s, 1, k-1) \o SubSeq(s, k+1, Len(s))
  BY Zenon DEF Unlink
<1> HIDE DEF k
<1> QED BY <1>1, <1>2, RemoveElements

(* UfsrvCancellationTokenCreate establishes the invariant.                  *)
LEMMA InitInv == Init => IInv
<1> SUFFICES ASSUME Init PROVE IInv
  OBVIOUS
<1>1. TypeOK
  <2>1. 1 \in 0..MaxRefs
    BY CancellationAssumption
  <2>2. <<>> \in Seq(Nodes)
    OBVIOUS
  <2>3. tokenRefs \in Nat /\ callerRefs \in 0..MaxRefs /\ list \in Seq(Nodes)
    BY Zenon, <2>1, <2>2 DEF Init
  <2>4. walk \in [Threads -> Seq(Nodes)] /\ cb \in [Threads -> Nodes \cup {NoNode}]
    BY Zenon, <2>2 DEF Init
  <2>5. pc \in [Threads -> PCs] /\ mem \in [Nodes -> {"unused", "live", "freed"}]
    BY Zenon DEF Init, PCs
  <2>6. /\ refcount \in [Nodes -> 0..2] /\ fired \in [Nodes -> Nat]
        /\ released \in [Nodes -> Nat]
    BY DEF Init
  <2> QED BY Zenon, <2>3, <2>4, <2>5, <2>6 DEF Init, TypeOK
<1>2. Listed = {} /\ \A t \in Threads : walk[t] = <<>> /\ Range(walk[t]) = {}
  BY Zenon, EmptyElements DEF Init, Listed
<1>3. Holders = {}
  BY Zenon DEF Init, Holders
<1>4. TokenInv
  <2>1. NodeRefs = 0
    BY DEF Init, NodeRefs
  <2>2. 0 \in Nat
    OBVIOUS
  <2> QED BY Zenon, <1>3, <2>1, <2>2, CountNone DEF Init, TokenInv
<1>5. ThreadInv /\ PairInv /\ ListInv /\ PlaceInv /\ NodeInv
  BY Zenon, <1>2, EmptyElements
  DEF Init, ThreadInv, PairInv, ListInv, PlaceInv, NodeInv, Busy, NodePCs, Walker, Pending
<1> QED BY Zenon, <1>1, <1>4, <1>5 DEF IInv

(* RegisterEx on a cancelled token enters the callback inline.              *)
LEMMA InlineEnterInv ==
  ASSUME IInv, NEW t \in Threads, InlineEnter(t)
  PROVE  IInv'
<1> USE DEF IInv
<1>1. TypeOK'
  BY DEF InlineEnter, TypeOK, tokenVars, nodeVars, PCs, ThreadInv, Busy, NodePCs
<1>2. ThreadInv'
  BY DEF InlineEnter, tokenVars, ThreadInv, Busy, NodePCs, Walker, Listed
<1>3. PairInv'
  BY DEF InlineEnter, PairInv, Busy, NodePCs, Walker
<1>4. ListInv'
  BY Zenon DEF InlineEnter, tokenVars, nodeVars, ListInv, Listed
<1>5. PlaceInv'
  BY DEF InlineEnter, TypeOK, tokenVars, nodeVars, PlaceInv, Listed, ThreadInv,
       PairInv, Busy, NodePCs, Pending, Settled, Handle
<1>6. NodeInv'
  <2> SUFFICES ASSUME NEW m \in Nodes PROVE NodeInv!(m)'
    BY Zenon DEF NodeInv
  <2>1. CASE m = cb[t]
    BY <2>1 DEF InlineEnter, nodeVars, NodeInv, PlaceInv, Pending, Settled
  <2>2. CASE m # cb[t]
    BY <2>2 DEF InlineEnter, tokenVars, nodeVars, NodeInv, Listed, Pending, Settled
  <2> QED BY Zenon, <2>1, <2>2
<1>7. TokenInv'
  <2>1. Holders' = Holders
    BY DEF InlineEnter, nodeVars, Holders
  <2> QED BY <2>1 DEF InlineEnter, tokenVars, TokenInv, NodeRefs
<1> QED BY Zenon, <1>1, <1>2, <1>3, <1>4, <1>5, <1>6, <1>7

(* The inline callback returns and the handle is handed out.                *)
LEMMA InlineReturnInv ==
  ASSUME IInv, NEW t \in Threads, InlineReturn(t)
  PROVE  IInv'
<1> USE DEF IInv
<1>1. TypeOK'
  BY Zenon DEF InlineReturn, TypeOK, tokenVars, nodeVars, history, PCs, ThreadInv, Busy,
       NodePCs
<1>2. ThreadInv'
  BY Zenon DEF InlineReturn, TypeOK, tokenVars, ThreadInv, Busy, NodePCs, Walker, Listed
<1>3. PairInv'
  BY DEF InlineReturn, TypeOK, PairInv, Busy, NodePCs, Walker
<1>4. ListInv'
  BY Zenon DEF InlineReturn, tokenVars, nodeVars, ListInv, Listed
<1>5. PlaceInv'
  BY DEF InlineReturn, TypeOK, tokenVars, nodeVars, history, PlaceInv, Listed,
       PairInv, Busy, NodePCs, Pending, Settled, Handle
<1>6. NodeInv'
  <2> SUFFICES ASSUME NEW m \in Nodes PROVE NodeInv!(m)'
    BY Zenon DEF NodeInv
  <2>1. CASE m = cb[t]
    BY Zenon, <2>1 DEF InlineReturn, tokenVars, nodeVars, history, NodeInv, PlaceInv, Settled
  <2>2. CASE m # cb[t]
    BY <2>2 DEF InlineReturn, tokenVars, nodeVars, history, NodeInv, Listed,
         Pending, Settled
  <2> QED BY Zenon, <2>1, <2>2
<1>7. TokenInv'
  <2>1. Holders' = Holders
    BY Zenon DEF InlineReturn, TypeOK, nodeVars, Holders
  <2> QED BY <2>1 DEF InlineReturn, tokenVars, TokenInv, NodeRefs
<1> QED BY Zenon, <1>1, <1>2, <1>3, <1>4, <1>5, <1>6, <1>7

(* RegisterEx finds the token cancelled: only the handle's reference stays. *)
LEMMA RegisterLateInv ==
  ASSUME IInv, NEW t \in Threads, RegisterLate(t)
  PROVE  IInv'
<1> USE DEF IInv
<1>1. TypeOK'
  BY DEF RegisterLate, TypeOK, tokenVars, nodeVars, history, PCs, ThreadInv, Busy,
       NodePCs
<1>2. ThreadInv'
  BY DEF RegisterLate, tokenVars, ThreadInv, Busy, NodePCs, Listed
<1>3. PairInv'
  BY DEF RegisterLate, PairInv, Busy, NodePCs, Walker
<1>4. ListInv'
  BY Zenon DEF RegisterLate, tokenVars, ListInv, Listed
<1>5. PlaceInv'
  BY DEF RegisterLate, TypeOK, tokenVars, nodeVars, history, PlaceInv,
       Listed, ThreadInv, PairInv, Busy, NodePCs, Pending, Settled, Handle
<1>6. NodeInv'
  <2> SUFFICES ASSUME NEW m \in Nodes PROVE NodeInv!(m)'
    BY Zenon DEF NodeInv
  <2>1. CASE m = cb[t]
    BY Zenon, <2>1 DEF RegisterLate, history, NodeInv, PlaceInv, Pending
  <2>2. CASE m # cb[t]
    BY <2>2 DEF RegisterLate, tokenVars, history, NodeInv, Listed, Pending, Settled
  <2> QED BY Zenon, <2>1, <2>2
<1>7. TokenInv'
  <2>1. Holders' = Holders
    BY Zenon DEF RegisterLate, TypeOK, Holders
  <2> QED BY <2>1 DEF RegisterLate, tokenVars, TokenInv, NodeRefs
<1> QED BY Zenon, <1>1, <1>2, <1>3, <1>4, <1>5, <1>6, <1>7

(* RegisterEx allocates the node with its two references and the token's.   *)
LEMMA RegisterAllocInv ==
  ASSUME IInv, NEW t \in Threads, NEW n \in Nodes, RegisterAlloc(t, n)
  PROVE  IInv'
<1> USE DEF IInv
<1>a. /\ n \notin Listed /\ n \notin handles
      /\ \A u \in Threads : n \notin Range(walk[u]) /\ (pc[u] \in Busy => cb[u] # n)
  BY Zenon DEF RegisterAlloc, PlaceInv, NodeInv, Busy, NodePCs
<1>1. TypeOK'
  BY <1>a DEF RegisterAlloc, TypeOK, history, PCs
<1>2. ThreadInv'
  BY Zenon, <1>a DEF RegisterAlloc, TypeOK, ThreadInv, Walker, Listed
<1>3. PairInv'
  BY <1>a DEF RegisterAlloc, TypeOK, PairInv, Walker
<1>4. ListInv'
  BY Zenon, <1>a DEF RegisterAlloc, ListInv, Listed
<1>5. PlaceInv'
  <2>1. Pending(n)
    BY Zenon DEF RegisterAlloc, NodeInv
  <2>2. Listed' = Listed /\ \A u \in Threads : walk'[u] = walk[u]
    BY Zenon DEF RegisterAlloc, Listed
  <2> QED BY <1>a, <2>1, <2>2 DEF RegisterAlloc, TypeOK, history, PlaceInv,
       Pending, Settled, Handle
<1>6. NodeInv'
  <2> SUFFICES ASSUME NEW m \in Nodes PROVE NodeInv!(m)'
    BY Zenon DEF NodeInv
  <2>1. CASE m = n
    BY <1>a, <2>1 DEF RegisterAlloc, history, NodeInv, Pending
  <2>2. CASE m # n
    <3>1. /\ mem'[m] = mem[m] /\ refcount'[m] = refcount[m] /\ Listed' = Listed
          /\ UNCHANGED <<handles, walk, fired, won, released>>
      BY <2>2 DEF RegisterAlloc, history, Listed
    <3>2. \A u \in Threads : pc[u] = "in_callback" => pc'[u] = "in_callback" /\ cb'[u] = cb[u]
      BY Zenon DEF RegisterAlloc, TypeOK
    <3> QED BY <3>1, <3>2 DEF NodeInv, Pending, Settled
  <2> QED BY Zenon, <2>1, <2>2
<1>7. TokenInv'
  <2>1. n \notin Holders
    BY Zenon, <1>a DEF RegisterAlloc, Holders, Busy
  <2>2. Holders' = Holders \cup {n}
    BY Zenon, <1>a DEF RegisterAlloc, TypeOK, Holders
  <2>3. NodeRefs' = NodeRefs + 1 /\ NodeRefs' \in Nat /\ tokenRefs # 0
    BY DEF RegisterAlloc, TokenInv, TypeOK, NodeRefs
  <2>4. ExistsBijection(1..NodeRefs', Holders')
    BY Zenon, <2>1, <2>2, <2>3, CountAdd DEF TokenInv
  <2>5. ~tokenFreed /\ \A u \in Threads : pc[u] # "reclaim"
    BY Zenon, <2>3 DEF TokenInv, NodeRefs
  <2> QED BY Zenon, <1>a, <2>3, <2>4, <2>5 DEF RegisterAlloc, TokenInv, NodeRefs, TypeOK
<1> QED BY Zenon, <1>1, <1>2, <1>3, <1>4, <1>5, <1>6, <1>7

(* RegisterEx links the node under the lock.                                *)
LEMMA RegisterLinkInv ==
  ASSUME IInv, NEW t \in Threads, RegisterLink(t)
  PROVE  IInv'
<1> USE DEF IInv
<1>a. cb[t] \in Nodes /\ cb[t] \notin Listed /\ cb[t] \notin handles
  BY Zenon DEF RegisterLink, ThreadInv, PlaceInv, Busy, NodePCs
<1>b. /\ list' \in Seq(Nodes) /\ IsInjective(list')
      /\ Listed' = Listed \cup {cb[t]}
  BY <1>a, ConsElements DEF RegisterLink, TypeOK, ListInv, Listed
<1>c. \A u \in Threads : ~Walker(u) /\ walk[u] = <<>> /\ Range(walk[u]) = {}
  BY Zenon, EmptyElements DEF RegisterLink, ThreadInv, Walker
<1>1. TypeOK'
  BY Zenon, <1>a, <1>b, <1>c DEF RegisterLink, TypeOK, history, PCs
<1>2. ThreadInv'
  BY Zenon, <1>a, <1>b, <1>c DEF RegisterLink, TypeOK, ThreadInv, PairInv, Busy,
       NodePCs, Walker
<1>3. PairInv'
  BY <1>a, <1>b, <1>c DEF RegisterLink, TypeOK, PairInv, Busy, NodePCs, Walker
<1>4. ListInv'
  BY Zenon, <1>a, <1>b DEF RegisterLink, ListInv
<1>5. PlaceInv'
  <2>1. /\ handles' = handles \cup {cb[t]} /\ walk' = walk
        /\ UNCHANGED <<mem, refcount, fired, won>>
        /\ \A u \in Threads : u # t => pc'[u] = pc[u] /\ cb'[u] = cb[u]
        /\ pc'[t] = "idle"
    BY Zenon DEF RegisterLink, TypeOK, history
  <2>2. PlaceInv!3!(t) /\ pc[t] = "register"
    BY Zenon DEF RegisterLink, PlaceInv
  <2>3. PlaceInv!1'
    BY Zenon, <1>a, <1>b, <2>1, <2>2 DEF PlaceInv, Pending
  <2>4. PlaceInv!2'
    BY Zenon, <1>c, <2>1
  <2>5. ASSUME NEW u \in Threads, u # t PROVE PlaceInv!3!(u)'
    <3>1. PlaceInv!3!(u)
      BY Zenon DEF PlaceInv
    <3>2. pc[u] \in Busy => cb[u] # cb[t]
      BY Zenon, <2>2, <2>5 DEF PairInv, Busy, NodePCs
    <3> QED BY Zenon, <2>1, <2>5, <3>1, <3>2 DEF Busy, NodePCs, Pending, Settled, Handle
  <2>6. PlaceInv!3!(t)'
    BY Zenon, <2>1
  <2> QED BY <2>3, <2>4, <2>5, <2>6 DEF PlaceInv
<1>6. NodeInv'
  <2> SUFFICES ASSUME NEW m \in Nodes PROVE NodeInv!(m)'
    BY Zenon DEF NodeInv
  <2>1. CASE m = cb[t]
    BY Zenon, <1>a, <1>b, <2>1 DEF RegisterLink, history, NodeInv, PlaceInv, Pending
  <2>2. CASE m # cb[t]
    BY <1>b, <2>2 DEF RegisterLink, history, NodeInv, Pending, Settled
  <2> QED BY Zenon, <2>1, <2>2
<1>7. TokenInv'
  <2>1. Holders' = Holders
    BY <1>a DEF RegisterLink, Holders
  <2> QED BY <2>1 DEF RegisterLink, TokenInv, NodeRefs
<1> QED BY Zenon, <1>1, <1>2, <1>3, <1>4, <1>5, <1>6, <1>7

-----------------------------------------------------------------------------

(* Cancel moves every listed node to its own walk.                          *)
LEMMA CancelInv ==
  ASSUME IInv, NEW t \in Threads, Cancel(t)
  PROVE  IInv'
<1> USE DEF IInv
<1>a. \A u \in Threads : walk[u] = <<>> /\ Range(walk[u]) = {} /\ pc[u] \notin {"in_callback", "walk"}
  BY Zenon, EmptyElements DEF Cancel, ThreadInv, Walker
<1>b. Listed' = {} /\ IsInjective(list') /\ list' \in Seq(Nodes)
  BY EmptyElements DEF Cancel, Listed
<1>c. /\ walk'[t] = list /\ Range(walk'[t]) = Listed
      /\ \A u \in Threads : u # t => walk'[u] = <<>> /\ Range(walk'[u]) = {}
  BY Zenon, <1>a DEF Cancel, TypeOK, Listed
<1>d. /\ pc'[t] \in {"idle", "walk"} /\ (pc'[t] = "walk" <=> list # <<>>)
      /\ \A u \in Threads : u # t => pc'[u] = pc[u]
      /\ cb' = cb /\ isCancelled'
  BY Zenon DEF Cancel, TypeOK
<1>1. TypeOK'
  <2>1. Listed \subseteq Nodes
    BY DEF TypeOK, Listed, Range
  <2>2. walk' \in [Threads -> Seq(Nodes)]
    BY Zenon DEF Cancel, TypeOK
  <2> QED BY Zenon, <1>b, <2>1, <2>2 DEF Cancel, TypeOK, Listed, history, PCs
<1>2. ThreadInv'
  <2>1. IsInjective(list)
    BY Zenon DEF ListInv
  <2>2. ThreadInv!(t)'
    BY Zenon, <1>b, <1>c, <1>d, <2>1 DEF Busy, NodePCs
  <2>3. ASSUME NEW u \in Threads, u # t PROVE ThreadInv!(u)'
    BY Zenon, <1>a, <1>b, <1>c, <1>d, <2>3, EmptyElements DEF ThreadInv
  <2> QED BY Zenon, <2>2, <2>3 DEF ThreadInv
<1>3. PairInv'
  BY <1>a, <1>c, <1>d DEF PairInv, ThreadInv, Busy, NodePCs, Walker
<1>4. ListInv'
  BY Zenon, <1>b DEF Cancel, ListInv, Listed
<1>5. PlaceInv'
  <2>1. /\ mem' = mem /\ refcount' = refcount /\ handles' = handles
        /\ fired' = fired /\ won' = won
    BY Zenon DEF Cancel, history
  <2>2. PlaceInv!1' /\ PlaceInv!2'
    BY <1>b, <1>c, <2>1 DEF PlaceInv, Pending, Handle
  <2>3. ASSUME NEW u \in Threads PROVE PlaceInv!3!(u)'
    <3>1. PlaceInv!3!(u)
      BY Zenon DEF PlaceInv
    <3> QED BY Zenon, <1>d, <2>1, <3>1 DEF Pending, Settled, Handle
  <2> QED BY Zenon, <2>2, <2>3 DEF PlaceInv
<1>6. NodeInv'
  <2>1. /\ mem' = mem /\ refcount' = refcount /\ handles' = handles
        /\ fired' = fired /\ won' = won /\ released' = released
    BY Zenon DEF Cancel, history
  <2>2. ASSUME NEW m \in Nodes PROVE NodeInv!(m)'
    <3>1. (Pending(m)' <=> Pending(m)) /\ (Settled(m)' <=> Settled(m))
      BY Zenon, <2>1 DEF Pending, Settled
    <3>2. m \in handles => m \in Listed \/ (refcount[m] = 1 /\ fired[m] = 1 /\ m \notin won)
      BY Zenon, <1>a DEF NodeInv
    <3> QED BY Zenon, <1>c, <2>1, <3>1, <3>2 DEF NodeInv
  <2> QED BY Zenon, <2>2 DEF NodeInv
<1>7. TokenInv'
  <2>1. Holders' = Holders
    BY <1>a, <1>d DEF Cancel, Holders
  <2> QED BY Zenon, <1>d, <2>1 DEF Cancel, TokenInv, NodeRefs
<1> QED BY Zenon, <1>1, <1>2, <1>3, <1>4, <1>5, <1>6, <1>7

(* Cancel's walk reads the next node and enters its callback.               *)
LEMMA CallbackEnterInv ==
  ASSUME IInv, NEW t \in Threads, CallbackEnter(t)
  PROVE  IInv'
<1> USE DEF IInv
<1> DEFINE h == Head(walk[t])
<1>a. walk[t] # <<>> /\ Walker(t) /\ isCancelled /\ Listed = {}
  BY Zenon, EmptyElements DEF CallbackEnter, ThreadInv, ListInv, Walker, Listed
<1>b. /\ h \in Nodes /\ h \in Range(walk[t])
      /\ Tail(walk[t]) \in Seq(Nodes) /\ IsInjective(Tail(walk[t]))
      /\ Range(Tail(walk[t])) = Range(walk[t]) \ {h}
  BY Zenon, <1>a, TailElements DEF TypeOK, ThreadInv
<1>c. walk'[t] = Tail(walk[t]) /\ \A u \in Threads : u # t => walk'[u] = walk[u]
  BY Zenon DEF CallbackEnter, TypeOK
<1>d. \A u \in Threads : u # t => walk[u] = <<>> /\ Range(walk[u]) = {} /\ pc[u] # "in_callback"
  BY Zenon, <1>a, EmptyElements DEF PairInv, Walker
<1>e. /\ pc'[t] = "in_callback" /\ cb'[t] = h
      /\ \A u \in Threads : u # t => pc'[u] = pc[u] /\ cb'[u] = cb[u]
  BY Zenon DEF CallbackEnter, TypeOK
<1> HIDE DEF h
<1>1. TypeOK'
  <2>1. walk' \in [Threads -> Seq(Nodes)]
    BY Zenon, <1>b DEF CallbackEnter, TypeOK
  <2>2. fired' \in [Nodes -> Nat]
    BY <1>b DEF CallbackEnter, TypeOK, h
  <2>3. pc' \in [Threads -> PCs] /\ cb' \in [Threads -> Nodes \cup {NoNode}]
    BY Zenon, <1>b DEF CallbackEnter, TypeOK, PCs, h
  <2> QED BY Zenon, <2>1, <2>2, <2>3 DEF CallbackEnter, TypeOK, tokenVars, nodeVars
<1>2. ThreadInv'
  BY Zenon, <1>a, <1>b, <1>c, <1>d DEF CallbackEnter, TypeOK, tokenVars, ThreadInv,
       Listed, h
<1>3. PairInv'
  BY <1>a, <1>b, <1>c, <1>d, <1>e DEF PairInv, Walker
<1>4. ListInv'
  BY Zenon, <1>a, <1>b, <1>c, <1>d DEF CallbackEnter, tokenVars, nodeVars, ListInv, Listed
<1>5. PlaceInv'
  <2>1. /\ UNCHANGED <<mem, refcount, handles, won>> /\ Listed' = {}
        /\ fired' = [fired EXCEPT ![h] = @ + 1]
    BY Zenon, <1>a DEF CallbackEnter, tokenVars, nodeVars, Listed, h
  <2>2. ASSUME NEW m \in Nodes, m # h
        PROVE  (Pending(m)' <=> Pending(m)) /\ fired'[m] = fired[m] /\ Handle(m)' = Handle(m)
    BY Zenon, <2>1, <2>2 DEF Pending, TypeOK, Handle
  <2>3. mem[h] = "live" /\ refcount[h] = 1 + Handle(h) /\ Pending(h)
    BY Zenon, <1>b DEF PlaceInv
  <2>4. ASSUME NEW u \in Threads, NEW m \in Range(walk'[u])
        PROVE  (mem[m] = "live" /\ refcount[m] = 1 + Handle(m) /\ Pending(m))'
    <3>1. u = t /\ m \in Range(walk[t]) /\ m # h
      BY Zenon, <1>b, <1>c, <1>d
    <3>2. m \in Nodes /\ mem[m] = "live" /\ refcount[m] = 1 + Handle(m) /\ Pending(m)
      BY <3>1 DEF PlaceInv, TypeOK, Range
    <3> QED BY Zenon, <2>1, <2>2, <3>1, <3>2
  <2>5. PlaceInv!3!(t)'
    BY <1>b, <1>e, <2>1, <2>3 DEF Pending, Handle, TypeOK
  <2>6. ASSUME NEW u \in Threads, u # t PROVE PlaceInv!3!(u)'
    <3>1. PlaceInv!3!(u) /\ (pc[u] \in NodePCs => cb[u] \in Nodes)
      BY Zenon DEF PlaceInv, ThreadInv, Busy
    <3>2. pc[u] \in Busy => cb[u] # h
      BY Zenon, <1>b DEF PairInv
    <3> QED BY <1>e, <2>1, <2>6, <3>1, <3>2 DEF Busy, NodePCs, Pending, Settled, Handle, TypeOK
  <2>7. \A u \in Threads : PlaceInv!3!(u)'
    BY ZenonT(30), <2>5, <2>6
  <2>8. \A m : m \notin Listed'
    BY Zenon, <2>1
  <2> QED BY Zenon, <2>4, <2>7, <2>8 DEF PlaceInv
<1>6. NodeInv'
  <2> SUFFICES ASSUME NEW m \in Nodes PROVE NodeInv!(m)'
    BY Zenon DEF NodeInv
  <2>1. CASE m = h
    <3>0. mem[h] = "live" /\ Pending(h)
      BY Zenon, <1>b DEF PlaceInv
    <3>1. mem[h] = "live" /\ Pending(h) /\ released[h] = 0
      BY Zenon, <1>b, <3>0 DEF NodeInv
    <3>2. /\ mem' = mem /\ released' = released /\ won' = won
          /\ fired' = [fired EXCEPT ![h] = @ + 1]
      BY Zenon DEF CallbackEnter, nodeVars, h
    <3>3. fired[h] = 0 /\ h \notin won /\ fired \in [Nodes -> Nat] /\ h \in Nodes
      BY Zenon, <1>b, <3>1 DEF TypeOK, Pending
    <3>4. fired'[h] = fired[h] + 1
      BY Zenon, <3>2, <3>3
    <3>5. fired'[h] = 1
      BY <3>3, <3>4
    <3>6. fired'[m] = 1 /\ m \notin won' /\ mem'[m] = "live" /\ released'[m] = 0 /\ cb'[t] = m
      BY Zenon, <1>e, <2>1, <3>1, <3>2, <3>3, <3>5
    <3>7. Settled(m)' /\ mem'[m] # "freed" /\ mem'[m] # "unused"
      BY Zenon, <3>6 DEF Settled
    <3> QED BY Zenon, <1>e, <3>6, <3>7
  <2>2. CASE m # h
    <3>1. /\ mem' = mem /\ refcount' = refcount /\ Listed' = Listed
          /\ UNCHANGED <<handles, won, released>> /\ fired'[m] = fired[m]
      BY <2>2 DEF CallbackEnter, tokenVars, nodeVars, Listed, h
    <3>2. \A u \in Threads : pc[u] = "in_callback" => pc'[u] = "in_callback" /\ cb'[u] = cb[u]
      BY Zenon DEF CallbackEnter, TypeOK
    <3>3. \A u \in Threads : m \in Range(walk[u]) => m \in Range(walk'[u])
      BY Zenon, <1>b, <1>c, <2>2
    <3>4. (Pending(m)' <=> Pending(m)) /\ (Settled(m)' <=> Settled(m))
      BY Zenon, <3>1 DEF Pending, Settled
    <3>5. NodeInv!(m)
      BY Zenon DEF NodeInv
    <3> QED BY Zenon, <3>1, <3>2, <3>3, <3>4, <3>5
  <2> QED BY <2>1, <2>2
<1>7. TokenInv'
  <2>1. Holders' = Holders
    BY DEF CallbackEnter, nodeVars, Holders
  <2> QED BY <2>1 DEF CallbackEnter, tokenVars, TokenInv, NodeRefs
<1> QED BY Zenon, <1>1, <1>2, <1>3, <1>4, <1>5, <1>6, <1>7

(* sNodeDropRef after a callback returned.                                  *)
LEMMA CallbackReturnInv ==
  ASSUME IInv, NEW t \in Threads, CallbackReturn(t)
  PROVE  IInv'
<1> USE DEF IInv
<1>a. /\ cb[t] \in Nodes /\ cb[t] \notin Listed
      /\ \A u \in Threads : cb[t] \notin Range(walk[u])
      /\ \A u \in Threads : u # t /\ pc[u] \in Busy => cb[u] # cb[t]
      /\ refcount[cb[t]] = 1 + Handle(cb[t])
  BY Zenon DEF CallbackReturn, ThreadInv, PairInv, PlaceInv, Busy, NodePCs
<1>1. TypeOK'
  BY <1>a DEF CallbackReturn, AfterNode, Handle, TypeOK, tokenVars, history, PCs
<1>2. ThreadInv'
  BY Zenon, <1>a DEF CallbackReturn, AfterNode, TypeOK, tokenVars, ThreadInv, Busy, NodePCs,
       Walker, Listed
<1>3. PairInv'
  <2>1. /\ \A u \in Threads : u # t => pc'[u] = pc[u] /\ cb'[u] = cb[u]
        /\ walk' = walk /\ pc[t] = "in_callback"
        /\ (pc'[t] = "free_node" /\ cb'[t] = cb[t]) \/ pc'[t] \in {"idle", "walk"}
    BY Zenon DEF CallbackReturn, AfterNode, TypeOK
  <2>2. ~Walker(t)' \/ walk[t] # <<>>
    BY Zenon, <2>1 DEF Walker
  <2>3. \A u \in Threads :
          /\ Walker(u)' => Walker(u)
          /\ pc'[u] \in Busy => pc[u] \in Busy /\ cb'[u] = cb[u]
          /\ pc'[u] = "reclaim" => pc[u] = "reclaim"
    BY Zenon, <2>1, <2>2 DEF Busy, NodePCs, Walker
  <2> QED BY Zenon, <2>1, <2>3 DEF PairInv
<1>4. ListInv'
  BY Zenon, <1>a DEF CallbackReturn, tokenVars, ListInv, Listed
<1>5. PlaceInv'
  <2>1. /\ UNCHANGED <<mem, handles, won, fired, walk>> /\ Listed' = Listed
        /\ refcount' = [refcount EXCEPT ![cb[t]] = @ - 1]
        /\ \A u \in Threads : u # t => pc'[u] = pc[u] /\ cb'[u] = cb[u]
    BY Zenon DEF CallbackReturn, AfterNode, tokenVars, history, Listed, TypeOK
  <2>2. ASSUME NEW m \in Nodes, m # cb[t]
        PROVE  /\ (Pending(m)' <=> Pending(m)) /\ refcount'[m] = refcount[m]
               /\ Handle(m)' = Handle(m)
    BY Zenon, <2>1, <2>2 DEF Pending, TypeOK, Handle
  <2>3. ASSUME NEW m \in Listed
        PROVE  (mem[m] = "live" /\ refcount[m] = 2 /\ m \in handles /\ Pending(m))'
    <3>1. m \in Nodes /\ m # cb[t]
      BY <1>a DEF Listed, Range, TypeOK
    <3> QED BY Zenon, <2>1, <2>2, <3>1 DEF PlaceInv
  <2>6. ASSUME NEW u \in Threads, NEW m \in Range(walk[u])
        PROVE  (mem[m] = "live" /\ refcount[m] = 1 + Handle(m) /\ Pending(m))'
    <3>1. m \in Nodes /\ m # cb[t]
      BY <1>a DEF Range, TypeOK
    <3> QED BY <2>1, <2>2, <3>1 DEF PlaceInv
  <2>4. PlaceInv!3!(t)'
    <3>1. PlaceInv!3!(t)
      BY Zenon DEF PlaceInv
    <3> QED BY <1>a, <2>1, <3>1 DEF CallbackReturn, AfterNode, TypeOK, Settled, Handle
  <2>5. ASSUME NEW u \in Threads, u # t PROVE PlaceInv!3!(u)'
    <3>1. PlaceInv!3!(u)
      BY Zenon DEF PlaceInv
    <3>2. pc[u] \in Busy => cb[u] # cb[t]
      BY Zenon, <1>a, <2>5
    <3>3. pc'[u] = pc[u] /\ cb'[u] = cb[u] /\ mem' = mem /\ handles' = handles /\ fired' = fired /\ won' = won
      BY Zenon, <2>1, <2>5 DEF CallbackReturn, TypeOK
    <3>4. pc[u] \in Busy => refcount'[cb[u]] = refcount[cb[u]]
      BY <2>1, <3>2 DEF ThreadInv, TypeOK
    <3>5. CASE pc[u] \in Busy
      <4> DEFINE m == cb[u]
      <4>1. PlaceInv!3!(u)
        BY Zenon, <3>1
      <4>2. refcount'[m] = refcount[m] /\ cb'[u] = m
        BY Zenon, <3>3, <3>4, <3>5
      <4> HIDE DEF m
      <4> QED BY Zenon, <3>3, <4>1, <4>2 DEF Pending, Settled, Handle, m
    <3>6. CASE pc[u] \notin Busy
      BY Zenon, <3>3, <3>6 DEF Busy, NodePCs
    <3> QED BY Zenon, <3>5, <3>6
  <2>7. \A u \in Threads : PlaceInv!3!(u)'
    BY Zenon, <2>4, <2>5
  <2>8. walk' = walk /\ Listed' = Listed
    BY Zenon, <2>1
  <2> QED BY Zenon, <2>3, <2>6, <2>7, <2>8 DEF PlaceInv
<1>6. NodeInv'
  <2> SUFFICES ASSUME NEW m \in Nodes PROVE NodeInv!(m)'
    BY Zenon DEF NodeInv
  <2>1. CASE m = cb[t]
    BY <1>a, <2>1 DEF CallbackReturn, TypeOK, history, NodeInv, PlaceInv, Settled,
         Handle
  <2>2. CASE m # cb[t]
    <3>1. /\ mem' = mem /\ Listed' = Listed /\ walk' = walk /\ refcount'[m] = refcount[m]
          /\ UNCHANGED <<handles, won, released, fired>>
      BY <1>a, <2>2 DEF CallbackReturn, tokenVars, history, Listed
    <3>2. \A u \in Threads : pc[u] = "in_callback" /\ cb[u] = m =>
            pc'[u] = "in_callback" /\ cb'[u] = m
      BY Zenon, <2>2 DEF CallbackReturn, TypeOK
    <3>3. (Pending(m)' <=> Pending(m)) /\ (Settled(m)' <=> Settled(m))
      BY Zenon, <3>1 DEF Pending, Settled
    <3> QED BY Zenon, <3>1, <3>2, <3>3 DEF NodeInv
  <2> QED BY Zenon, <2>1, <2>2
<1>7. TokenInv'
  <2>1. Holders' = Holders
    BY DEF CallbackReturn, AfterNode, Holders
  <2> QED BY <2>1 DEF CallbackReturn, AfterNode, tokenVars, TokenInv, NodeRefs
<1> QED BY Zenon, <1>1, <1>2, <1>3, <1>4, <1>5, <1>6, <1>7

-----------------------------------------------------------------------------
(* sNodeFree frees a node nobody refers to and runs its hook.               *)
LEMMA NodeFreeInv ==
  ASSUME IInv, NEW t \in Threads, NodeFree(t)
  PROVE  IInv'
<1> USE DEF IInv
<1>a. /\ cb[t] \in Nodes /\ cb[t] \notin Listed /\ cb[t] \notin handles
      /\ \A u \in Threads : cb[t] \notin Range(walk[u])
      /\ \A u \in Threads : u # t /\ pc[u] \in Busy => cb[u] # cb[t]
      /\ mem[cb[t]] = "live" /\ Settled(cb[t])
  BY Zenon DEF NodeFree, ThreadInv, PairInv, PlaceInv, Busy, NodePCs
<1>1. TypeOK'
  BY <1>a DEF NodeFree, TypeOK, tokenVars, PCs
<1>2. ThreadInv'
  BY <1>a DEF NodeFree, tokenVars, ThreadInv, Walker, Listed
<1>3. PairInv'
  BY <1>a DEF NodeFree, PairInv, Walker
<1>4. ListInv'
  BY Zenon, <1>a DEF NodeFree, tokenVars, ListInv, Listed
<1>5. PlaceInv'
  BY <1>a DEF NodeFree, TypeOK, tokenVars, PlaceInv, Listed, Busy, NodePCs, Pending,
       Settled, Handle
<1>6. NodeInv'
  <2> SUFFICES ASSUME NEW m \in Nodes PROVE NodeInv!(m)'
    BY Zenon DEF NodeInv
  <2>1. CASE m = cb[t]
    <3>1. /\ mem'[m] = "freed" /\ m \notin handles' /\ released[m] = 0
          /\ fired' = fired /\ won' = won
      BY Zenon, <1>a, <2>1 DEF NodeFree, TypeOK, NodeInv
    <3>2. released'[m] = IF m \in HookNodes THEN 1 ELSE 0
      BY <2>1, <3>1 DEF NodeFree, HookRuns, TypeOK
    <3> QED BY Zenon, <1>a, <2>1, <3>1, <3>2 DEF Settled
  <2>2. CASE m # cb[t]
    <3>1. /\ mem'[m] = mem[m] /\ refcount' = refcount /\ list' = list /\ walk' = walk
          /\ handles' = handles /\ fired' = fired /\ won' = won /\ released'[m] = released[m]
      BY <2>2 DEF NodeFree, HookRuns, tokenVars, TypeOK
    <3>2. Listed' = Listed /\ (Pending(m)' <=> Pending(m)) /\ (Settled(m)' <=> Settled(m))
      BY Zenon, <3>1 DEF Listed, Pending, Settled
    <3>3. \A u \in Threads : pc[u] = "in_callback" => pc'[u] = "in_callback" /\ cb'[u] = cb[u]
      BY Zenon, <1>a DEF NodeFree, TypeOK
    <3>4. NodeInv!(m)
      BY Zenon DEF NodeInv
    <3> QED BY Zenon, <3>1, <3>2, <3>3, <3>4
  <2> QED BY Zenon, <2>1, <2>2
<1>7. TokenInv'
  <2>1. Holders' = Holders
    BY Zenon, <1>a DEF NodeFree, TypeOK, Holders
  <2> QED BY <2>1 DEF NodeFree, tokenVars, TokenInv, NodeRefs
<1> QED BY Zenon, <1>1, <1>2, <1>3, <1>4, <1>5, <1>6, <1>7

(* sNodeFree drops the freed node's token reference.                        *)
LEMMA TokenReleaseInv ==
  ASSUME IInv, NEW t \in Threads, TokenRelease(t)
  PROVE  IInv'
<1> USE DEF IInv
<1>a. cb[t] \in Nodes /\ mem[cb[t]] = "freed" /\ pc[t] = "drop_token"
  BY Zenon DEF TokenRelease, ThreadInv, PlaceInv, Busy
<1>b. \A u \in Threads : u # t /\ pc[u] \in Busy => cb[u] # cb[t]
  BY Zenon, <1>a DEF PairInv, Busy
<1>c. cb[t] \in Holders /\ Holders' = Holders \ {cb[t]}
  BY Zenon, <1>a, <1>b DEF TokenRelease, DropTokenRef, AfterNode, nodeVars, TypeOK, Holders,
       Busy
<1>d. NodeRefs > 0 /\ ExistsBijection(1..(NodeRefs - 1), Holders')
  BY Zenon, <1>c, CountRemove DEF TokenInv, NodeRefs
<1>e. tokenRefs \in Nat /\ tokenRefs > 0
  BY <1>d DEF TokenInv, NodeRefs, TypeOK
<1>f. ~tokenFreed /\ \A u \in Threads : pc[u] # "reclaim"
  BY <1>e DEF TokenInv, NodeRefs
<1>g. /\ pc'[t] \in {"reclaim", "idle", "walk"}
      /\ \A u \in Threads : u # t => pc'[u] = pc[u]
  BY Zenon DEF TokenRelease, DropTokenRef, AfterNode, TypeOK
<1>1. TypeOK'
  BY <1>e DEF TokenRelease, DropTokenRef, AfterNode, TypeOK, nodeVars, history, PCs
<1>2. ThreadInv'
  BY Zenon DEF TokenRelease, DropTokenRef, AfterNode, TypeOK, ThreadInv, Busy,
       NodePCs, Walker, Listed
<1>3. PairInv'
  <2>1. /\ pc'[t] \notin Busy /\ pc'[t] # "in_callback" /\ walk' = walk
        /\ \A u \in Threads : u # t => pc'[u] = pc[u] /\ cb'[u] = cb[u]
    BY Zenon, <1>g DEF TokenRelease, TypeOK, Busy, NodePCs
  <2>2. \A u \in Threads : Walker(u)' <=> Walker(u)
    BY Zenon, <1>a, <2>1 DEF Walker
  <2>3. \A u, v \in Threads : PairInv!(u, v)
    BY Zenon DEF PairInv
  <2>4. ASSUME NEW u \in Threads, NEW v \in Threads PROVE PairInv!(u, v)'
    <3>1. CASE u # t /\ v # t
      BY Zenon, <2>1, <2>2, <2>3, <3>1
    <3>2. CASE u = t \/ v = t
      BY Zenon, <1>f, <2>1, <2>2, <2>3, <3>2
    <3> QED BY Zenon, <3>1, <3>2
  <2> QED BY Zenon, <2>4 DEF PairInv
<1>4. ListInv'
  BY Zenon DEF TokenRelease, nodeVars, ListInv, Listed
<1>5. PlaceInv'
  <2>1. /\ mem' = mem /\ refcount' = refcount /\ walk' = walk /\ handles' = handles
        /\ fired' = fired /\ won' = won /\ Listed' = Listed
        /\ \A u \in Threads : u # t => cb'[u] = cb[u]
    BY Zenon DEF TokenRelease, nodeVars, history, Listed, TypeOK
  <2>2. \A m : (Pending(m)' <=> Pending(m)) /\ (Settled(m)' <=> Settled(m)) /\ Handle(m)' = Handle(m)
    BY Zenon, <2>1 DEF Pending, Settled, Handle
  <2>3. PlaceInv!1' /\ PlaceInv!2'
    BY Zenon, <2>1, <2>2 DEF PlaceInv
  <2>4. ASSUME NEW u \in Threads, u # t PROVE PlaceInv!3!(u)'
    <3>1. PlaceInv!3!(u)
      BY Zenon DEF PlaceInv
    <3> QED BY Zenon, <1>g, <2>1, <2>2, <2>4, <3>1
  <2>5. PlaceInv!3!(t)'
    BY Zenon, <1>g
  <2>6. \A u \in Threads : PlaceInv!3!(u)'
    BY ZenonT(30), <2>4, <2>5
  <2> QED BY Zenon, <2>3, <2>6 DEF PlaceInv
<1>6. NodeInv'
  <2> SUFFICES ASSUME NEW m \in Nodes PROVE NodeInv!(m)'
    BY Zenon DEF NodeInv
  <2>1. CASE m = cb[t]
    BY Zenon, <1>a, <2>1 DEF TokenRelease, nodeVars, history, NodeInv, Settled
  <2>2. CASE m # cb[t]
    <3>1. /\ mem' = mem /\ refcount' = refcount /\ list' = list /\ walk' = walk
          /\ handles' = handles /\ fired' = fired /\ won' = won /\ released' = released
      BY Zenon DEF TokenRelease, nodeVars, history
    <3>2. Listed' = Listed /\ (Pending(m)' <=> Pending(m)) /\ (Settled(m)' <=> Settled(m))
      BY Zenon, <3>1 DEF Listed, Pending, Settled
    <3>3. \A u \in Threads : pc[u] = "in_callback" => pc'[u] = "in_callback" /\ cb'[u] = cb[u]
      BY Zenon, <1>a DEF TokenRelease, DropTokenRef, TypeOK
    <3>4. NodeInv!(m)
      BY Zenon DEF NodeInv
    <3> QED BY Zenon, <3>1, <3>2, <3>3, <3>4
  <2> QED BY Zenon, <2>1, <2>2
<1>7. TokenInv'
  <2>1. NodeRefs' = NodeRefs - 1 /\ NodeRefs' \in Nat
    BY <1>d DEF TokenRelease, DropTokenRef, TokenInv, TypeOK, NodeRefs
  <2>2. ~tokenFreed'
    BY Zenon, <1>f DEF TokenRelease
  <2>3. ASSUME NEW u \in Threads, pc'[u] = "reclaim" PROVE tokenRefs' = 0
    BY <1>e, <1>f, <2>3 DEF TokenRelease, DropTokenRef, AfterNode
  <2> QED BY Zenon, <1>d, <2>1, <2>2, <2>3 DEF TokenInv, NodeRefs
<1> QED BY Zenon, <1>1, <1>2, <1>3, <1>4, <1>5, <1>6, <1>7

(* With no reference left, nobody is left to hold one.                      *)
LEMMA NoRefsNoHolders ==
  ASSUME IInv, tokenRefs = 0
  PROVE  /\ callerRefs = 0 /\ Holders = {} /\ Listed = {} /\ handles = {}
         /\ \A n \in Nodes : mem[n] # "live"
         /\ \A t \in Threads : pc[t] \notin Busy /\ walk[t] = <<>>
<1>2. callerRefs = 0 /\ NodeRefs = 0
  BY DEF IInv, TokenInv, TypeOK, NodeRefs
<1>3. Holders = {}
  BY Zenon, <1>2, CountNone DEF IInv, TokenInv
<1>4. \A n \in Nodes : mem[n] # "live"
  BY Zenon, <1>3 DEF Holders
<1>5. Listed \subseteq Nodes /\ \A t \in Threads : Range(walk[t]) \subseteq Nodes
  BY DEF IInv, TypeOK, Listed, Range
<1>6. Listed = {} /\ handles = {}
  BY Zenon, <1>4, <1>5 DEF IInv, PlaceInv, NodeInv, TypeOK
<1>7. ASSUME NEW t \in Threads PROVE pc[t] \notin Busy
  BY <1>3, <1>4 DEF IInv, ThreadInv, PlaceInv, Busy, NodePCs, Holders
<1>8. ASSUME NEW t \in Threads, walk[t] # <<>> PROVE FALSE
  BY <1>4, <1>5, <1>8, TailElements DEF IInv, PlaceInv, ThreadInv, TypeOK
<1> QED BY Zenon, <1>2, <1>3, <1>4, <1>6, <1>7, <1>8

(* The last reference is gone: the list is empty and the token is freed.    *)
LEMMA TokenReclaimInv ==
  ASSUME IInv, NEW t \in Threads, TokenReclaim(t)
  PROVE  IInv'
<1> USE DEF IInv
<1>a. tokenRefs = 0 /\ ~tokenFreed
  BY Zenon DEF TokenReclaim, TokenInv, NodeRefs
<1>b. list = <<>> /\ Listed = {} /\ Range(list) = {} /\ walk[t] = <<>>
  <2>1. Listed = {} /\ walk[t] = <<>>
    BY Zenon, <1>a, NoRefsNoHolders
  <2>2. list = <<>>
    BY Zenon, <2>1, TailElements DEF Listed, ListInv, TypeOK
  <2> QED BY Zenon, <2>1, <2>2 DEF Listed
<1>c. /\ list' = list /\ mem' = mem /\ released' = released
      /\ pc' = [pc EXCEPT ![t] = "idle"] /\ tokenFreed' = TRUE
  BY Zenon, <1>b DEF TokenReclaim, TypeOK, AfterNode
<1>d. /\ mem' = mem /\ released' = released /\ refcount' = refcount /\ handles' = handles
      /\ fired' = fired /\ won' = won /\ walk' = walk /\ cb' = cb /\ Listed' = Listed
  BY Zenon, <1>c DEF TokenReclaim, Listed
<1>e. pc'[t] = "idle" /\ pc[t] = "reclaim" /\ \A u \in Threads : u # t => pc'[u] = pc[u]
  BY Zenon, <1>c DEF TokenReclaim, TypeOK
<1>1. TypeOK'
  BY Zenon, <1>c DEF TokenReclaim, TypeOK, PCs
<1>2. ThreadInv'
  BY <1>b, <1>c DEF TokenReclaim, ThreadInv, Busy, NodePCs, Walker, Listed
<1>3. PairInv'
  BY <1>b, <1>c DEF TokenReclaim, PairInv, Busy, NodePCs, Walker
<1>4. ListInv'
  BY Zenon, <1>c DEF TokenReclaim, ListInv, Listed
<1>f. \A m \in Nodes : (Pending(m)' <=> Pending(m)) /\ (Settled(m)' <=> Settled(m))
  BY Zenon, <1>d DEF Pending, Settled
<1>5. PlaceInv'
  <2>1. PlaceInv!1' /\ PlaceInv!2'
    <3>1. \A m : (Pending(m)' <=> Pending(m)) /\ Handle(m)' = Handle(m)
      BY Zenon, <1>d DEF Pending, Handle
    <3>2. PlaceInv!1 /\ PlaceInv!2
      BY Zenon DEF PlaceInv
    <3> QED BY Zenon, <1>d, <3>1, <3>2
  <2>2. ASSUME NEW u \in Threads, u # t PROVE PlaceInv!3!(u)'
    <3>1. PlaceInv!3!(u)
      BY Zenon DEF PlaceInv
    <3> QED BY Zenon, <1>d, <1>e, <2>2, <3>1 DEF Pending, Settled, Handle
  <2>3. PlaceInv!3!(t)'
    BY Zenon, <1>e
  <2>4. \A u \in Threads : PlaceInv!3!(u)'
    BY ZenonT(30), <2>2, <2>3
  <2> QED BY Zenon, <2>1, <2>4 DEF PlaceInv
<1>6. NodeInv'
  <2> SUFFICES ASSUME NEW m \in Nodes PROVE NodeInv!(m)'
    BY Zenon DEF NodeInv
  <2>1. NodeInv!(m) /\ (Pending(m)' <=> Pending(m)) /\ (Settled(m)' <=> Settled(m))
    BY Zenon, <1>f DEF NodeInv
  <2>2. \A u \in Threads : pc[u] = "in_callback" => pc'[u] = "in_callback"
    BY Zenon, <1>e
  <2> QED BY Zenon, <1>d, <2>1, <2>2
<1>7. TokenInv'
  <2>1. Holders' = Holders
    BY <1>c DEF TokenReclaim, Holders
  <2>2. \A u \in Threads : pc'[u] # "reclaim"
    BY Zenon, <1>c DEF TokenReclaim, TypeOK, PairInv
  <2> QED BY Zenon, <1>a, <2>1, <2>2 DEF TokenReclaim, TokenInv, NodeRefs
<1> QED BY Zenon, <1>1, <1>2, <1>3, <1>4, <1>5, <1>6, <1>7

(* RetainInternal counts one more caller's reference.                       *)
LEMMA RetainInternalInv ==
  ASSUME IInv, RetainInternal
  PROVE  IInv'
<1> USE DEF IInv
<1>a. tokenRefs \in Nat /\ tokenRefs > 0 /\ callerRefs \in Nat
  BY DEF RetainInternal, TokenInv, NodeRefs, TypeOK
<1> USE DEF threadVars
<1>1. TypeOK'
  BY CancellationAssumption DEF RetainInternal, TypeOK, nodeVars, history
<1>2. ThreadInv'
  BY Zenon DEF RetainInternal, ThreadInv, Walker, Listed
<1>3. PairInv'
  BY Zenon DEF RetainInternal, PairInv, Walker
<1>4. ListInv'
  BY Zenon DEF RetainInternal, nodeVars, ListInv, Listed
<1>b. UNCHANGED <<mem, refcount, handles, walk, pc, cb, fired, won, released>> /\ Listed' = Listed
  BY Zenon DEF RetainInternal, nodeVars, history, Listed
<1>5. PlaceInv'
  <2>1. \A m : (Pending(m)' <=> Pending(m)) /\ (Settled(m)' <=> Settled(m)) /\ Handle(m)' = Handle(m)
    BY Zenon, <1>b DEF Pending, Settled, Handle
  <2>2. PlaceInv!1' /\ PlaceInv!2'
    BY Zenon, <1>b, <2>1 DEF PlaceInv
  <2>3. ASSUME NEW u \in Threads PROVE PlaceInv!3!(u)'
    <3>1. PlaceInv!3!(u)
      BY Zenon DEF PlaceInv
    <3> QED BY Zenon, <1>b, <2>1, <3>1
  <2> QED BY Zenon, <2>2, <2>3 DEF PlaceInv
<1>6. NodeInv'
  <2>1. \A m \in Nodes : (Pending(m)' <=> Pending(m)) /\ (Settled(m)' <=> Settled(m))
    BY Zenon, <1>b DEF Pending, Settled
  <2> QED BY Zenon, <1>b, <2>1 DEF NodeInv
<1>7. TokenInv'
  <2>1. Holders' = Holders
    BY Zenon DEF RetainInternal, nodeVars, Holders
  <2> QED BY <1>a, <2>1 DEF RetainInternal, TokenInv, NodeRefs
<1> QED BY Zenon, <1>1, <1>2, <1>3, <1>4, <1>5, <1>6, <1>7

(* Destroy gives up a caller's reference.                                   *)
LEMMA DestroyInv ==
  ASSUME IInv, NEW t \in Threads, Destroy(t)
  PROVE  IInv'
<1> USE DEF IInv
<1>a. tokenRefs \in Nat /\ tokenRefs > 0 /\ callerRefs \in Nat /\ callerRefs > 0
  BY DEF Destroy, TokenInv, NodeRefs, TypeOK
<1>b. ~tokenFreed /\ \A u \in Threads : pc[u] # "reclaim"
  BY <1>a DEF TokenInv, NodeRefs
<1>c. pc[t] = "idle" /\ walk[t] = <<>>
  BY Zenon DEF Destroy, ThreadInv
<1>d. pc' = [pc EXCEPT ![t] = IF tokenRefs = 1 THEN "reclaim" ELSE "idle"]
  BY Zenon, <1>c DEF Destroy, DropTokenRef, AfterNode
<1>e. /\ mem' = mem /\ released' = released /\ refcount' = refcount /\ handles' = handles
      /\ fired' = fired /\ won' = won /\ walk' = walk /\ cb' = cb /\ Listed' = Listed
  BY Zenon DEF Destroy, nodeVars, history, Listed
<1>f. \A m : (Pending(m)' <=> Pending(m)) /\ (Settled(m)' <=> Settled(m)) /\ Handle(m)' = Handle(m)
  BY Zenon, <1>e DEF Pending, Settled, Handle
<1>g. /\ pc'[t] \in {"idle", "reclaim"}
      /\ \A u \in Threads : u # t => pc'[u] = pc[u]
  BY Zenon, <1>d DEF TypeOK
<1>1. TypeOK'
  BY <1>a, <1>d, CancellationAssumption DEF Destroy, DropTokenRef, TypeOK, nodeVars,
       history, PCs
<1>2. ThreadInv'
  BY <1>c, <1>d DEF Destroy, ThreadInv, Busy, NodePCs, Walker, Listed
<1>3. PairInv'
  BY <1>b, <1>c, <1>d DEF Destroy, PairInv, Busy, NodePCs, Walker
<1>4. ListInv'
  BY Zenon DEF Destroy, nodeVars, ListInv, Listed
<1>5. PlaceInv'
  <2>1. PlaceInv!1' /\ PlaceInv!2'
    BY Zenon, <1>e, <1>f DEF PlaceInv
  <2>2. ASSUME NEW u \in Threads PROVE PlaceInv!3!(u)'
    <3>1. PlaceInv!3!(u)
      BY Zenon DEF PlaceInv
    <3> QED BY Zenon, <1>c, <1>e, <1>f, <1>g, <3>1
  <2> QED BY Zenon, <2>1, <2>2 DEF PlaceInv
<1>6. NodeInv'
  <2> SUFFICES ASSUME NEW m \in Nodes PROVE NodeInv!(m)'
    BY Zenon DEF NodeInv
  <2>1. NodeInv!(m) /\ (Pending(m)' <=> Pending(m)) /\ (Settled(m)' <=> Settled(m))
    BY Zenon, <1>f DEF NodeInv
  <2>2. \A u \in Threads : pc[u] = "in_callback" => pc'[u] = "in_callback"
    BY Zenon, <1>c, <1>g
  <2> QED BY Zenon, <1>e, <2>1, <2>2
<1>7. TokenInv'
  <2>1. Holders' = Holders
    BY Zenon, <1>c, <1>e, <1>g DEF Holders
  <2> QED BY <1>a, <1>b, <1>d, <2>1 DEF Destroy, DropTokenRef, TokenInv, NodeRefs
<1> QED BY Zenon, <1>1, <1>2, <1>3, <1>4, <1>5, <1>6, <1>7

-----------------------------------------------------------------------------

(* A node without a handle has one reference: its place's.                  *)
LEMMA NoHandle == 1 + 0 = 1
  OBVIOUS

(* Unregister splits on who still refers to the node: the list (it is       *)
(* withdrawn and freed), the handle alone (its callback is over, it is      *)
(* freed), or Cancel's walk or running callback (it is left to Cancel).     *)
LEMMA UnregisterInv ==
  ASSUME IInv, NEW t \in Threads, NEW n \in Nodes, Unregister(t, n)
  PROVE  IInv'
<1> USE DEF IInv
<1> DEFINE Alone == \A u \in Threads : n \notin Range(walk[u]) /\ (pc[u] \in Busy => cb[u] # n)
           Gone == Alone /\ refcount'[n] = 0 /\ pc'[t] = "free_node" /\ cb'[t] = n /\ Settled(n)'
           Left == refcount'[n] = 1 /\ pc'[t] = "idle" /\ won' = won
<1>1. /\ pc[t] = "idle" /\ walk[t] = <<>> /\ n \in handles /\ mem[n] = "live"
      /\ active = Listed /\ released[n] = 0
  BY Zenon DEF Unregister, ThreadInv, NodeInv, ListInv
<1>2. \A u \in Threads : pc[u] \in Busy /\ cb[u] = n => pc[u] = "in_callback"
  BY <1>1 DEF PlaceInv, Busy, NodePCs
<1>3. /\ list' \in Seq(Nodes) /\ IsInjective(list') /\ Listed' = Listed \ {n}
      /\ isCancelled => list' = <<>>
  <2>1. CASE n \in active
    <3>1. /\ Unlink(list, n) \in Seq(Nodes) /\ IsInjective(Unlink(list, n))
          /\ Range(Unlink(list, n)) = Range(list) \ {n}
      BY Zenon, <1>1, <2>1, UnlinkElements DEF TypeOK, ListInv, Listed
    <3>2. ~isCancelled
      BY Zenon, <1>1, <2>1, EmptyElements DEF ListInv, Listed
    <3> QED BY Zenon, <2>1, <3>1, <3>2 DEF Unregister, Listed
  <2>2. CASE n \notin active
    BY Zenon, <1>1, <2>2 DEF Unregister, TypeOK, ListInv, Listed
  <2> QED BY Zenon, <2>1, <2>2
<1>4. /\ active' = active \ {n} /\ won' = won \cup (active \cap {n})
      /\ claimed' = claimed \cup (active \cap {n}) /\ handles' = handles \ {n}
      /\ tokenRefs' = tokenRefs /\ tokenFreed' = tokenFreed /\ mem' = mem
      /\ isCancelled' = isCancelled /\ callerRefs' = callerRefs
      /\ walk' = walk /\ fired' = fired /\ released' = released
  BY Zenon DEF Unregister, Withdrawn
<1>5. /\ \A u \in Threads : u # t => pc'[u] = pc[u] /\ cb'[u] = cb[u]
      /\ \A m \in Nodes : m # n => refcount'[m] = refcount[m]
  BY DEF Unregister
<1>6. Gone \/ Left
  <2>1. CASE n \in Listed
    <3>1. ~isCancelled /\ \A u \in Threads : walk[u] = <<>> /\ pc[u] # "in_callback"
      BY Zenon, <2>1, EmptyElements DEF ListInv, ThreadInv, Walker, Listed
    <3>2. refcount[n] = 2 /\ Pending(n) /\ Alone
      BY <1>2, <2>1, <3>1, EmptyElements DEF PlaceInv
    <3>3. Settled(n)'
      BY Zenon, <1>1, <1>4, <2>1, <3>2 DEF Pending, Settled
    <3> QED BY <1>1, <2>1, <3>2, <3>3 DEF Unregister, RefsTaken, TypeOK
  <2>2. CASE n \notin Listed /\ Alone
    <3>1. refcount[n] = 1 /\ fired[n] = 1 /\ n \notin won
      BY Zenon, <1>1, <2>2 DEF NodeInv, Busy, NodePCs
    <3>2. Settled(n)'
      BY Zenon, <1>1, <1>4, <2>2, <3>1 DEF Settled
    <3> QED BY <1>1, <2>2, <3>1, <3>2 DEF Unregister, RefsTaken, TypeOK
  <2>3. CASE n \notin Listed /\ ~Alone
    <3>1. refcount[n] = 1 + Handle(n)
      <4>1. PICK u \in Threads : n \in Range(walk[u]) \/ (pc[u] \in Busy /\ cb[u] = n)
        BY Zenon, <2>3
      <4>2. CASE n \in Range(walk[u])
        BY Zenon, <4>2 DEF PlaceInv
      <4>3. CASE pc[u] \in Busy /\ cb[u] = n
        <5>1. pc[u] = "in_callback" /\ PlaceInv!3!(u)
          BY Zenon, <1>2, <4>3 DEF PlaceInv
        <5> QED BY Zenon, <4>3, <5>1
      <4> QED BY Zenon, <4>1, <4>2, <4>3
    <3>2. refcount[n] = 1 + 1
      BY Zenon, <1>1, <3>1 DEF Handle
    <3>3. RefsTaken(n) = 1 /\ n \notin active
      BY Zenon, <1>1, <2>3 DEF RefsTaken
    <3>4. refcount[n] - RefsTaken(n) = 1
      BY <3>2, <3>3
    <3>5. refcount'[n] = 1 /\ pc'[t] = "idle"
      BY <3>4 DEF Unregister, TypeOK
    <3> QED BY Zenon, <1>4, <3>3, <3>5
  <2> QED BY Zenon, <2>1, <2>2, <2>3
<1>7. \A m \in Nodes : m # n =>
        /\ (m \in won' <=> m \in won) /\ (m \in handles' <=> m \in handles)
        /\ (Pending(m)' <=> Pending(m)) /\ (Settled(m)' <=> Settled(m))
        /\ Handle(m)' = Handle(m)
  BY Zenon, <1>4 DEF Pending, Settled, Handle
<1> HIDE DEF Alone
<1>8. TypeOK'
  <2>1. pc' \in [Threads -> PCs] /\ cb' \in [Threads -> Nodes \cup {NoNode}]
    BY Zenon DEF Unregister, TypeOK, PCs
  <2>2. refcount' \in [Nodes -> 0..2]
    BY <1>6 DEF Unregister, TypeOK
  <2> QED BY Zenon, <1>1, <1>3, <1>4, <2>1, <2>2 DEF TypeOK
<1>9. ThreadInv'
  BY Zenon, <1>1, <1>3, <1>4, <1>5, <1>6 DEF ThreadInv, Busy, NodePCs, Walker
<1>10. PairInv'
  <2>1. /\ pc'[t] \in {"idle", "free_node"} /\ walk' = walk
        /\ pc'[t] \in Busy => cb'[t] = n /\ Alone
    BY Zenon, <1>4, <1>6 DEF Busy, NodePCs
  <2>2. \A u \in Threads : Walker(u)' <=> Walker(u)
    BY Zenon, <1>1, <1>5, <2>1 DEF Walker
  <2>3. \A u, v \in Threads : PairInv!(u, v)
    BY Zenon DEF PairInv
  <2>4. ASSUME NEW u \in Threads, NEW v \in Threads, u # t, v # t PROVE PairInv!(u, v)'
    BY Zenon, <1>5, <2>1, <2>2, <2>3, <2>4
  <2>5. ASSUME NEW u \in Threads, u # t PROVE PairInv!(u, t)' /\ PairInv!(t, u)'
    <3>1. pc[u] \in Busy /\ pc'[t] \in Busy => cb[u] # cb'[t]
      BY Zenon, <2>1 DEF Alone
    <3>2. pc'[t] \in Busy => cb'[t] \notin Range(walk[u])
      BY Zenon, <2>1 DEF Alone
    <3> QED BY Zenon, <1>1, <1>5, <2>1, <2>2, <2>3, <2>5, <3>1, <3>2
  <2>6. PairInv!(t, t)'
    BY Zenon, <2>1 DEF Alone
  <2>7. \A u, v \in Threads : PairInv!(u, v)'
    BY Zenon, <2>4, <2>5, <2>6
  <2> QED BY Zenon, <2>7 DEF PairInv
<1>11. ListInv'
  BY Zenon, <1>1, <1>3, <1>4 DEF ListInv
<1>12. PlaceInv'
  <2>1. ASSUME NEW m \in Listed'
        PROVE  (mem[m] = "live" /\ refcount[m] = 2 /\ m \in handles /\ Pending(m))'
    <3>1. m # n /\ m \in Listed /\ m \in Nodes
      BY <1>3, <2>1 DEF PlaceInv, TypeOK
    <3> QED BY <1>4, <1>5, <1>7, <3>1 DEF PlaceInv
  <2>2. ASSUME NEW u \in Threads, NEW m \in Range(walk'[u])
        PROVE  (mem[m] = "live" /\ refcount[m] = 1 + Handle(m) /\ Pending(m))'
    <3>1. m \in Range(walk[u]) /\ m \in Nodes
      <4>1. m \in Range(walk[u]) /\ walk[u] \in Seq(Nodes)
        BY Zenon, <1>4, <2>2 DEF TypeOK
      <4> QED BY Zenon, <4>1, Within
    <3>2. CASE m = n
      <4>1. Left /\ mem[n] = "live" /\ Pending(n)
        BY Zenon, <1>6, <3>1, <3>2 DEF PlaceInv, Alone
      <4>2. Pending(n)' /\ Handle(n)' = 0
        BY Zenon, <1>4, <4>1 DEF Pending, Handle
      <4>3. refcount'[n] = 1 + Handle(n)'
        BY Zenon, <4>1, <4>2, NoHandle
      <4> QED BY Zenon, <1>4, <3>2, <4>1, <4>2, <4>3
    <3>3. CASE m # n
      <4>1. /\ mem'[m] = mem[m] /\ refcount'[m] = refcount[m] /\ Handle(m)' = Handle(m)
            /\ Pending(m)' <=> Pending(m)
        BY Zenon, <1>4, <1>5, <1>7, <3>1, <3>3
      <4>2. mem[m] = "live" /\ refcount[m] = 1 + Handle(m) /\ Pending(m)
        BY Zenon, <3>1 DEF PlaceInv
      <4> QED BY Zenon, <4>1, <4>2
    <3> QED BY Zenon, <3>2, <3>3
  <2>3. ASSUME NEW u \in Threads, u # t, pc[u] \in Busy, cb[u] = n
        PROVE  PlaceInv!3!(u)'
    <3>1. Left /\ mem[n] = "live" /\ fired[n] = 1 /\ n \notin won
      BY <1>2, <1>6, <2>3 DEF PlaceInv, Alone
    <3>2. Handle(n)' = 0 /\ pc'[u] = "in_callback" /\ cb'[u] = n
      BY Zenon, <1>2, <1>4, <1>5, <2>3 DEF Handle
    <3>3. refcount'[n] = 1 + Handle(n)'
      BY Zenon, <3>1, <3>2, NoHandle
    <3> QED BY Zenon, <1>4, <3>1, <3>2, <3>3
  <2>4. ASSUME NEW u \in Threads, u # t, pc[u] \in Busy => cb[u] # n
        PROVE  PlaceInv!3!(u)'
    <3>1. pc[u] \in Busy => cb[u] \in Nodes
      BY Zenon DEF ThreadInv
    <3>2. CASE pc[u] \in Busy
      <4> DEFINE m == cb[u]
      <4>1. /\ m \in Nodes /\ m # n /\ cb'[u] = m /\ pc'[u] = pc[u] /\ mem'[m] = mem[m]
            /\ refcount'[m] = refcount[m] /\ fired'[m] = fired[m]
            /\ (m \in won' <=> m \in won) /\ (m \in handles' <=> m \in handles)
        BY Zenon, <1>4, <1>5, <1>7, <2>4, <3>1, <3>2
      <4>2. PlaceInv!3!(u)
        BY Zenon DEF PlaceInv
      <4> HIDE DEF m
      <4> QED BY Zenon, <4>1, <4>2 DEF Pending, Settled, Handle, m
    <3>3. CASE pc[u] \notin Busy
      BY Zenon, <1>5, <2>4, <3>3 DEF Busy, NodePCs
    <3> QED BY Zenon, <3>2, <3>3
  <2>5. PlaceInv!3!(t)'
    BY Zenon, <1>1, <1>4, <1>6
  <2>6. \A u \in Threads : PlaceInv!3!(u)'
    BY ZenonT(30), <2>3, <2>4, <2>5
  <2> QED BY Zenon, <2>1, <2>2, <2>6 DEF PlaceInv
<1>13. NodeInv'
  <2> SUFFICES ASSUME NEW m \in Nodes PROVE NodeInv!(m)'
    BY Zenon DEF NodeInv
  <2>1. CASE m = n
    BY Zenon, <1>1, <1>4, <1>6, <2>1 DEF NodeInv, Pending, Settled
  <2>2. CASE m # n
    <3>1. /\ mem' = mem /\ refcount'[m] = refcount[m] /\ walk' = walk /\ released' = released
          /\ (m \in won' <=> m \in won) /\ (m \in handles' <=> m \in handles) /\ fired' = fired
          /\ (Pending(m)' <=> Pending(m)) /\ (Settled(m)' <=> Settled(m))
          /\ m \in Listed => m \in Listed'
      BY Zenon, <1>3, <1>4, <1>5, <1>7, <2>2
    <3>2. \A u \in Threads : pc[u] = "in_callback" => pc'[u] = pc[u] /\ cb'[u] = cb[u]
      BY Zenon, <1>1, <1>5
    <3>3. NodeInv!(m)
      BY Zenon DEF NodeInv
    <3> QED BY Zenon, <3>1, <3>2, <3>3
  <2> QED BY Zenon, <2>1, <2>2
<1>14. TokenInv'
  <2>1. Holders' = Holders
    BY <1>1, <1>4, <1>5, <1>6 DEF Holders
  <2> QED BY Zenon, <1>1, <1>4, <1>5, <1>6, <2>1 DEF TokenInv, NodeRefs
<1> QED BY Zenon, <1>8, <1>9, <1>10, <1>11, <1>12, <1>13, <1>14

-----------------------------------------------------------------------------
(* Stuttering steps, among them Finished.                                   *)
LEMMA StutterInv ==
  ASSUME IInv, UNCHANGED vars
  PROVE  IInv'
<1> USE DEF vars, tokenVars, nodeVars, threadVars, history
<1>1. TypeOK' /\ ThreadInv' /\ PairInv' /\ ListInv'
  BY ZenonT(30) DEF IInv, TypeOK, ThreadInv, PairInv, ListInv, Walker, Listed
<1>2. \A n \in Nodes : (Pending(n)' <=> Pending(n)) /\ (Settled(n)' <=> Settled(n))
  BY Zenon DEF Pending, Settled
<1>3. PlaceInv'
  <2>1. PlaceInv!1' /\ PlaceInv!2'
    <3>1. /\ Listed' = Listed /\ mem' = mem /\ refcount' = refcount /\ handles' = handles
          /\ walk' = walk
      BY Zenon DEF Listed
    <3>2. \A m : (Pending(m)' <=> Pending(m)) /\ Handle(m)' = Handle(m)
      BY Zenon DEF Pending, Handle
    <3>3. PlaceInv!1 /\ PlaceInv!2
      BY Zenon DEF IInv, PlaceInv
    <3> QED BY Zenon, <3>1, <3>2, <3>3
  <2>2. ASSUME NEW u \in Threads PROVE PlaceInv!3!(u)'
    <3>1. PlaceInv!3!(u)
      BY Zenon DEF IInv, PlaceInv
    <3> QED BY Zenon, <3>1 DEF Pending, Settled, Handle
  <2> QED BY Zenon, <2>1, <2>2 DEF PlaceInv
<1>4. NodeInv'
  BY Zenon, <1>2 DEF IInv, NodeInv, Listed
<1>5. TokenInv'
  BY Zenon DEF IInv, TokenInv, NodeRefs, Holders
<1> QED BY Zenon, <1>1, <1>3, <1>4, <1>5 DEF IInv

(* Every step of the token's threads preserves the invariant.               *)
LEMMA NextInv == IInv /\ [Next]_vars => IInv'
<1> SUFFICES ASSUME IInv, [Next]_vars PROVE IInv'
  OBVIOUS
<1>1. ASSUME NEW t \in Threads, Step(t) PROVE IInv'
  BY Zenon, <1>1, RegisterLinkInv, RegisterLateInv, InlineEnterInv, InlineReturnInv,
     CallbackEnterInv, CallbackReturnInv, NodeFreeInv, TokenReleaseInv,
     TokenReclaimInv DEF Step
<1>2. ASSUME NEW t \in Threads, Call(t) PROVE IInv'
  BY Zenon, <1>2, RegisterAllocInv, UnregisterInv, CancelInv, DestroyInv DEF Call
<1>3. CASE Finished
  BY Zenon, <1>3, StutterInv DEF Finished
<1>4. CASE UNCHANGED vars
  BY Zenon, <1>4, StutterInv
<1> QED BY Zenon, <1>1, <1>2, <1>3, <1>4, RetainInternalInv DEF Next

(* The inductive invariant holds in every reachable state, for any number   *)
(* of threads and registrations: each node's references are exactly its     *)
(* handle's and its list's, and the token's exactly its callers' and its    *)
(* nodes'.                                                                  *)
THEOREM Invariance == Spec => []IInv
<1> QED BY InitInv, NextInv, PTL DEF Spec

(* Types, and no counter below zero: refcounts are never dropped too often. *)
THEOREM TypeCorrect == Spec => []TypeOK
<1>1. IInv => TypeOK
  BY Zenon DEF IInv
<1> QED BY <1>1, Invariance, PTL

(* No step of Cancel, Unregister, Register or of a running callback         *)
(* dereferences a freed node.                                               *)
THEOREM NodesSafe == Spec => []NoDanglingNode
<1>1. IInv => NoDanglingNode
  <2> SUFFICES ASSUME IInv,
                      NEW n \in Listed \cup handles \cup UNION {Touches(t) : t \in Threads}
               PROVE  mem[n] = "live"
    BY Zenon DEF NoDanglingNode
  <2>1. CASE n \in Listed
    BY Zenon, <2>1 DEF IInv, PlaceInv
  <2>2. CASE n \in handles
    BY Zenon, <2>2 DEF IInv, NodeInv, TypeOK
  <2>3. ASSUME NEW t \in Threads, n \in Touches(t) PROVE mem[n] = "live"
    BY <2>3 DEF IInv, PlaceInv, Touches
  <2> QED BY Zenon, <2>1, <2>2, <2>3
<1> QED BY <1>1, Invariance, PTL

(* The token is freed only after every node, every handle, every caller's   *)
(* reference and every call in progress is gone.                            *)
THEOREM TokenSafe == Spec => []TokenOutlivesUsers
<1>1. IInv => TokenOutlivesUsers
  <2> SUFFICES ASSUME IInv, tokenFreed
               PROVE  /\ callerRefs = 0 /\ handles = {}
                      /\ \A n \in Nodes : mem[n] # "live"
                      /\ \A t \in Threads : pc[t] = "idle"
    BY Zenon DEF TokenOutlivesUsers
  <2>1. tokenRefs = 0 /\ \A t \in Threads : pc[t] # "reclaim"
    BY Zenon DEF IInv, TokenInv, NodeRefs
  <2>2. \A t \in Threads : pc[t] # "walk"
    BY Zenon, <2>1, NoRefsNoHolders DEF IInv, ThreadInv
  <2> QED BY Zenon, <2>1, <2>2, NoRefsNoHolders DEF IInv, TypeOK, PCs, Busy, NodePCs
<1> QED BY <1>1, Invariance, PTL

(* A callback runs at most once, never when it was withdrawn, and its hook  *)
(* runs once, when the node is settled.                                     *)
THEOREM OneShot == Spec => [](SettledOnce /\ ReclaimedIsSettled)
<1>1. ASSUME IInv PROVE ReclaimedIsSettled
  BY <1>1 DEF IInv, NodeInv, Settled, ReclaimedIsSettled
<1>2. IInv => SettledOnce
  BY DEF IInv, NodeInv, SettledOnce, Pending, Settled
<1> QED BY <1>1, <1>2, Invariance, PTL

-----------------------------------------------------------------------------
(* A node the step leaves alone keeps its keeper.                           *)
LEMMA KeptFrame ==
  ASSUME KeptInv, NEW m \in Nodes, mem'[m] = "live" => mem[m] = "live",
         m \in handles => m \in handles',
         \A u \in Threads : m \in Range(walk[u]) => m \in Range(walk'[u]),
         \A u \in Threads : pc[u] \in NodePCs /\ cb[u] = m => pc'[u] \in NodePCs /\ cb'[u] = m
  PROVE  mem'[m] = "live" => Kept(m)'
  BY Zenon DEF KeptInv, Kept

LEMMA LateFrame ==
  ASSUME KeptInv, isCancelled => isCancelled',
         \A u \in Threads : pc'[u] \in {"inline", "in_inline"} =>
                             pc[u] \in {"inline", "in_inline"} \/ isCancelled,
         \A m \in Nodes : mem'[m] = "live" => Kept(m)'
  PROVE  KeptInv'
  BY Zenon DEF KeptInv

(* Steps that only move a thread, and Cancel.                               *)
LEMMA QuietKept ==
  ASSUME IInv, KeptInv, NEW t \in Threads,
         \/ RegisterLate(t) \/ InlineEnter(t) \/ TokenRelease(t) \/ TokenReclaim(t)
         \/ Cancel(t) \/ Destroy(t)
  PROVE  KeptInv'
<1>a. TypeOK
  BY Zenon DEF IInv
<1>1. /\ handles' = handles /\ (isCancelled => isCancelled')
      /\ \A m \in Nodes : mem'[m] = "live" => mem[m] = "live"
      /\ \A u \in Threads : u # t => pc'[u] = pc[u] /\ cb'[u] = cb[u] /\ walk'[u] = walk[u]
  <2>1. CASE TokenReclaim(t)
    <3>1. \A m \in Nodes : mem'[m] = IF m \in Range(list) THEN "freed" ELSE mem[m]
      BY Zenon, <2>1 DEF TokenReclaim
    <3>2. \A m \in Nodes : mem'[m] = "live" => mem[m] = "live"
      BY <3>1
    <3> QED BY Zenon, <1>a, <2>1, <3>2 DEF TokenReclaim, TypeOK
  <2>2. CASE Cancel(t)
    BY Zenon, <1>a, <2>2 DEF Cancel, TypeOK
  <2>3. CASE RegisterLate(t) \/ InlineEnter(t) \/ TokenRelease(t) \/ Destroy(t)
    BY Zenon, <1>a, <2>3 DEF RegisterLate, InlineEnter, TokenRelease, Destroy, DropTokenRef, TypeOK,
         tokenVars, nodeVars
  <2> QED BY Zenon, <2>1, <2>2, <2>3
<1>2. \A m : m \in Range(walk[t]) => m \in Range(walk'[t])
  <2>1. CASE Cancel(t)
    <3>1. walk[t] = <<>>
      BY Zenon, <2>1 DEF Cancel, IInv, ThreadInv
    <3> QED BY Zenon, <3>1, EmptyElements
  <2>2. CASE RegisterLate(t) \/ InlineEnter(t) \/ TokenRelease(t) \/ TokenReclaim(t) \/ Destroy(t)
    BY Zenon, <2>2 DEF RegisterLate, InlineEnter, TokenRelease, TokenReclaim, Destroy
  <2> QED BY Zenon, <2>1, <2>2
<1>3. /\ pc[t] \in NodePCs => pc'[t] \in NodePCs /\ cb'[t] = cb[t]
      /\ pc'[t] \in {"inline", "in_inline"} => pc[t] \in {"inline", "in_inline"} \/ isCancelled
  <2>1. CASE RegisterLate(t) \/ InlineEnter(t)
    BY Zenon, <1>a, <2>1 DEF RegisterLate, InlineEnter, TypeOK, NodePCs
  <2>2. CASE TokenRelease(t) \/ TokenReclaim(t) \/ Cancel(t) \/ Destroy(t)
    <3>1. pc[t] \in {"drop_token", "reclaim", "idle"} /\ pc'[t] \in {"reclaim", "idle", "walk"}
      BY Zenon, <1>a, <2>2 DEF TokenRelease, TokenReclaim, Cancel, Destroy, DropTokenRef, AfterNode, TypeOK
    <3> QED BY Zenon, <3>1 DEF NodePCs
  <2> QED BY Zenon, <2>1, <2>2
<1>4. ASSUME NEW m \in Nodes PROVE mem'[m] = "live" => Kept(m)'
  <2>1. /\ \A u \in Threads : m \in Range(walk[u]) => m \in Range(walk'[u])
        /\ \A u \in Threads : pc[u] \in NodePCs /\ cb[u] = m => pc'[u] \in NodePCs /\ cb'[u] = m
    BY Zenon, <1>1, <1>2, <1>3
  <2> QED BY Zenon, <1>1, <2>1, KeptFrame
<1>5. \A u \in Threads : pc'[u] \in {"inline", "in_inline"} =>
                            pc[u] \in {"inline", "in_inline"} \/ isCancelled
  BY Zenon, <1>1, <1>3
<1> QED BY Zenon, <1>1, <1>4, <1>5, LateFrame

(* Steps at one node.                                                       *)
LEMMA NodeKept ==
  ASSUME IInv, KeptInv, NEW t \in Threads, NEW n \in Nodes,
         \/ RegisterAlloc(t, n) \/ Unregister(t, n)
         \/ pc[t] # "walk" /\ cb[t] = n /\ (RegisterLink(t) \/ InlineReturn(t)
                                             \/ CallbackReturn(t) \/ NodeFree(t))
         \/ Head(walk[t]) = n /\ CallbackEnter(t)
  PROVE  KeptInv'
<1>a. TypeOK /\ PlaceInv /\ NodeInv /\ ListInv
  BY Zenon DEF IInv
<1>1. /\ isCancelled' = isCancelled
      /\ \A m \in Nodes : m # n => mem'[m] = mem[m] /\ (m \in handles => m \in handles')
      /\ \A u \in Threads : u # t => pc'[u] = pc[u] /\ cb'[u] = cb[u] /\ walk'[u] = walk[u]
      /\ pc'[t] \notin {"inline", "in_inline"}
  <2>1. CASE RegisterAlloc(t, n) \/ Unregister(t, n) \/ RegisterLink(t)
    BY Zenon, <1>a, <2>1 DEF RegisterAlloc, Unregister, RegisterLink, TypeOK
  <2>2. CASE InlineReturn(t) \/ (NodeFree(t) /\ cb[t] = n)
    BY Zenon, <1>a, <2>2 DEF InlineReturn, NodeFree, TypeOK, tokenVars, nodeVars
  <2>3. CASE CallbackReturn(t) \/ CallbackEnter(t)
    <3>1. pc'[t] \in {"free_node", "idle", "walk", "in_callback"}
      BY Zenon, <1>a, <2>3 DEF CallbackReturn, CallbackEnter, AfterNode, TypeOK
    <3> QED BY Zenon, <1>a, <2>3, <3>1 DEF CallbackReturn, CallbackEnter, TypeOK, tokenVars, nodeVars
  <2> QED BY Zenon, <2>1, <2>2, <2>3
<1>2. \A m : m # n /\ m \in Range(walk[t]) => m \in Range(walk'[t])
  <2>1. CASE CallbackEnter(t) /\ Head(walk[t]) = n
    <3>1. PICK q \in Seq(Nodes) : q = walk[t]
      BY Zenon, <1>a DEF TypeOK
    <3>2. q # <<>> /\ IsInjective(q) /\ n = Head(q) /\ walk'[t] = Tail(q)
      BY Zenon, <1>a, <2>1, <3>1 DEF CallbackEnter, TypeOK, IInv, ThreadInv
    <3>3. \A x : x \in Range(Tail(q)) <=> x \in Range(q) /\ x # n
      BY Zenon, <3>2, TailMembers
    <3> QED BY Zenon, <3>1, <3>2, <3>3
  <2>2. CASE walk' = walk
    BY Zenon, <2>2
  <2> QED BY Zenon, <2>1, <2>2 DEF RegisterAlloc, Unregister, RegisterLink, InlineReturn,
       CallbackReturn, NodeFree
<1>3. pc[t] \in NodePCs => cb[t] = n
  BY Zenon DEF RegisterAlloc, Unregister, RegisterLink, InlineReturn, CallbackReturn, NodeFree,
       CallbackEnter, NodePCs
<1>4. ASSUME NEW m \in Nodes, m # n PROVE mem'[m] = "live" => Kept(m)'
  <2>1. /\ \A u \in Threads : m \in Range(walk[u]) => m \in Range(walk'[u])
        /\ \A u \in Threads : pc[u] \in NodePCs /\ cb[u] = m => pc'[u] \in NodePCs /\ cb'[u] = m
    BY Zenon, <1>1, <1>2, <1>3, <1>4
  <2> QED BY Zenon, <1>1, <1>4, <2>1, KeptFrame
<1>5. mem'[n] = "live" => Kept(n)'
  <2>1. CASE RegisterAlloc(t, n) \/ (CallbackEnter(t) /\ Head(walk[t]) = n)
    <3>1. pc'[t] \in NodePCs /\ cb'[t] = n
      BY Zenon, <1>a, <2>1 DEF RegisterAlloc, CallbackEnter, TypeOK, NodePCs
    <3> QED BY Zenon, <3>1 DEF Kept
  <2>2. CASE cb[t] = n /\ (RegisterLink(t) \/ InlineReturn(t))
    <3>1. n \in handles'
      BY Zenon, <2>2 DEF RegisterLink, InlineReturn
    <3> QED BY Zenon, <3>1 DEF Kept
  <2>3. CASE cb[t] = n /\ NodeFree(t)
    <3>1. mem'[n] = "freed"
      BY Zenon, <1>a, <2>3 DEF NodeFree, TypeOK
    <3> QED BY <3>1
  <2>4. CASE cb[t] = n /\ CallbackReturn(t)
    <3>1. CASE refcount[n] = 1
      <4>1. pc'[t] = "free_node" /\ cb'[t] = n
        BY Zenon, <1>a, <2>4, <3>1 DEF CallbackReturn, TypeOK
      <4> QED BY Zenon, <4>1 DEF Kept, NodePCs
    <3>2. CASE refcount[n] # 1
      <4>1. refcount[n] = 1 + Handle(n)
        BY Zenon, <1>a, <2>4 DEF CallbackReturn, PlaceInv
      <4>2. n \in handles
        BY <3>2, <4>1 DEF Handle
      <4>3. n \in handles'
        BY Zenon, <2>4, <4>2 DEF CallbackReturn
      <4> QED BY Zenon, <4>3 DEF Kept
    <3> QED BY Zenon, <3>1, <3>2
  <2>5. CASE Unregister(t, n)
    <3>1. n \in handles /\ pc[t] = "idle" /\ walk' = walk
      BY Zenon, <2>5 DEF Unregister
    <3>2. CASE refcount[n] - RefsTaken(n) = 0
      <4>1. pc'[t] = "free_node" /\ cb'[t] = n
        BY Zenon, <1>a, <2>5, <3>2 DEF Unregister, TypeOK
      <4> QED BY Zenon, <4>1 DEF Kept, NodePCs
    <3>3. CASE refcount[n] - RefsTaken(n) # 0
      <4>1. n \notin Listed
        <5>1. ASSUME n \in Listed PROVE n \in active /\ refcount[n] = 2
          BY Zenon, <1>a, <5>1 DEF PlaceInv, ListInv
        <5> QED BY <3>3, <5>1 DEF RefsTaken
      <4>2. n \notin active
        BY Zenon, <1>a, <4>1 DEF ListInv
      <4>3. refcount[n] # 1
        BY <3>3, <4>2 DEF RefsTaken
      <4>4. \/ \E u \in Threads : n \in Range(walk[u])
            \/ \E u \in Threads : pc[u] = "in_callback" /\ cb[u] = n
        BY Zenon, <1>a, <3>1, <4>1, <4>3 DEF NodeInv
      <4>5. ASSUME NEW u \in Threads, pc[u] = "in_callback", cb[u] = n
            PROVE  pc'[u] \in NodePCs /\ cb'[u] = n
        <5>1. u # t
          BY <3>1, <4>5
        <5> QED BY Zenon, <1>1, <4>5, <5>1 DEF NodePCs
      <4> QED BY Zenon, <3>1, <4>4, <4>5 DEF Kept
    <3> QED BY Zenon, <3>2, <3>3
  <2> QED BY Zenon, <2>1, <2>2, <2>3, <2>4, <2>5
<1>6. \A m \in Nodes : mem'[m] = "live" => Kept(m)'
  BY Zenon, <1>4, <1>5
<1>7. \A u \in Threads : pc'[u] \in {"inline", "in_inline"} =>
                            pc[u] \in {"inline", "in_inline"} \/ isCancelled
  BY Zenon, <1>1
<1> QED BY Zenon, <1>1, <1>6, <1>7, LateFrame

LEMMA InitKept == Init => KeptInv
<1> SUFFICES ASSUME Init PROVE KeptInv
  OBVIOUS
<1>1. \A n \in Nodes : mem[n] # "live"
  BY DEF Init
<1>2. \A t \in Threads : pc[t] \notin {"inline", "in_inline"}
  BY DEF Init
<1> QED BY Zenon, <1>1, <1>2 DEF KeptInv

LEMMA NextKept == IInv /\ KeptInv /\ [Next]_vars => KeptInv'
<1> SUFFICES ASSUME IInv, KeptInv, [Next]_vars PROVE KeptInv'
  OBVIOUS
<1>a. ThreadInv /\ TypeOK
  BY Zenon DEF IInv
<1>1. ASSUME NEW t \in Threads, Step(t) PROVE KeptInv'
  <2>1. CASE RegisterLate(t) \/ InlineEnter(t) \/ TokenRelease(t) \/ TokenReclaim(t)
    BY Zenon, <2>1, QuietKept
  <2>2. CASE RegisterLink(t) \/ InlineReturn(t) \/ CallbackReturn(t) \/ NodeFree(t)
    <3>1. pc[t] \in {"register", "in_inline", "in_callback", "free_node"}
      BY Zenon, <2>2 DEF RegisterLink, InlineReturn, CallbackReturn, NodeFree
    <3>2. cb[t] \in Nodes /\ pc[t] # "walk"
      BY Zenon, <1>a, <3>1 DEF ThreadInv, Busy, NodePCs
    <3> QED BY Zenon, <2>2, <3>2, NodeKept
  <2>3. CASE CallbackEnter(t)
    <3>1. walk[t] \in Seq(Nodes) /\ walk[t] # <<>>
      BY Zenon, <1>a, <2>3 DEF CallbackEnter, ThreadInv, TypeOK
    <3>2. Head(walk[t]) \in Nodes
      BY <3>1
    <3> QED BY Zenon, <2>3, <3>2, NodeKept
  <2> QED BY Zenon, <1>1, <2>1, <2>2, <2>3 DEF Step
<1>2. ASSUME NEW t \in Threads, Call(t) PROVE KeptInv'
  BY Zenon, <1>2, NodeKept, QuietKept DEF Call
<1>3. CASE RetainInternal \/ UNCHANGED vars
  <2>1. UNCHANGED <<isCancelled, mem, handles, walk, pc, cb>>
    BY Zenon, <1>3 DEF RetainInternal, vars, tokenVars, nodeVars, threadVars
  <2> QED BY Zenon, <2>1 DEF KeptInv, Kept
<1> QED BY Zenon, <1>1, <1>2, <1>3 DEF Next, Finished

(* A node stays allocated only for its handle, for Cancel's walk or for a   *)
(* thread at work on it: none is forgotten.                                 *)
THEOREM NodesKept == Spec => []KeptInv
<1> QED BY InitInv, InitKept, NextInv, NextKept, PTL DEF Spec

-----------------------------------------------------------------------------
(* The token as a one-shot registry, step by step.                          *)
Runs(t, n) == pc[t] \in {"in_callback", "in_inline"} /\ cb[t] = n

LEMMA RunningSame ==
  ASSUME NEW t \in Threads, NEW n, Runs(t, n)' <=> Runs(t, n),
         \A u \in Threads : u # t => pc'[u] = pc[u] /\ cb'[u] = cb[u]
  PROVE  Running(n)' <=> Running(n)
  BY Zenon DEF Running, Runs

(* A registration that keeps its claim, its history and its callback under  *)
(* way keeps its phase.                                                     *)
LEMMA PhaseSame ==
  ASSUME NEW n \in Nodes, n \in won' <=> n \in won, fired'[n] = fired[n],
         Running(n)' <=> Running(n), n \in claimed' <=> n \in claimed,
         n \in active' <=> n \in active
  PROVE  PhaseOf(n)' = PhaseOf(n)
  BY Zenon DEF PhaseOf

LEMMA RegistryStutters ==
  ASSUME isCancelled' = isCancelled,
         \A n \in Nodes : PhaseOf(n)' = PhaseOf(n) /\ released'[n] = released[n]
  PROVE  UNCHANGED Registry!rvars
<1>1. [n \in Nodes |-> PhaseOf(n)]' = [n \in Nodes |-> PhaseOf(n)]
  BY Zenon
<1>2. [n \in Nodes |-> released[n] > 0]' = [n \in Nodes |-> released[n] > 0]
  BY Zenon
<1> QED BY Zenon, <1>1, <1>2 DEF Registry!rvars

LEMMA RegistryMoves ==
  ASSUME isCancelled' = isCancelled, released' = released,
         NEW n \in Nodes, NEW from, NEW to, PhaseOf(n) = from, PhaseOf(n)' = to,
         \A m \in Nodes : m # n => PhaseOf(m)' = PhaseOf(m)
  PROVE  Registry!Move(n, from, to)
<1>1. [m \in Nodes |-> PhaseOf(m)]' =
        [[m \in Nodes |-> PhaseOf(m)] EXCEPT ![n] = to]
  <2>1. \A m \in Nodes : PhaseOf(m)' = IF m = n THEN to ELSE PhaseOf(m)
    BY Zenon
  <2> QED BY Zenon, <2>1
<1>2. [m \in Nodes |-> PhaseOf(m)][n] = from
  BY Zenon
<1>3. [m \in Nodes |-> released[m] > 0]' = [m \in Nodes |-> released[m] > 0]
  BY Zenon
<1> QED BY Zenon, <1>1, <1>2, <1>3 DEF Registry!Move

(* Calls and returns a registration does not notice.                        *)
LEMMA SilentSteps ==
  ASSUME IInv, ClaimInv, NEW t \in Threads,
         TokenRelease(t) \/ Destroy(t) \/ \E n \in Nodes : RegisterAlloc(t, n)
  PROVE  ClaimInv' /\ UNCHANGED Registry!rvars
<1> USE DEF IInv, tokenVars, nodeVars, history
<1>1. /\ UNCHANGED <<isCancelled, list, active, claimed, walk, history>>
      /\ \A u \in Threads : u # t => pc'[u] = pc[u] /\ cb'[u] = cb[u]
      /\ pc[t] \in {"drop_token", "idle"}
  BY Zenon DEF TokenRelease, Destroy, RegisterAlloc, DropTokenRef, TypeOK
<1>2. /\ \A n \in Nodes : mem'[n] = "unused" => mem[n] = "unused"
      /\ pc'[t] \in {"idle", "walk", "reclaim", "register"}
      /\ pc'[t] = "register" => cb'[t] \in Nodes /\ mem[cb'[t]] = "unused"
  <2>1. CASE TokenRelease(t) \/ Destroy(t)
    BY Zenon, <2>1 DEF TokenRelease, Destroy, DropTokenRef, AfterNode, TypeOK
  <2>2. ASSUME NEW n \in Nodes, RegisterAlloc(t, n)
        PROVE  /\ \A m \in Nodes : mem'[m] = "unused" => mem[m] = "unused"
               /\ pc'[t] = "register" /\ cb'[t] = n /\ mem[n] = "unused"
    BY Zenon, <2>2 DEF RegisterAlloc, TypeOK
  <2> QED BY Zenon, <2>1, <2>2
<1>3. ClaimInv'
  BY <1>1, <1>2 DEF ClaimInv, Listed
<1>4. ASSUME NEW n \in Nodes PROVE PhaseOf(n)' = PhaseOf(n)
  <2>1. Running(n)' <=> Running(n)
    BY <1>1, <1>2, RunningSame DEF Runs
  <2> QED BY Zenon, <1>1, <2>1, PhaseSame
<1> QED BY Zenon, <1>1, <1>3, <1>4, RegistryStutters

(* RegisterEx arms a registration, or makes it due at once.                 *)
LEMMA RegisterSteps ==
  ASSUME IInv, ClaimInv, NEW t \in Threads, RegisterLink(t) \/ RegisterLate(t)
  PROVE  ClaimInv' /\ \E n \in Nodes : Registry!Arm(n)
<1> USE DEF tokenVars, history
<1>a. TypeOK /\ ListInv
  BY Zenon DEF IInv
<1>b. pc[t] = "register" /\ pc[t] \in Busy
  BY Zenon DEF RegisterLink, RegisterLate, Busy, NodePCs
<1>0. PICK n \in Nodes : n = cb[t]
  BY Zenon, <1>b DEF IInv, ThreadInv
<1>c. n \notin Listed
  BY Zenon, <1>b, <1>0 DEF IInv, ThreadInv
<1>d. n \notin claimed
  BY Zenon, <1>b, <1>0 DEF ClaimInv
<1>e. mem[n] = "live" /\ Pending(n)
  BY Zenon, <1>b, <1>0 DEF IInv, PlaceInv
<1>f. \A u \in Threads : u # t /\ pc[u] = "register" => cb[u] # n
  BY Zenon, <1>b, <1>0 DEF IInv, PairInv, Busy, NodePCs
<1>g. \A u \in Threads : n \notin Range(walk[u])
  BY Zenon, <1>b, <1>0 DEF IInv, PairInv
<1>1. n \in Nodes /\ n \notin claimed /\ fired[n] = 0 /\ n \notin won
  BY Zenon, <1>c, <1>d, <1>e DEF Pending
<1>2. PhaseOf(n) = "fresh"
  BY <1>a, <1>c, <1>1 DEF PhaseOf, ListInv
<1>3. /\ isCancelled' = isCancelled /\ mem' = mem /\ walk' = walk
      /\ fired' = fired /\ won' = won /\ released' = released
      /\ \A u \in Threads : u # t => pc'[u] = pc[u] /\ cb'[u] = cb[u]
      /\ pc'[t] \in {"idle", "inline"} /\ (pc'[t] = "inline" => cb'[t] = n)
  BY Zenon, <1>a, <1>0 DEF RegisterLink, RegisterLate, TypeOK
<1>4. ASSUME NEW m PROVE Running(m)' <=> Running(m)
  <2>1. Runs(t, m)' <=> Runs(t, m)
    BY <1>b, <1>3 DEF Runs
  <2> QED BY Zenon, <1>3, <2>1, RunningSame
<1>5. CASE RegisterLink(t)
  <2>1. /\ ~isCancelled /\ active' = active \cup {n} /\ claimed' = claimed
        /\ list' = <<n>> \o list /\ pc'[t] = "idle"
    BY Zenon, <1>5, <1>a, <1>0 DEF RegisterLink, TypeOK
  <2>2. Listed' = Listed \cup {n}
    <3>1. list \in Seq(Nodes) /\ n \notin Range(list) /\ IsInjective(list)
      BY Zenon, <1>a, <1>c DEF Listed, ListInv, TypeOK
    <3>2. PICK s \in Seq(Nodes) : s = list
      BY Zenon, <3>1
    <3>3. n \notin Range(s) /\ IsInjective(s)
      BY Zenon, <3>1, <3>2
    <3>4. Range(<<n>> \o s) = Range(s) \cup {n}
      BY ZenonT(30), <1>c, <3>3, ConsElements
    <3> QED BY Zenon, <2>1, <3>2, <3>4 DEF Listed
  <2>3. ClaimInv'
    <3>1. \A m \in Nodes : mem'[m] = "unused" => m \notin claimed'
      BY Zenon, <1>3, <2>1 DEF ClaimInv
    <3>2. Listed' \cap claimed' = {}
      BY Zenon, <1>1, <2>1, <2>2 DEF ClaimInv
    <3>3. ASSUME NEW u \in Threads, u # t
          PROVE  /\ pc'[u] = "register" => cb'[u] \notin claimed'
                 /\ pc'[u] = "inline" => cb'[u] \in claimed' /\ isCancelled'
      BY Zenon, <1>3, <2>1, <3>3 DEF ClaimInv
    <3>4. /\ pc'[t] = "register" => cb'[t] \notin claimed'
          /\ pc'[t] = "inline" => cb'[t] \in claimed' /\ isCancelled'
      BY Zenon, <1>3, <2>1
    <3>5. \A u \in Threads : Range(walk'[u]) \subseteq claimed'
      BY Zenon, <1>3, <2>1 DEF ClaimInv
    <3> QED BY Zenon, <3>1, <3>2, <3>3, <3>4, <3>5 DEF ClaimInv
  <2>4. PhaseOf(n)' = "armed"
    <3>1. n \notin won' /\ ~(fired'[n] > 0) /\ n \notin claimed' /\ n \in active'
      BY <1>1, <1>3, <2>1
    <3> QED BY Zenon, <3>1 DEF PhaseOf
  <2>5. ASSUME NEW m \in Nodes, m # n PROVE PhaseOf(m)' = PhaseOf(m)
    BY Zenon, <1>3, <1>4, <2>1, <2>5, PhaseSame
  <2>6. Registry!Move(n, "fresh", "armed")
    BY Zenon, <1>1, <1>2, <1>3, <2>4, <2>5, RegistryMoves
  <2> QED BY Zenon, <1>1, <2>1, <2>3, <2>6 DEF Registry!Arm
<1>6. CASE RegisterLate(t)
  <2>1. isCancelled /\ active' = active /\ claimed' = claimed \cup {n} /\ list' = list
    BY Zenon, <1>6, <1>0 DEF RegisterLate
  <2>2. \A u \in Threads : u # t /\ pc'[u] = "register" => cb'[u] # n
    BY Zenon, <1>f, <1>3
  <2>3. \A m \in Nodes : mem'[m] = "unused" => m # n
    BY Zenon, <1>e, <1>3
  <2>4. Listed' = Listed
    BY Zenon, <2>1 DEF Listed
  <2>5. ClaimInv'
    <3>1. \A m \in Nodes : mem'[m] = "unused" => m \notin claimed'
      BY Zenon, <1>3, <2>1, <2>3 DEF ClaimInv
    <3>2. Listed' \cap claimed' = {}
      BY Zenon, <1>c, <2>1, <2>4 DEF ClaimInv
    <3>3. ASSUME NEW u \in Threads, u # t
          PROVE  /\ pc'[u] = "register" => cb'[u] \notin claimed'
                 /\ pc'[u] = "inline" => cb'[u] \in claimed' /\ isCancelled'
      BY Zenon, <1>3, <2>1, <2>2, <3>3 DEF ClaimInv
    <3>4. /\ pc'[t] = "register" => cb'[t] \notin claimed'
          /\ pc'[t] = "inline" => cb'[t] \in claimed' /\ isCancelled'
      BY Zenon, <1>3, <2>1
    <3>5. \A u \in Threads : Range(walk'[u]) \subseteq claimed'
      BY Zenon, <1>3, <2>1 DEF ClaimInv
    <3> QED BY Zenon, <3>1, <3>2, <3>3, <3>4, <3>5 DEF ClaimInv
  <2>6. PhaseOf(n)' = "due"
    <3>1. n \notin won' /\ ~(fired'[n] > 0) /\ n \in claimed'
      BY <1>1, <1>3, <2>1
    <3> QED BY Zenon, <3>1 DEF PhaseOf
  <2>7. ASSUME NEW m \in Nodes, m # n PROVE PhaseOf(m)' = PhaseOf(m)
    BY Zenon, <1>3, <1>4, <2>1, <2>7, PhaseSame
  <2>8. Registry!Move(n, "fresh", "due")
    BY Zenon, <1>1, <1>2, <1>3, <2>6, <2>7, RegistryMoves
  <2> QED BY Zenon, <1>1, <2>1, <2>5, <2>8 DEF Registry!Arm
<1> QED BY Zenon, <1>5, <1>6

(* A due callback is entered, by Cancel's walk or inline.                   *)
LEMMA EnterSteps ==
  ASSUME IInv, ClaimInv, NEW t \in Threads, CallbackEnter(t) \/ InlineEnter(t)
  PROVE  ClaimInv' /\ \E n \in Nodes : Registry!Start(n)
<1> USE DEF tokenVars, nodeVars
<1>a. TypeOK
  BY Zenon DEF IInv
<1>1. PICK n \in Nodes :
        /\ n \in claimed /\ Pending(n) /\ isCancelled
        /\ \A u \in Threads : ~Runs(u, n)
        /\ fired' = [fired EXCEPT ![n] = @ + 1]
        /\ pc'[t] \in {"in_callback", "in_inline"} /\ cb'[t] = n
        /\ \A u \in Threads : Range(walk'[u]) \subseteq Range(walk[u])
  <2>1. CASE CallbackEnter(t)
    <3>1. pc[t] = "walk" /\ walk[t] # <<>> /\ isCancelled
      BY Zenon, <2>1 DEF CallbackEnter, IInv, ThreadInv, Walker
    <3>2. PICK n : n = Head(walk[t])
      OBVIOUS
    <3>3. n \in Nodes /\ n \in Range(walk[t]) /\ Range(Tail(walk[t])) \subseteq Range(walk[t])
      <4>1. walk[t] \in Seq(Nodes) /\ IsInjective(walk[t])
        BY Zenon DEF TypeOK, IInv, ThreadInv
      <4> QED BY Zenon, <3>1, <3>2, <4>1, TailElements
    <3>4. \A u \in Threads : ~Runs(u, n)
      BY Zenon, <3>3 DEF IInv, PairInv, Runs, Busy, NodePCs
    <3>5. n \in claimed /\ Pending(n)
      BY Zenon, <3>3 DEF ClaimInv, IInv, PlaceInv
    <3>6. \A u \in Threads : Range(walk'[u]) \subseteq Range(walk[u])
      BY Zenon, <1>a, <2>1, <3>3 DEF CallbackEnter, TypeOK
    <3>7. /\ fired' = [fired EXCEPT ![n] = @ + 1]
          /\ pc'[t] = "in_callback" /\ cb'[t] = n
      BY Zenon, <1>a, <2>1, <3>2 DEF CallbackEnter, TypeOK
    <3> QED BY Zenon, <3>1, <3>3, <3>4, <3>5, <3>6, <3>7
  <2>2. CASE InlineEnter(t)
    <3>1. pc[t] = "inline" /\ pc[t] \in Busy
      BY Zenon, <2>2 DEF InlineEnter, Busy, NodePCs
    <3>2. PICK n \in Nodes : n = cb[t]
      BY Zenon, <3>1 DEF IInv, ThreadInv
    <3>3. n \in claimed /\ Pending(n) /\ isCancelled
      BY Zenon, <3>1, <3>2 DEF ClaimInv, IInv, PlaceInv
    <3>4. \A u \in Threads : ~Runs(u, n)
      BY <3>1, <3>2 DEF IInv, PairInv, Runs, Busy, NodePCs
    <3>5. /\ fired' = [fired EXCEPT ![n] = @ + 1] /\ walk' = walk
          /\ pc'[t] = "in_inline" /\ cb'[t] = n
      BY Zenon, <1>a, <2>2, <3>2 DEF InlineEnter, TypeOK
    <3> QED BY Zenon, <3>3, <3>4, <3>5
  <2> QED BY Zenon, <2>1, <2>2
<1>2. /\ isCancelled' = isCancelled /\ list' = list /\ mem' = mem /\ active' = active
      /\ claimed' = claimed /\ won' = won /\ released' = released
      /\ \A u \in Threads : u # t => pc'[u] = pc[u] /\ cb'[u] = cb[u]
  BY Zenon, <1>a DEF CallbackEnter, InlineEnter, TypeOK
<1>3. ClaimInv'
  BY <1>1, <1>2 DEF ClaimInv, Listed
<1>4. PhaseOf(n) = "due"
  BY <1>1 DEF PhaseOf, Pending
<1>5. PhaseOf(n)' = "running"
  <2>1. Running(n)'
    BY Zenon, <1>1 DEF Running
  <2>2. fired'[n] > 0
    BY <1>a, <1>1 DEF Pending, TypeOK
  <2> QED BY Zenon, <1>1, <1>2, <2>1, <2>2 DEF PhaseOf, Pending
<1>6. ASSUME NEW m \in Nodes, m # n PROVE PhaseOf(m)' = PhaseOf(m)
  <2>1. ~Runs(t, m)
    BY DEF CallbackEnter, InlineEnter, Runs
  <2>2. Running(m)' <=> Running(m)
    BY Zenon, <1>1, <1>2, <1>6, <2>1, RunningSame DEF Runs
  <2>3. fired'[m] = fired[m]
    BY Zenon, <1>a, <1>1, <1>6 DEF TypeOK
  <2> QED BY Zenon, <1>2, <2>2, <2>3, PhaseSame
<1>7. Registry!Move(n, "due", "running")
  BY Zenon, <1>2, <1>4, <1>5, <1>6, RegistryMoves
<1> QED BY Zenon, <1>1, <1>3, <1>7 DEF Registry!Start

(* A callback that returns is done, whatever becomes of its node.           *)
LEMMA ReturnSteps ==
  ASSUME IInv, ClaimInv, NEW t \in Threads, CallbackReturn(t) \/ InlineReturn(t)
  PROVE  ClaimInv' /\ \E n \in Nodes : Registry!Return(n)
<1> USE DEF tokenVars, nodeVars, history
<1>a. TypeOK
  BY Zenon DEF IInv
<1>b. pc[t] \in {"in_callback", "in_inline"} /\ pc[t] \in Busy
  BY Zenon DEF CallbackReturn, InlineReturn, Busy, NodePCs
<1>1. PICK n \in Nodes : n = cb[t]
  BY Zenon, <1>b DEF IInv, ThreadInv
<1>2. fired[n] = 1 /\ n \notin won
  BY Zenon, <1>b, <1>1 DEF IInv, PlaceInv
<1>3. \A u \in Threads : u # t => ~Runs(u, n)
  BY <1>b, <1>1 DEF IInv, PairInv, Runs, Busy, NodePCs
<1>4. /\ isCancelled' = isCancelled /\ list' = list /\ mem' = mem /\ active' = active
      /\ claimed' = claimed /\ won' = won /\ released' = released /\ fired' = fired
      /\ walk' = walk /\ pc'[t] \in {"idle", "walk", "free_node"}
      /\ \A u \in Threads : u # t => pc'[u] = pc[u] /\ cb'[u] = cb[u]
  BY Zenon, <1>a DEF CallbackReturn, InlineReturn, AfterNode, TypeOK
<1>5. ClaimInv'
  BY <1>4 DEF ClaimInv, Listed
<1>6. PhaseOf(n) = "running"
  <2>1. Running(n) /\ fired[n] > 0
    BY <1>b, <1>1, <1>2 DEF Running
  <2> QED BY Zenon, <1>2, <2>1 DEF PhaseOf
<1>7. PhaseOf(n)' = "done"
  <2>1. ~Running(n)'
    BY <1>3, <1>4 DEF Running, Runs
  <2>2. fired'[n] > 0 /\ n \notin won'
    BY <1>2, <1>4
  <2> QED BY Zenon, <2>1, <2>2 DEF PhaseOf
<1>8. ASSUME NEW m \in Nodes, m # n PROVE PhaseOf(m)' = PhaseOf(m)
  <2>1. ~Runs(t, m) /\ ~Runs(t, m)'
    BY <1>1, <1>4, <1>8 DEF Runs
  <2>2. Running(m)' <=> Running(m)
    BY Zenon, <1>4, <2>1, RunningSame
  <2> QED BY Zenon, <1>4, <2>2, PhaseSame
<1>9. Registry!Move(n, "running", "done")
  BY Zenon, <1>4, <1>6, <1>7, <1>8, RegistryMoves
<1> QED BY Zenon, <1>5, <1>9 DEF Registry!Return
(* Unregister withdraws a registration that is still armed; on any other it *)
(* only gives the handle back.                                              *)
LEMMA UnregisterStep ==
  ASSUME IInv, ClaimInv, NEW t \in Threads, NEW n \in Nodes, Unregister(t, n)
  PROVE  ClaimInv' /\ [Registry!Withdraw(n)]_(Registry!rvars)
<1>a. TypeOK /\ ListInv /\ pc[t] = "idle" /\ mem[n] = "live"
  BY Zenon DEF IInv, NodeInv, Unregister
<1>1. /\ isCancelled' = isCancelled /\ mem' = mem /\ released' = released
      /\ fired' = fired /\ walk' = walk /\ pc'[t] \in {"idle", "free_node"}
      /\ \A u \in Threads : u # t => pc'[u] = pc[u] /\ cb'[u] = cb[u]
  BY Zenon, <1>a DEF Unregister, TypeOK
<1>2. ASSUME NEW m \in Nodes PROVE Running(m)' <=> Running(m)
  <2>1. ~Runs(t, m) /\ ~Runs(t, m)'
    BY <1>a, <1>1 DEF Runs
  <2> QED BY Zenon, <1>1, <2>1, RunningSame
<1>3. CASE n \notin active
  <2>1. list' = list /\ claimed' = claimed /\ won' = won /\ active' = active
    BY <1>3 DEF Unregister, Withdrawn
  <2>2. ClaimInv'
    BY <1>1, <2>1 DEF ClaimInv, Listed
  <2>3. \A m \in Nodes : PhaseOf(m)' = PhaseOf(m)
    BY Zenon, <1>1, <1>2, <2>1, PhaseSame
  <2> QED BY Zenon, <1>1, <2>1, <2>2, <2>3, RegistryStutters
<1>4. CASE n \in active
  <2>1. /\ list' = Unlink(list, n) /\ claimed' = claimed \cup {n}
        /\ won' = won \cup {n} /\ active' = active \ {n}
    <3>1. Withdrawn(n) = {n}
      BY <1>4 DEF Withdrawn
    <3> QED BY Zenon, <1>4, <3>1 DEF Unregister
  <2>2. n \in Range(list) /\ list \in Seq(Nodes) /\ IsInjective(list) /\ n \in Listed
    BY Zenon, <1>a, <1>4 DEF ListInv, Listed, TypeOK
  <2>3. Listed' = Listed \ {n}
    BY Zenon, <2>1, <2>2, UnlinkElements DEF Listed
  <2>4. n \notin claimed /\ fired[n] = 0 /\ n \notin won
    BY Zenon, <2>2 DEF ClaimInv, IInv, PlaceInv, Pending
  <2>5. \A u \in Threads : pc[u] = "register" => cb[u] # n
    BY Zenon, <2>2 DEF IInv, ThreadInv, Busy, NodePCs
  <2>6. ~isCancelled
    BY Zenon, <1>a, <2>2, EmptyElements DEF ListInv
  <2>7. ClaimInv'
    BY <1>a, <1>1, <2>1, <2>3, <2>5 DEF ClaimInv
  <2>8. PhaseOf(n) = "armed"
    BY <1>4, <2>4 DEF PhaseOf
  <2>9. PhaseOf(n)' = "withdrawn"
    BY Zenon, <2>1 DEF PhaseOf
  <2>10. ASSUME NEW m \in Nodes, m # n PROVE PhaseOf(m)' = PhaseOf(m)
    BY Zenon, <1>1, <1>2, <2>1, <2>10, PhaseSame
  <2>11. Registry!Move(n, "armed", "withdrawn")
    BY Zenon, <1>1, <2>8, <2>9, <2>10, RegistryMoves
  <2> QED BY Zenon, <2>6, <2>7, <2>11 DEF Registry!Withdraw
<1> QED BY Zenon, <1>3, <1>4

(* Cancel makes every armed registration due in one step.                   *)
LEMMA CancelStep ==
  ASSUME IInv, ClaimInv, NEW t \in Threads, Cancel(t)
  PROVE  ClaimInv' /\ Registry!CancelAll
<1> USE DEF history
<1>a. TypeOK /\ ListInv /\ pc[t] = "idle" /\ ~isCancelled /\ isCancelled' = TRUE
  BY Zenon DEF IInv, Cancel
<1>1. /\ mem' = mem /\ released' = released /\ fired' = fired /\ won' = won
      /\ cb' = cb /\ list' = <<>> /\ walk' = [walk EXCEPT ![t] = list]
      /\ active' = active \ Listed /\ claimed' = claimed \cup Listed
      /\ pc'[t] \in {"idle", "walk"}
      /\ \A u \in Threads : u # t => pc'[u] = pc[u] /\ cb'[u] = cb[u]
  BY Zenon, <1>a DEF Cancel, TypeOK, Listed
<1>2. Listed' = {} /\ active' = {} /\ active = Listed
  <2>1. active = Listed
    BY Zenon, <1>a DEF ListInv
  <2>2. active' = {}
    BY <1>1, <2>1
  <2> QED BY Zenon, <1>1, <2>1, <2>2, EmptyElements DEF Listed
<1>3. \A n \in Listed : mem[n] = "live" /\ fired[n] = 0 /\ n \notin won /\ n \notin claimed
  BY Zenon DEF IInv, PlaceInv, Pending, ClaimInv
<1>4. ClaimInv'
  <2>1. \A n \in Nodes : mem'[n] = "unused" => n \notin claimed'
    BY <1>1, <1>3 DEF ClaimInv
  <2>2. \A u \in Threads : pc'[u] = "register" => cb'[u] \notin claimed'
    <3>1. \A u \in Threads : pc[u] = "register" => cb[u] \notin Listed
      BY Zenon DEF IInv, ThreadInv, Busy, NodePCs
    <3> QED BY <1>1, <3>1 DEF ClaimInv
  <2>3. \A u \in Threads : pc'[u] = "inline" => cb'[u] \in claimed' /\ isCancelled'
    BY <1>a, <1>1 DEF ClaimInv
  <2>4. \A u \in Threads : Range(walk'[u]) \subseteq claimed'
    <3>1. \A u \in Threads : walk'[u] = IF u = t THEN list ELSE walk[u]
      BY Zenon, <1>a, <1>1 DEF TypeOK
    <3> QED BY Zenon, <1>1, <3>1 DEF ClaimInv, Listed
  <2> QED BY Zenon, <1>2, <2>1, <2>2, <2>3, <2>4 DEF ClaimInv
<1>5. ASSUME NEW n \in Nodes
      PROVE  PhaseOf(n)' = IF PhaseOf(n) = "armed" THEN "due" ELSE PhaseOf(n)
  <2>1. Running(n)' <=> Running(n)
    <3>1. ~Runs(t, n) /\ ~Runs(t, n)'
      BY <1>a, <1>1 DEF Runs
    <3> QED BY Zenon, <1>1, <3>1, RunningSame
  <2>2. CASE n \in Listed
    <3>1. PhaseOf(n) = "armed"
      BY <1>2, <1>3, <2>2 DEF PhaseOf
    <3>2. n \notin won' /\ ~(fired'[n] > 0) /\ n \in claimed'
      BY <1>1, <1>3, <2>2
    <3>3. PhaseOf(n)' = "due"
      BY Zenon, <3>2 DEF PhaseOf
    <3> QED BY <3>1, <3>3
  <2>3. CASE n \notin Listed
    <3>1. PhaseOf(n)' = PhaseOf(n)
      BY Zenon, <1>1, <1>2, <2>1, <2>3, PhaseSame
    <3>2. PhaseOf(n) # "armed"
      BY <1>2, <2>3 DEF PhaseOf
    <3> QED BY Zenon, <3>1, <3>2
  <2> QED BY Zenon, <2>2, <2>3
<1>6. [n \in Nodes |-> PhaseOf(n)]' =
        [n \in Nodes |-> IF [m \in Nodes |-> PhaseOf(m)][n] = "armed"
                           THEN "due" ELSE [m \in Nodes |-> PhaseOf(m)][n]]
  BY Zenon, <1>5
<1>7. [n \in Nodes |-> released[n] > 0]' = [n \in Nodes |-> released[n] > 0]
  BY Zenon, <1>1
<1> QED BY Zenon, <1>a, <1>4, <1>6, <1>7 DEF Registry!CancelAll

(* sNodeFree runs the hook of a registration that is done or withdrawn.     *)
LEMMA NodeFreeStep ==
  ASSUME IInv, ClaimInv, NEW t \in Threads, NodeFree(t)
  PROVE  ClaimInv' /\ [\E n \in Nodes : Registry!Hook(n)]_(Registry!rvars)
<1> USE DEF tokenVars
<1>a. TypeOK /\ pc[t] = "free_node" /\ pc[t] \in Busy
  BY Zenon DEF IInv, NodeFree, Busy, NodePCs
<1>1. PICK n \in Nodes : n = cb[t]
  BY Zenon, <1>a DEF IInv, ThreadInv
<1>2. mem[n] = "live" /\ Settled(n) /\ released[n] = 0
  <2>1. mem[n] = "live" /\ Settled(n)
    BY Zenon, <1>a, <1>1 DEF IInv, PlaceInv
  <2> QED BY <2>1 DEF IInv, NodeInv
<1>3. \A u \in Threads : ~Runs(u, n)
  BY <1>a, <1>1 DEF IInv, PairInv, Runs, Busy, NodePCs
<1>4. /\ isCancelled' = isCancelled /\ list' = list /\ active' = active
      /\ claimed' = claimed /\ won' = won /\ fired' = fired /\ walk' = walk /\ cb' = cb
      /\ pc'[t] = "drop_token" /\ \A u \in Threads : u # t => pc'[u] = pc[u]
      /\ mem' = [mem EXCEPT ![n] = "freed"]
      /\ released' = [released EXCEPT ![n] = IF HookRuns(n) THEN @ + 1 ELSE @]
  BY Zenon, <1>a, <1>1 DEF NodeFree, TypeOK
<1>5. ClaimInv'
  <2>1. \A m \in Nodes : mem'[m] = "unused" => mem[m] = "unused"
    BY <1>a, <1>4 DEF TypeOK
  <2> QED BY <1>4, <2>1 DEF ClaimInv, Listed
<1>6. ASSUME NEW m \in Nodes PROVE PhaseOf(m)' = PhaseOf(m)
  <2>1. ~Runs(t, m) /\ ~Runs(t, m)'
    BY <1>a, <1>4 DEF Runs
  <2>2. Running(m)' <=> Running(m)
    BY Zenon, <1>4, <2>1, RunningSame
  <2> QED BY Zenon, <1>4, <2>2, PhaseSame
<1>7. CASE ~HookRuns(n)
  <2>1. \A m \in Nodes : released'[m] = released[m]
    BY Zenon, <1>a, <1>4, <1>7 DEF TypeOK
  <2> QED BY Zenon, <1>4, <1>5, <1>6, <2>1, RegistryStutters
<1>8. CASE HookRuns(n)
  <2>1. PhaseOf(n) \in {"done", "withdrawn"}
    <3>1. ~Running(n)
      BY Zenon, <1>3 DEF Running, Runs
    <3> QED BY <1>2, <3>1 DEF PhaseOf, Settled
  <2>2. [m \in Nodes |-> PhaseOf(m)]' = [m \in Nodes |-> PhaseOf(m)]
    BY Zenon, <1>6
  <2>3. ASSUME NEW m \in Nodes
        PROVE  (released'[m] > 0) = IF m = n THEN TRUE ELSE released[m] > 0
    <3>1. CASE m = n
      <4>1. released'[n] = 0 + 1
        BY Zenon, <1>a, <1>2, <1>4, <1>8 DEF TypeOK
      <4>2. 0 + 1 > 0
        OBVIOUS
      <4>3. released'[n] > 0
        BY Zenon, <4>1, <4>2
      <4> QED BY Zenon, <3>1, <4>3
    <3>2. CASE m # n
      BY Zenon, <1>a, <1>4, <3>2 DEF TypeOK
    <3> QED BY Zenon, <3>1, <3>2
  <2>4. [m \in Nodes |-> released[m] > 0]' =
          [[m \in Nodes |-> released[m] > 0] EXCEPT ![n] = TRUE]
    BY Zenon, <2>3
  <2>5. ~(released[n] > 0)
    BY <1>2
  <2> QED BY Zenon, <1>4, <1>5, <2>1, <2>2, <2>4, <2>5 DEF Registry!Hook
<1> QED BY Zenon, <1>7, <1>8
(* The last token reference finds no node listed: nothing happens to any    *)
(* registration.  Nor does it when a reference is taken.                    *)
LEMMA TokenSteps ==
  ASSUME IInv, ClaimInv, RetainInternal \/ \E t \in Threads : TokenReclaim(t)
  PROVE  ClaimInv' /\ UNCHANGED Registry!rvars
<1>1. CASE RetainInternal
  <2> USE <1>1 DEF RetainInternal, nodeVars, threadVars, history
  <2>1. ClaimInv'
    BY Zenon DEF ClaimInv, Listed
  <2>2. \A n \in Nodes : PhaseOf(n)' = PhaseOf(n)
    BY Zenon DEF PhaseOf, Running
  <2> QED BY Zenon, <2>1, <2>2, RegistryStutters
<1>2. ASSUME NEW t \in Threads, TokenReclaim(t)
      PROVE  ClaimInv' /\ UNCHANGED Registry!rvars
  <2>a. TypeOK /\ ListInv /\ pc[t] = "reclaim" /\ tokenRefs = 0
    BY Zenon, <1>2 DEF IInv, TokenInv, TokenReclaim
  <2>1. Range(list) = {}
    BY Zenon, <2>a, NoRefsNoHolders DEF Listed
  <2>2. /\ isCancelled' = isCancelled /\ active' = active /\ claimed' = claimed
        /\ won' = won /\ fired' = fired /\ walk' = walk /\ cb' = cb
        /\ mem' = mem /\ released' = released /\ Listed' = Listed
        /\ pc'[t] \in {"idle", "walk"} /\ \A u \in Threads : u # t => pc'[u] = pc[u]
    <3>1. mem' = mem /\ released' = released
      BY Zenon, <1>2, <2>a, <2>1 DEF TokenReclaim, TypeOK
    <3>2. Listed' = Listed
      BY Zenon, <1>2, <2>1, EmptyElements DEF TokenReclaim, Listed
    <3> QED BY Zenon, <1>2, <2>a, <3>1, <3>2 DEF TokenReclaim, AfterNode, TypeOK
  <2>3. ClaimInv'
    BY <2>2 DEF ClaimInv
  <2>4. ASSUME NEW n \in Nodes PROVE PhaseOf(n)' = PhaseOf(n)
    <3>1. ~Runs(t, n) /\ ~Runs(t, n)'
      BY <2>a, <2>2 DEF Runs
    <3>2. Running(n)' <=> Running(n)
      BY Zenon, <2>2, <3>1, RunningSame
    <3> QED BY Zenon, <2>2, <3>2, PhaseSame
  <2> QED BY Zenon, <2>2, <2>3, <2>4, RegistryStutters
<1> QED BY Zenon, <1>1, <1>2

(* Every step of the implementation is a step of the registry or none.      *)
LEMMA RegistryStep ==
  IInv /\ ClaimInv /\ [Next]_vars => ClaimInv' /\ [Registry!RNext]_(Registry!rvars)
<1> SUFFICES ASSUME IInv, ClaimInv, [Next]_vars
             PROVE  ClaimInv' /\ [Registry!RNext]_(Registry!rvars)
  OBVIOUS
<1> USE DEF Registry!RNext
<1>1. ASSUME NEW t \in Threads, Step(t)
      PROVE  ClaimInv' /\ [Registry!RNext]_(Registry!rvars)
  <2>1. CASE RegisterLink(t) \/ RegisterLate(t)
    BY Zenon, <2>1, RegisterSteps
  <2>2. CASE InlineEnter(t) \/ CallbackEnter(t)
    BY Zenon, <2>2, EnterSteps
  <2>3. CASE InlineReturn(t) \/ CallbackReturn(t)
    BY Zenon, <2>3, ReturnSteps
  <2>4. CASE NodeFree(t)
    BY Zenon, <2>4, NodeFreeStep
  <2>5. CASE TokenRelease(t)
    BY Zenon, <2>5, SilentSteps
  <2>6. CASE TokenReclaim(t)
    BY Zenon, <2>6, TokenSteps
  <2> QED BY Zenon, <1>1, <2>1, <2>2, <2>3, <2>4, <2>5, <2>6 DEF Step
<1>2. ASSUME NEW t \in Threads, Call(t)
      PROVE  ClaimInv' /\ [Registry!RNext]_(Registry!rvars)
  <2>1. CASE Destroy(t) \/ \E n \in Nodes : RegisterAlloc(t, n)
    BY Zenon, <2>1, SilentSteps
  <2>2. ASSUME NEW n \in Nodes, Unregister(t, n)
        PROVE  ClaimInv' /\ [Registry!RNext]_(Registry!rvars)
    BY Zenon, <2>2, UnregisterStep
  <2>3. CASE Cancel(t)
    BY Zenon, <2>3, CancelStep
  <2> QED BY Zenon, <1>2, <2>1, <2>2, <2>3 DEF Call
<1>3. CASE RetainInternal
  BY Zenon, <1>3, TokenSteps
<1>4. CASE UNCHANGED vars
  <2> USE <1>4 DEF vars, tokenVars, nodeVars, threadVars, history
  <2>1. ClaimInv'
    BY Zenon DEF ClaimInv, Listed
  <2>2. \A n \in Nodes : PhaseOf(n)' = PhaseOf(n)
    BY Zenon DEF PhaseOf, Running
  <2> QED BY Zenon, <2>1, <2>2, RegistryStutters
<1> QED BY Zenon, <1>1, <1>2, <1>3, <1>4 DEF Next, Finished

(* Under the token's lock and reference counts the users see the one-shot   *)
(* registry: register, withdraw, cancel, one callback from start to end,    *)
(* then the hook, in no other order.                                        *)
THEOREM RefinesRegistry == Spec => Registry!RSafety
<1>1. Init => ClaimInv /\ Registry!RInit
  <2> SUFFICES ASSUME Init PROVE ClaimInv /\ Registry!RInit
    OBVIOUS
  <2>1. ClaimInv
    BY Zenon, EmptyElements DEF Init, ClaimInv, Listed
  <2>2. ASSUME NEW n \in Nodes PROVE PhaseOf(n) = "fresh" /\ (released[n] > 0) = FALSE
    BY DEF Init, PhaseOf
  <2> QED BY Zenon, <2>1, <2>2 DEF Init, Registry!RInit
<1> QED BY <1>1, RegistryStep, Invariance, PTL DEF Spec, Registry!RSafety
=============================================================================
