------------------------ MODULE CancellableGetProofs ------------------------
(***************************************************************************)
(* Proofs about the cancellable get, for any set of getters.               *)
(*                                                                         *)
(* What the token does is taken from CancellationProofs: every step of     *)
(* CancellableGet is a step of its token or leaves the token alone.        *)
(***************************************************************************)
EXTENDS CancellableGet, Chains

Threads == Getters \cup {Canceller}

-----------------------------------------------------------------------------
AtNode == {"register", "inline", "in_inline", "in_callback", "free_node", "drop_token"}

LEMMA Names ==
  /\ Completer \notin Threads /\ Canceller \notin Getters /\ NoNode \notin Getters
  /\ Procs = Threads \cup {Completer}
<1>1. "canceller" # "completer"
  OBVIOUS
<1>2. Completer \notin Getters /\ Canceller \notin Getters /\ NoNode \notin Getters
  BY Zenon, GetAssumption
<1>3. Completer # Canceller
  BY Zenon, <1>1 DEF Completer, Canceller
<1>4. Procs = Threads \cup {Completer}
  BY Zenon DEF Procs, Threads
<1> QED BY Zenon, <1>2, <1>3, <1>4 DEF Threads

(* The token keeps its own invariant: what CancellationProofs shows, and    *)
(* TokenInv below of the token in use here.                                 *)
TokenKept ==
  C!IInv /\ C!KeptInv /\ (C!Next \/ UNCHANGED tokenVars) => C!IInv' /\ C!KeptInv'

(* What the token's invariant says to its users.                            *)
LEMMA TokenTypes ==
  ASSUME C!IInv
  PROVE  /\ mem \in [Getters -> {"unused", "live", "freed"}] /\ handles \subseteq Getters
         /\ pc \in [Threads -> C!PCs] /\ cb \in [Threads -> Getters \cup {NoNode}]
         /\ walk \in [Threads -> Seq(Getters)] /\ isCancelled \in BOOLEAN
         /\ released \in [Getters -> Nat] /\ refcount \in [Getters -> 0..2]
  BY Zenon DEF C!IInv, C!TypeOK, Threads

LEMMA TokenFacts ==
  ASSUME C!IInv, C!KeptInv
  PROVE  /\ \A g \in handles : mem[g] = "live"
         /\ \A t \in Threads :
              /\ pc[t] \in AtNode => cb[t] \in Getters /\ mem[cb[t]] # "unused"
              /\ pc[t] \in AtNode \ {"drop_token"} => mem[cb[t]] = "live"
              /\ pc[t] \in Registering \cup {"free_node"} => cb[t] \notin handles
              /\ pc[t] \in {"inline", "in_inline", "in_callback", "walk"} => isCancelled
         /\ \A t, u \in Threads : pc[t] \in AtNode /\ pc[u] \in AtNode /\ cb[t] = cb[u] => t = u
         /\ \A t \in Threads : pc[t] = "walk" => Head(walk[t]) \in Getters /\ mem[Head(walk[t])] = "live"
<1>a. /\ C!TypeOK /\ C!ThreadInv /\ C!PairInv /\ C!PlaceInv /\ C!NodeInv
  BY Zenon DEF C!IInv
<1>b. C!Busy = AtNode
  BY Zenon DEF C!Busy, C!NodePCs, AtNode
<1>1. \A g \in handles : mem[g] = "live"
  BY Zenon, <1>a DEF C!NodeInv, C!TypeOK
<1>2. ASSUME NEW t \in Threads
      PROVE  /\ pc[t] \in AtNode => cb[t] \in Getters
             /\ pc[t] \in AtNode \ {"drop_token"} => mem[cb[t]] = "live"
             /\ pc[t] = "drop_token" => mem[cb[t]] = "freed"
             /\ pc[t] \in Registering \cup {"free_node"} => cb[t] \notin handles
  <2>1. pc[t] \in AtNode => cb[t] \in Getters
    BY Zenon, <1>a, <1>b DEF C!ThreadInv, Threads
  <2>2. C!PlaceInv!3!(t)
    BY Zenon, <1>a DEF C!PlaceInv, Threads
  <2> QED BY Zenon, <2>1, <2>2 DEF AtNode, Registering
<1>3. \A t \in Threads : pc[t] \in AtNode => cb[t] \in Getters /\ mem[cb[t]] # "unused"
  <2>1. "freed" # "unused" /\ "live" # "unused"
    OBVIOUS
  <2> QED BY Zenon, <1>2, <2>1
<1>4. ASSUME NEW t \in Threads
      PROVE  pc[t] \in {"inline", "in_inline", "in_callback", "walk"} => isCancelled
  <2>1. pc[t] \in {"in_callback", "walk"} => isCancelled
    BY Zenon, <1>a DEF C!ThreadInv, C!Walker, Threads
  <2>2. pc[t] \in {"inline", "in_inline"} => isCancelled
    BY Zenon DEF C!KeptInv, Threads
  <2> QED BY Zenon, <2>1, <2>2
<1>5. \A t, u \in Threads : pc[t] \in AtNode /\ pc[u] \in AtNode /\ cb[t] = cb[u] => t = u
  BY Zenon, <1>a, <1>b DEF C!PairInv, Threads
<1>6. ASSUME NEW t \in Threads, pc[t] = "walk"
      PROVE  Head(walk[t]) \in Getters /\ mem[Head(walk[t])] = "live"
  <2>1. walk[t] \in Seq(Getters) /\ walk[t] # <<>>
    BY Zenon, <1>a, <1>6 DEF C!ThreadInv, C!TypeOK, Threads
  <2>2. Head(walk[t]) \in Getters /\ Head(walk[t]) \in C!Range(walk[t])
    BY <2>1 DEF C!Range
  <2> QED BY ZenonT(30), <1>a, <2>2 DEF C!PlaceInv, Threads
<1> QED BY Zenon, <1>1, <1>2, <1>3, <1>4, <1>5, <1>6

(* With no thread inside the token, only handles keep nodes.                *)
LEMMA AtRest ==
  ASSUME C!IInv, C!KeptInv, \A t \in Threads : pc[t] = "idle"
  PROVE  \A g \in Getters : mem[g] = "live" => g \in handles
<1>1. ASSUME NEW t \in Threads PROVE walk[t] = <<>> /\ pc[t] \notin C!NodePCs
  BY Zenon DEF C!IInv, C!ThreadInv, C!NodePCs, Threads
<1>2. C!Range(<<>>) = {}
  BY DEF C!Range
<1> QED BY Zenon, <1>1, <1>2 DEF C!KeptInv, C!Kept, Threads

-----------------------------------------------------------------------------
(* A getter a step leaves alone.                                            *)
Same(h) ==
  /\ gpc'[h] = gpc[h] /\ got'[h] = got[h] /\ wmem'[h] = wmem[h] /\ wrefs'[h] = wrefs[h]
  /\ mem'[h] = mem[h] /\ wakes'[h] = wakes[h]
  /\ (h \in taken' <=> h \in taken) /\ (h \in rolledBack' <=> h \in rolledBack)
  /\ (h \in handles' <=> h \in handles) /\ (Queued(h)' <=> Queued(h))

(* What has happened to future and token stays.                             *)
Onward ==
  /\ ready => ready'
  /\ closed => closed'
  /\ futureReleased => futureReleased'
  /\ isCancelled => isCancelled'

GetterOK(h) == GetterInv!(h) /\ RefInv!(h) /\ ClaimInv!1!(h) /\ AnswerIsTrue!(h)

LEMMA SameGetter ==
  ASSUME IInv, Onward, NEW h \in Getters, Same(h),
         pc[h] \in Registering => pc'[h] \in Registering \/ h \in handles'
  PROVE  GetterOK(h)'
<1>1. GetterInv!(h) /\ RefInv!(h) /\ ClaimInv!1!(h) /\ AnswerIsTrue!(h)
  BY Zenon DEF IInv, GetterInv, RefInv, ClaimInv, AnswerIsTrue
<1>2. GetterInv!(h)'
  BY Zenon, <1>1 DEF Same, Onward
<1>3. RefInv!(h)'
  <2>1. Own(h)' = Own(h) /\ Callbacks(h)' = Callbacks(h) /\ Stacked(h)' = Stacked(h)
    BY Zenon DEF Same, Own, Callbacks, Stacked
  <2> QED BY Zenon, <1>1, <2>1 DEF Same, Onward
<1>4. ClaimInv!1!(h)'
  BY Zenon, <1>1 DEF Same, Onward
<1>5. AnswerIsTrue!(h)'
  BY Zenon, <1>1 DEF Same, Onward
<1> QED BY Zenon, <1>2, <1>3, <1>4, <1>5 DEF GetterOK

LEMMA AllGetters ==
  ASSUME \A h \in Getters : GetterOK(h)', (ClaimInv!2)', (ClaimInv!3)'
  PROVE  GetterInv' /\ RefInv' /\ ClaimInv' /\ AnswerIsTrue'
<1>1. \A h \in Getters : GetterInv!(h)' /\ RefInv!(h)' /\ ClaimInv!1!(h)' /\ AnswerIsTrue!(h)'
  BY Zenon DEF GetterOK
<1> QED BY Zenon, <1>1 DEF GetterInv, RefInv, ClaimInv, AnswerIsTrue

(* Nobody is about to wake anybody else than before.                        *)
LEMMA SameWakers ==
  ASSUME IInv,
         \A p \in Procs : wpc'[p] = "wake" => /\ wpc[p] = "wake" /\ Target(p)' = Target(p)
                                              /\ wakes'[Target(p)] = wakes[Target(p)],
         taken \subseteq taken'
  PROVE  (ClaimInv!2)' /\ (ClaimInv!3)'
<1>1. ASSUME NEW p \in Procs, wpc'[p] = "wake"
      PROVE  Target(p)' \in taken' /\ \A g : g = Target(p)' => wakes'[g] = 0
  BY ZenonT(30), <1>1 DEF IInv, ClaimInv
<1>2. ASSUME NEW p \in Procs, NEW q \in Procs, wpc'[p] = "wake", wpc'[q] = "wake",
             Target(p)' = Target(q)'
      PROVE  p = q
  <2>1. wpc[p] = "wake" /\ wpc[q] = "wake" /\ Target(p) = Target(q)
    BY Zenon, <1>2
  <2>2. (ClaimInv!3)
    BY Zenon DEF IInv, ClaimInv
  <2> QED BY Zenon, <2>1, <2>2
<1> QED BY Zenon, <1>1, <1>2

(* The three references of a waiter, counted.                               *)
LEMMA Counted ==
  ASSUME IInv, NEW g \in Getters
  PROVE  /\ Own(g) \in {0, 1} /\ Callbacks(g) \in {0, 1} /\ Stacked(g) \in {0, 1}
         /\ wrefs[g] = Own(g) + Callbacks(g) + Stacked(g) /\ wrefs[g] \in 0..3
  BY Zenon DEF IInv, TypeOK, RefInv, Own, Callbacks, Stacked

LEMMA Here ==
  ASSUME IInv, NEW g \in Getters
  PROVE  /\ GetterInv!(g) /\ RefInv!(g) /\ ClaimInv!1!(g) /\ AnswerIsTrue!(g) /\ ThreadInv!(g)
         /\ g \in Threads /\ g \in Procs
         /\ C!IInv /\ C!KeptInv /\ TypeOK /\ StackInv
  BY Zenon DEF IInv, GetterInv, RefInv, ClaimInv, AnswerIsTrue, ThreadInv, Threads, Procs

(* A getter's own step, the stack aside.                                    *)
LEMMA GetterMoves ==
  ASSUME TokenKept, IInv, NEW g \in Getters, NEW l \in GetPCs, gpc' = [gpc EXCEPT ![g] = l],
         pc[g] = "idle" \/ UNCHANGED tokenVars, gpc[g] # "done", ~futureReleased,
         C!Next \/ UNCHANGED tokenVars, UNCHANGED stackVars, isCancelled' = isCancelled,
         taken' = taken, wakes' = wakes, wpc' = wpc,
         \A t \in Threads : t # g => pc'[t] = pc[t] /\ cb'[t] = cb[t],
         \A h \in Getters : h # g =>
           /\ got'[h] = got[h] /\ wmem'[h] = wmem[h] /\ wrefs'[h] = wrefs[h] /\ mem'[h] = mem[h]
           /\ (h \in rolledBack' <=> h \in rolledBack) /\ (h \in handles' <=> h \in handles),
         got' \in [Getters -> {"none", "result", "ECANCELED", "-1"}],
         wrefs' \in [Getters -> 0..3], wmem' \in [Getters -> {"none", "live", "freed"}],
         rolledBack' \subseteq Getters,
         ThreadInv!(g)', GetterOK(g)'
  PROVE  IInv'
<1>a. C!IInv /\ C!KeptInv /\ TypeOK /\ StackInv /\ ThreadInv
  BY Zenon DEF IInv
<1>b. C!IInv' /\ C!KeptInv'
  BY Zenon, <1>a DEF TokenKept
<1>c. UNCHANGED <<ready, closed, stack, drain, futureReleased>>
  BY Zenon DEF stackVars
<1>d. gpc'[g] = l /\ \A h \in Getters : h # g => gpc'[h] = gpc[h]
  BY Zenon, <1>a DEF TypeOK
<1>1. TypeOK'
  <2>1. gpc' \in [Getters -> GetPCs]
    BY Zenon, <1>a DEF TypeOK
  <2> QED BY Zenon, <1>a, <1>b, <1>c, <2>1 DEF TypeOK, C!IInv
<1>2. StackInv'
  BY Zenon, <1>a, <1>c DEF StackInv
<1>3. ASSUME NEW h \in Getters, h # g PROVE GetterOK(h)'
  <2>1. Queued(h)' <=> Queued(h)
    BY Zenon, <1>c DEF Queued
  <2>2. Same(h) /\ Onward
    BY Zenon, <1>c, <1>d, <1>3, <2>1 DEF Same, Onward
  <2>3. pc'[h] = pc[h]
    BY Zenon, <1>3 DEF Threads
  <2> QED BY Zenon, <2>2, <2>3, SameGetter
<1>4. wpc[g] = "none" \/ cb' = cb
  BY Zenon, <1>a, Names DEF ThreadInv, Threads, tokenVars
<1>5. ASSUME NEW p \in Procs, wpc'[p] = "wake"
      PROVE  wpc[p] = "wake" /\ Target(p)' = Target(p) /\ wakes'[Target(p)] = wakes[Target(p)]
  <2>1. p # g \/ cb' = cb
    BY Zenon, <1>4, <1>5, Names
  <2>2. Target(p)' = Target(p)
    <3>1. CASE p = Completer
      BY Zenon, <1>c, <3>1 DEF Target
    <3>2. CASE p # Completer
      <4>1. p \in Threads
        BY Zenon, <3>2, Names
      <4> QED BY Zenon, <2>1, <3>2, <4>1 DEF Target
    <3> QED BY Zenon, <3>1, <3>2
  <2> QED BY Zenon, <1>5, <2>2
<1>6. (ClaimInv!2)' /\ (ClaimInv!3)'
  BY Zenon, <1>5, SameWakers
<1>7. ThreadInv'
  <2>1. ASSUME NEW t \in Threads, t # g PROVE ThreadInv!(t)'
    <3>1. ThreadInv!(t)
      BY Zenon, <1>a DEF ThreadInv, Threads
    <3>2. t \in Getters => gpc'[t] = gpc[t]
      BY Zenon, <1>d, <2>1
    <3> QED BY Zenon, <2>1, <3>1, <3>2
  <2> QED BY ZenonT(30), <2>1 DEF ThreadInv, Threads
<1>8. GetterInv' /\ RefInv' /\ ClaimInv' /\ AnswerIsTrue'
  <2>1. \A h \in Getters : GetterOK(h)'
    BY Zenon, <1>3
  <2> QED BY Zenon, <1>6, <2>1, AllGetters
<1> QED BY Zenon, <1>b, <1>1, <1>2, <1>7, <1>8 DEF IInv

(* ... one that makes no token call.                                        *)
LEMMA PlainMoves ==
  ASSUME TokenKept, IInv, NEW g \in Getters, NEW l \in GetPCs, gpc' = [gpc EXCEPT ![g] = l],
         pc[g] \notin Registering, gpc[g] # "done", ~futureReleased,
         UNCHANGED tokenVars, UNCHANGED stackVars, taken' = taken, wakes' = wakes, wpc' = wpc,
         \A h \in Getters : h # g =>
           /\ got'[h] = got[h] /\ wmem'[h] = wmem[h] /\ wrefs'[h] = wrefs[h]
           /\ (h \in rolledBack' <=> h \in rolledBack),
         got' \in [Getters -> {"none", "result", "ECANCELED", "-1"}],
         wrefs' \in [Getters -> 0..3], wmem' \in [Getters -> {"none", "live", "freed"}],
         rolledBack' \subseteq Getters, GetterOK(g)'
  PROVE  IInv'
<1>1. UNCHANGED <<isCancelled, mem, handles, pc, cb>>
  BY Zenon DEF tokenVars
<1>2. ThreadInv!(g)'
  <2>1. ThreadInv!(g) /\ pc'[g] \notin Registering /\ wpc'[g] = wpc[g]
    BY Zenon, <1>1, Here
  <2> QED BY Zenon, <1>1, <2>1
<1>3. C!Next \/ UNCHANGED tokenVars
  OBVIOUS
<1>4. /\ \A t \in Threads : t # g => pc'[t] = pc[t] /\ cb'[t] = cb[t]
      /\ \A h \in Getters : h # g =>
           /\ got'[h] = got[h] /\ wmem'[h] = wmem[h] /\ wrefs'[h] = wrefs[h] /\ mem'[h] = mem[h]
           /\ (h \in rolledBack' <=> h \in rolledBack) /\ (h \in handles' <=> h \in handles)
  BY Zenon, <1>1
<1> QED BY Zenon, <1>1, <1>2, <1>3, <1>4, GetterMoves

-----------------------------------------------------------------------------
(* A call that ends before it has a waiter, or gets as far as to push one.  *)
LEMMA EarlyInv ==
  ASSUME TokenKept, IInv, NEW g \in Getters,
         CheckToken(g) \/ CheckReady(g) \/ (Push(g) /\ closed)
  PROVE  IInv'
<1>a. GetterInv!(g) /\ RefInv!(g) /\ ClaimInv!1!(g) /\ AnswerIsTrue!(g) /\ TypeOK /\ StackInv
  BY Zenon, Here
<1>1. /\ gpc[g] \in Early /\ pc[g] = "idle" /\ ~futureReleased
      /\ UNCHANGED tokenVars /\ UNCHANGED stackVars
      /\ UNCHANGED <<wrefs, wmem, taken, wakes, wpc, rolledBack>>
  <2>1. CASE CheckToken(g)
    BY Zenon, <2>1 DEF CheckToken, At, Early, waiterVars
  <2>2. CASE CheckReady(g)
    BY <1>a, <2>2 DEF CheckReady, At, Early, waiterVars, StackInv
  <2>3. CASE Push(g) /\ closed
    <3>1. gpc[g] = "push" /\ ~futureReleased
      BY <1>a, <2>3 DEF Push, At, StackInv
    <3> QED BY Zenon, <2>3, <3>1 DEF Push, At, Early, stackVars
  <2> QED BY Zenon, <2>1, <2>2, <2>3
<1>2. PICK l \in {"check_ready", "push", "done"}, r \in {got[g], "result", "ECANCELED", "-1"} :
        /\ gpc' = [gpc EXCEPT ![g] = l] /\ got' = [got EXCEPT ![g] = r]
        /\ r \in {"result", "ECANCELED"} =>
             r = got[g] \/ (r = "result" /\ ready) \/ (r = "ECANCELED" /\ isCancelled)
  <2>0. [got EXCEPT ![g] = got[g]] = got
    BY Zenon, <1>a DEF TypeOK
  <2>1. CASE CheckToken(g)
    BY Zenon, <2>0, <2>1 DEF CheckToken, Goto, Return
  <2>2. CASE CheckReady(g)
    <3>1. "-1" \notin {"result", "ECANCELED"}
      OBVIOUS
    <3> QED BY Zenon, <2>0, <2>2, <3>1 DEF CheckReady, Goto, Return
  <2>3. CASE Push(g) /\ closed
    BY Zenon, <1>a, <2>3 DEF Push, Goto, Return, StackInv
  <2> QED BY Zenon, <2>1, <2>2, <2>3
<1>3. /\ l \in GetPCs /\ l \in Early \cup {"done"} /\ gpc'[g] = l /\ got'[g] = r
      /\ l \notin {"retain", "register", "wait", "unregister", "release", "answer"} \cup RollingBack
  <2>1. /\ l \in GetPCs /\ l \in Early \cup {"done"}
        /\ l \notin {"retain", "register", "wait", "unregister", "release", "answer"} \cup RollingBack
    BY DEF GetPCs, Early, RollingBack
  <2> QED BY Zenon, <1>a, <1>2, <2>1 DEF TypeOK
<1>4. UNCHANGED <<isCancelled, mem, handles, pc, cb, ready, closed, futureReleased>>
      /\ (Queued(g)' <=> Queued(g))
  BY Zenon, <1>1 DEF tokenVars, stackVars, Queued
<1>5. wmem[g] = "none" /\ mem[g] = "unused" /\ g \notin rolledBack /\ g \notin handles
  <2>1. wmem[g] = "none"
    BY Zenon, <1>a, <1>1
  <2>2. gpc[g] \notin RollingBack \cup {"done"} /\ gpc[g] \notin {"wait", "unregister"}
    BY <1>1 DEF Early, RollingBack
  <2> QED BY Zenon, <1>a, <2>1, <2>2
<1>6. GetterInv!(g)'
  BY Zenon, <1>a, <1>1, <1>3, <1>4, <1>5
<1>7. RefInv!(g)'
  <2>1. Own(g)' = 0 /\ Own(g) = 0 /\ Callbacks(g)' = 0 /\ Callbacks(g) = 0
    <3>1. gpc[g] \notin {"retain", "register", "wait", "unregister", "release"} \cup RollingBack
      BY <1>1 DEF Early, RollingBack
    <3>2. mem[g] # "live" /\ mem'[g] # "live"
      BY <1>4, <1>5
    <3> QED BY Zenon, <1>3, <3>1, <3>2 DEF Own, Callbacks, RollingBack
  <2>2. Stacked(g)' = Stacked(g)
    BY Zenon, <1>4 DEF Stacked
  <2> QED BY Zenon, <1>a, <1>1, <1>4, <2>1, <2>2
<1>8. ClaimInv!1!(g)'
  BY Zenon, <1>a, <1>1, <1>3, <1>4, <1>5
<1>9. AnswerIsTrue!(g)'
  BY Zenon, <1>a, <1>2, <1>3, <1>4
<1>10. /\ got' \in [Getters -> {"none", "result", "ECANCELED", "-1"}]
       /\ \A h \in Getters : h # g => got'[h] = got[h]
  BY Zenon, <1>a, <1>2 DEF TypeOK
<1>11. wrefs' \in [Getters -> 0..3] /\ wmem' \in [Getters -> {"none", "live", "freed"}]
       /\ rolledBack' \subseteq Getters /\ gpc[g] # "done"
  <2>1. gpc[g] # "done"
    BY <1>1 DEF Early
  <2> QED BY Zenon, <1>a, <1>1, <2>1 DEF TypeOK
<1>12. GetterOK(g)'
  BY Zenon, <1>6, <1>7, <1>8, <1>9 DEF GetterOK
<1>13. \A h \in Getters : h # g =>
         /\ got'[h] = got[h] /\ wmem'[h] = wmem[h] /\ wrefs'[h] = wrefs[h]
         /\ (h \in rolledBack' <=> h \in rolledBack)
  BY Zenon, <1>1, <1>10
<1>14. pc[g] \notin Registering
  BY <1>1 DEF Registering
<1> QED BY Zenon, <1>1, <1>2, <1>3, <1>10, <1>11, <1>12, <1>13, <1>14, PlainMoves

(* A step of a getter that has a waiter: its place, and what of its waiter  *)
(* and its answer the step changes.                                         *)
LEMMA WaiterMoves ==
  ASSUME TokenKept, IInv, NEW g \in Getters, NEW l \in GetPCs, NEW k \in 0..3,
         NEW m \in {"none", "live", "freed"}, NEW r \in {"none", "result", "ECANCELED", "-1"},
         gpc' = [gpc EXCEPT ![g] = l], wrefs' = [wrefs EXCEPT ![g] = k],
         wmem' = [wmem EXCEPT ![g] = m], got' = [got EXCEPT ![g] = r],
         rolledBack' \in {rolledBack, rolledBack \cup {g}},
         gpc[g] \notin {"idle", "done"}, pc[g] \notin Registering,
         UNCHANGED tokenVars, UNCHANGED stackVars, taken' = taken, wakes' = wakes, wpc' = wpc,
         /\ gpc'[g] = l /\ wrefs'[g] = k /\ wmem'[g] = m /\ got'[g] = r
         /\ UNCHANGED <<isCancelled, mem, handles, pc, cb, ready, closed, futureReleased>>
         /\ (Queued(g)' <=> Queued(g)) /\ Stacked(g)' = Stacked(g)
         => GetterOK(g)'
  PROVE  IInv'
<1>a. TypeOK /\ StackInv
  BY Zenon, Here
<1>1. ~futureReleased /\ gpc[g] # "done"
  BY Zenon, <1>a DEF StackInv
<1>2. /\ UNCHANGED <<isCancelled, mem, handles, pc, cb, ready, closed, futureReleased>>
      /\ (Queued(g)' <=> Queued(g)) /\ Stacked(g)' = Stacked(g)
  BY Zenon DEF tokenVars, stackVars, Queued, Stacked
<1>3. gpc'[g] = l /\ wrefs'[g] = k /\ wmem'[g] = m /\ got'[g] = r
  BY Zenon, <1>a DEF TypeOK
<1>4. GetterOK(g)'
  BY Zenon, <1>2, <1>3
<1>5. \A h \in Getters : h # g =>
        /\ got'[h] = got[h] /\ wmem'[h] = wmem[h] /\ wrefs'[h] = wrefs[h]
        /\ (h \in rolledBack' <=> h \in rolledBack)
  BY Zenon, <1>a DEF TypeOK
<1>6. /\ got' \in [Getters -> {"none", "result", "ECANCELED", "-1"}]
      /\ wrefs' \in [Getters -> 0..3] /\ wmem' \in [Getters -> {"none", "live", "freed"}]
      /\ rolledBack' \subseteq Getters
  BY Zenon, <1>a DEF TypeOK
<1> QED BY Zenon, <1>1, <1>4, <1>5, <1>6, PlainMoves

LEMMA Unmoved ==
  ASSUME IInv, NEW g \in Getters
  PROVE  /\ wrefs = [wrefs EXCEPT ![g] = wrefs[g]] /\ wrefs[g] \in 0..3
         /\ wmem = [wmem EXCEPT ![g] = wmem[g]] /\ wmem[g] \in {"none", "live", "freed"}
         /\ got = [got EXCEPT ![g] = got[g]] /\ got[g] \in {"none", "result", "ECANCELED", "-1"}
<1>1. TypeOK
  BY Zenon DEF IInv
<1> QED BY Zenon, <1>1 DEF TypeOK

LEMMA RetainInv ==
  ASSUME TokenKept, IInv, NEW g \in Getters, Retain(g)
  PROVE  IInv'
<1>a. GetterInv!(g) /\ RefInv!(g) /\ ClaimInv!1!(g) /\ AnswerIsTrue!(g)
  BY Zenon, Here
<1>b. gpc[g] = "retain" /\ pc[g] = "idle"
  BY Zenon DEF Retain, At
<1>1. /\ gpc[g] \notin Early \cup {"idle", "done"} /\ gpc[g] \notin RollingBack \cup {"done"}
      /\ gpc[g] \notin {"wait", "unregister"} /\ pc[g] \notin Registering
  BY <1>b DEF Early, RollingBack, Registering
<1>2. /\ wmem[g] # "none" /\ mem[g] = "unused" /\ g \notin rolledBack /\ g \notin handles
  BY Zenon, <1>a, <1>b, <1>1
<1>3. PICK k \in 0..3 : k = wrefs[g] + 1 /\ k = 2 + Stacked(g)
  <2>1. Own(g) = 1 /\ Callbacks(g) = 0
    BY <1>b, <1>2 DEF Own, Callbacks, RollingBack
  <2> QED BY <2>1, Counted
<1>4. wmem[g] = "live"
  <2>1. wrefs[g] > 0
    BY <1>3, Counted
  <2> QED BY Zenon, <1>a, <2>1
<1>5. /\ gpc' = [gpc EXCEPT ![g] = "register"] /\ wrefs' = [wrefs EXCEPT ![g] = k]
      /\ UNCHANGED <<tokenVars, stackVars, wmem, taken, wakes, wpc, rolledBack, got>>
      /\ "register" \in GetPCs
  <2>1. "register" \in GetPCs
    BY DEF GetPCs
  <2> QED BY Zenon, <1>3, <2>1 DEF Retain, Retained, Goto
<1>6. ASSUME gpc'[g] = "register", wrefs'[g] = k, wmem'[g] = wmem[g], got'[g] = got[g],
             UNCHANGED <<isCancelled, mem, handles, pc, cb, ready, closed, futureReleased>>,
             Queued(g)' <=> Queued(g), Stacked(g)' = Stacked(g)
      PROVE  GetterOK(g)'
  <2>0. "register" \notin Early /\ "register" \notin RollingBack
        /\ "register" \notin {"wait", "unregister", "release", "answer", "done"}
    BY DEF Early, RollingBack
  <2>1. GetterInv!(g)'
    BY Zenon, <1>a, <1>2, <1>5, <1>6, <2>0
  <2>2. RefInv!(g)'
    <3>1. Own(g)' = 1 /\ Callbacks(g)' = 1
      BY Zenon, <1>6 DEF Own, Callbacks
    <3>2. wrefs'[g] = Own(g)' + Callbacks(g)' + Stacked(g)' /\ wrefs'[g] # 0
      BY <1>3, <1>6, <3>1, Counted
    <3> QED BY Zenon, <1>4, <1>6, <3>2
  <2>3. ClaimInv!1!(g)'
    BY Zenon, <1>a, <1>2, <1>5, <1>6, <2>0
  <2>4. AnswerIsTrue!(g)'
    BY Zenon, <1>a, <1>6
  <2> QED BY Zenon, <2>1, <2>2, <2>3, <2>4 DEF GetterOK
<1> QED BY ZenonT(30), <1>1, <1>5, <1>6, Unmoved, WaiterMoves

LEMMA RegisterFailsInv ==
  ASSUME TokenKept, IInv, NEW g \in Getters, RegisterFails(g)
  PROVE  IInv'
<1>a. GetterInv!(g) /\ RefInv!(g) /\ ClaimInv!1!(g) /\ AnswerIsTrue!(g)
  BY Zenon, Here
<1>b. gpc[g] = "register" /\ pc[g] = "idle"
  BY Zenon DEF RegisterFails, At
<1>1. /\ gpc[g] \notin Early \cup {"done"} /\ gpc[g] \notin {"idle", "done"}
      /\ gpc[g] \notin {"wait", "unregister"} /\ pc[g] \notin Registering
  BY <1>b DEF Early, Registering
<1>2. wmem[g] # "none" /\ mem[g] = "unused" /\ g \notin handles
  BY Zenon, <1>a, <1>b, <1>1
<1>5. /\ gpc' = [gpc EXCEPT ![g] = "roll_back"] /\ rolledBack' = rolledBack \cup {g}
      /\ UNCHANGED <<tokenVars, stackVars, waiterVars, wpc, got>> /\ "roll_back" \in GetPCs
  <2>1. "roll_back" \in GetPCs
    BY DEF GetPCs
  <2> QED BY Zenon, <2>1 DEF RegisterFails, Goto
<1>6. ASSUME gpc'[g] = "roll_back", wrefs'[g] = wrefs[g], wmem'[g] = wmem[g], got'[g] = got[g],
             UNCHANGED <<isCancelled, mem, handles, pc, cb, ready, closed, futureReleased>>,
             Queued(g)' <=> Queued(g), Stacked(g)' = Stacked(g)
      PROVE  GetterOK(g)'
  <2>0. /\ "roll_back" \notin Early /\ "roll_back" \in RollingBack
        /\ "roll_back" \notin {"retain", "register", "wait", "unregister", "release", "answer", "done"}
        /\ wakes' = wakes /\ taken' = taken /\ g \in rolledBack' /\ gpc'[g] \in RollingBack
    BY <1>5, <1>6 DEF Early, RollingBack, waiterVars
  <2>1. GetterInv!(g)'
    BY Zenon, <1>a, <1>2, <1>6, <2>0
  <2>2. RefInv!(g)'
    <3>1. Own(g) = 1 /\ Callbacks(g) = 1 /\ Own(g)' = 1 /\ Callbacks(g)' = 1
      BY Zenon, <1>b, <1>6, <2>0 DEF Own, Callbacks
    <3> QED BY Zenon, <1>a, <1>6, <2>0, <3>1
  <2>3. ClaimInv!1!(g)'
    BY Zenon, <1>a, <1>6, <2>0
  <2>4. AnswerIsTrue!(g)'
    BY Zenon, <1>a, <1>6
  <2> QED BY Zenon, <2>1, <2>2, <2>3, <2>4 DEF GetterOK
<1>7. /\ wrefs' = [wrefs EXCEPT ![g] = wrefs[g]] /\ wmem' = [wmem EXCEPT ![g] = wmem[g]]
      /\ got' = [got EXCEPT ![g] = got[g]]
      /\ UNCHANGED tokenVars /\ UNCHANGED stackVars /\ UNCHANGED <<taken, wakes, wpc>>
  BY Zenon, <1>5, Unmoved DEF waiterVars
<1> QED BY ZenonT(30), <1>1, <1>5, <1>6, <1>7, Unmoved, WaiterMoves

(* The roll-back's two decrements.  When the second takes the count to zero *)
(* the completer has been there: the waiter is off the stack.               *)
LEMMA RollBackInv ==
  ASSUME TokenKept, IInv, NEW g \in Getters, RollBack(g)
  PROVE  IInv'
<1>a. GetterInv!(g) /\ RefInv!(g) /\ ClaimInv!1!(g) /\ AnswerIsTrue!(g) /\ ThreadInv!(g) /\ StackInv
  BY Zenon, Here
<1>b. gpc[g] \in RollingBack
  BY Zenon DEF RollBack, RollingBack
<1>1. /\ gpc[g] \notin Early \cup {"done"} /\ gpc[g] \notin {"idle", "done"}
      /\ gpc[g] \notin {"wait", "unregister"} /\ gpc[g] # "wait"
  BY <1>b DEF Early, RollingBack
<1>2. /\ wmem[g] # "none" /\ mem[g] = "unused" /\ g \notin handles /\ g \in rolledBack
      /\ pc[g] \notin Registering /\ ~futureReleased
  BY Zenon, <1>a, <1>b, <1>1 DEF StackInv
<1>3. Callbacks(g) = 1 /\ (gpc[g] = "roll_back" => Own(g) = 1) /\ (gpc[g] # "roll_back" => Own(g) = 0)
  <2>1. Callbacks(g) = 1 /\ (gpc[g] = "roll_back" => Own(g) = 1)
    BY Zenon, <1>b DEF Own, Callbacks
  <2>2. gpc[g] # "roll_back" => Own(g) = 0
    BY <1>b DEF Own, RollingBack
  <2> QED BY Zenon, <2>1, <2>2
<1>4. PICK k \in 0..3 : k = wrefs[g] - 1 /\ k = Own(g) + Stacked(g)
  BY <1>3, Counted
<1>5. wmem[g] = "live"
  <2>1. wrefs[g] > 0
    BY <1>4, Counted
  <2> QED BY Zenon, <1>a, <2>1
<1>6. PICK l \in GetPCs, r \in {"none", "result", "ECANCELED", "-1"} :
        /\ gpc' = [gpc EXCEPT ![g] = l] /\ got' = [got EXCEPT ![g] = r]
        /\ \/ gpc[g] = "roll_back" /\ l = "roll_back_more" /\ r = got[g]
           \/ gpc[g] # "roll_back" /\ l = "done" /\ r = "-1"
  <2>1. "roll_back_more" \in GetPCs /\ "done" \in GetPCs
    BY DEF GetPCs
  <2> QED BY Zenon, <2>1, Unmoved DEF RollBack, Goto, Return
<1>7. wrefs' = [wrefs EXCEPT ![g] = k]
      /\ UNCHANGED <<tokenVars, stackVars, wmem, taken, wakes, wpc, rolledBack>>
  BY Zenon, <1>4 DEF RollBack
<1>8. ASSUME gpc'[g] = l, wrefs'[g] = k, wmem'[g] = wmem[g], got'[g] = r,
             UNCHANGED <<isCancelled, mem, handles, pc, cb, ready, closed, futureReleased>>,
             Queued(g)' <=> Queued(g), Stacked(g)' = Stacked(g)
      PROVE  GetterOK(g)'
  <2>0. /\ l \notin Early /\ l \in RollingBack \cup {"done"} /\ l # "roll_back"
        /\ l \notin {"retain", "register", "wait", "unregister", "release", "roll_back"}
        /\ l \notin {"retain", "register", "wait", "unregister", "release", "answer"}
        /\ (l = "done" => l \notin {"register"} \cup RollingBack)
    BY <1>6 DEF Early, RollingBack
  <2>1. GetterInv!(g)'
    BY Zenon, <1>a, <1>2, <1>7, <1>8, <2>0
  <2>2. RefInv!(g)'
    <3>1. Own(g)' = 0
      BY Zenon, <1>8, <2>0 DEF Own
    <3>2. Callbacks(g)' = Own(g)
      <4>1. CASE gpc[g] = "roll_back"
        <5>1. l \in RollingBack
          BY <1>6, <4>1 DEF RollingBack
        <5> QED BY Zenon, <1>3, <1>8, <4>1, <5>1 DEF Callbacks
      <4>2. CASE gpc[g] # "roll_back"
        <5>1. l = "done" /\ mem'[g] # "live"
          BY <1>2, <1>6, <1>8, <4>2
        <5> QED BY Zenon, <1>3, <1>8, <2>0, <4>2, <5>1 DEF Callbacks
      <4> QED BY Zenon, <4>1, <4>2
    <3>3. wrefs'[g] = Own(g)' + Callbacks(g)' + Stacked(g)'
      BY <1>4, <1>8, <3>1, <3>2, Counted
    <3>4. k = 0 => Stacked(g) = 0
      BY <1>4, Counted
    <3>5. Stacked(g) = 0 => ~Queued(g)
      BY DEF Stacked
    <3>6. k = 0 => ready'
      BY Zenon, <1>a, <1>2, <1>8, <3>4, <3>5 DEF StackInv
    <3> QED BY Zenon, <1>2, <1>5, <1>7, <1>8, <3>3, <3>6
  <2>3. ClaimInv!1!(g)'
    BY Zenon, <1>a, <1>2, <1>7, <1>8, <2>0
  <2>4. AnswerIsTrue!(g)'
    <3>1. "-1" \notin {"result", "ECANCELED"}
      OBVIOUS
    <3> QED BY Zenon, <1>a, <1>6, <1>8, <3>1
  <2> QED BY Zenon, <2>1, <2>2, <2>3, <2>4 DEF GetterOK
<1> QED BY ZenonT(30), <1>1, <1>2, <1>6, <1>7, <1>8, Unmoved, WaiterMoves

(* A woken getter has its handle: the registration has returned.            *)
LEMMA WaitInv ==
  ASSUME TokenKept, IInv, NEW g \in Getters, Wait(g)
  PROVE  IInv'
<1>a. GetterInv!(g) /\ RefInv!(g) /\ ClaimInv!1!(g) /\ AnswerIsTrue!(g)
  BY Zenon, Here
<1>b. gpc[g] = "wait" /\ pc[g] = "idle" /\ wakes[g] > 0
  BY Zenon DEF Wait, At
<1>1. /\ gpc[g] \notin Early \cup {"done"} /\ gpc[g] \notin {"idle", "done"}
      /\ gpc[g] \notin RollingBack \cup {"done"} /\ pc[g] \notin Registering
  BY <1>b DEF Early, Registering, RollingBack
<1>2. wmem[g] # "none" /\ mem[g] = "live" /\ g \in handles /\ g \notin rolledBack
  BY Zenon, <1>a, <1>b, <1>1
<1>3. wakes[g] = 1
  BY <1>a, <1>b
<1>5. /\ gpc' = [gpc EXCEPT ![g] = "unregister"]
      /\ UNCHANGED <<tokenVars, stackVars, waiterVars, wpc, rolledBack, got>>
      /\ "unregister" \in GetPCs
  <2>1. "unregister" \in GetPCs
    BY DEF GetPCs
  <2> QED BY Zenon, <2>1 DEF Wait, Goto
<1>6. ASSUME gpc'[g] = "unregister", wrefs'[g] = wrefs[g], wmem'[g] = wmem[g], got'[g] = got[g],
             UNCHANGED <<isCancelled, mem, handles, pc, cb, ready, closed, futureReleased>>,
             Queued(g)' <=> Queued(g), Stacked(g)' = Stacked(g)
      PROVE  GetterOK(g)'
  <2>0. /\ "unregister" \notin Early /\ "unregister" \notin RollingBack
        /\ "unregister" \notin {"retain", "register", "wait", "release", "answer", "done"}
        /\ wakes' = wakes /\ taken' = taken /\ rolledBack' = rolledBack
    BY <1>5 DEF Early, RollingBack, waiterVars
  <2>1. GetterInv!(g)'
    BY Zenon, <1>a, <1>2, <1>6, <2>0
  <2>2. RefInv!(g)'
    <3>1. Own(g) = 1 /\ Callbacks(g) = 1 /\ Own(g)' = 1 /\ Callbacks(g)' = 1
      BY Zenon, <1>b, <1>2, <1>6 DEF Own, Callbacks
    <3> QED BY Zenon, <1>a, <1>6, <2>0, <3>1
  <2>3. ClaimInv!1!(g)'
    BY Zenon, <1>a, <1>3, <1>6, <2>0
  <2>4. AnswerIsTrue!(g)'
    BY Zenon, <1>a, <1>6
  <2> QED BY Zenon, <2>1, <2>2, <2>3, <2>4 DEF GetterOK
<1>7. /\ wrefs' = [wrefs EXCEPT ![g] = wrefs[g]] /\ wmem' = [wmem EXCEPT ![g] = wmem[g]]
      /\ got' = [got EXCEPT ![g] = got[g]]
      /\ UNCHANGED tokenVars /\ UNCHANGED stackVars /\ UNCHANGED <<taken, wakes, wpc, rolledBack>>
  BY Zenon, <1>5, Unmoved DEF waiterVars
<1> QED BY Zenon, <1>1, <1>5, <1>6, <1>7, Unmoved, WaiterMoves

(* The last of the three to be dropped frees the waiter.                    *)
LEMMA ReleaseInv ==
  ASSUME TokenKept, IInv, NEW g \in Getters, Release(g)
  PROVE  IInv'
<1>a. GetterInv!(g) /\ RefInv!(g) /\ ClaimInv!1!(g) /\ AnswerIsTrue!(g)
  BY Zenon, Here
<1>b. gpc[g] = "release" /\ pc[g] = "idle"
  BY Zenon DEF Release, At
<1>1. /\ gpc[g] \notin Early \cup {"done"} /\ gpc[g] \notin {"idle", "done"}
      /\ gpc[g] \notin RollingBack \cup {"done"} /\ pc[g] \notin Registering
      /\ gpc[g] \notin {"wait", "unregister"} /\ gpc[g] \notin {"register"} \cup RollingBack
  BY <1>b DEF Early, Registering, RollingBack
<1>2. wmem[g] # "none" /\ g \notin handles /\ g \notin rolledBack /\ wakes[g] = 1
  BY Zenon, <1>a, <1>b, <1>1
<1>3. PICK k \in 0..3 : k = wrefs[g] - 1 /\ k = Callbacks(g) + Stacked(g)
  <2>1. Own(g) = 1
    BY Zenon, <1>b DEF Own
  <2> QED BY <2>1, Counted
<1>4. wmem[g] = "live" /\ (wrefs[g] = 1 <=> k = 0)
  <2>1. wrefs[g] > 0 /\ (wrefs[g] = 1 <=> k = 0)
    BY <1>3, Counted
  <2> QED BY Zenon, <1>a, <2>1
<1>5. PICK m \in {"none", "live", "freed"} :
        /\ wmem' = [wmem EXCEPT ![g] = m] /\ m = IF k = 0 THEN "freed" ELSE "live"
  BY Zenon, <1>4, Unmoved DEF Release, Unref
<1>6. /\ gpc' = [gpc EXCEPT ![g] = "answer"] /\ wrefs' = [wrefs EXCEPT ![g] = k]
      /\ UNCHANGED <<tokenVars, stackVars, taken, wakes, wpc, rolledBack, got>>
      /\ "answer" \in GetPCs
  <2>1. "answer" \in GetPCs
    BY DEF GetPCs
  <2> QED BY Zenon, <1>3, <2>1 DEF Release, Unref, Goto
<1>7. ASSUME gpc'[g] = "answer", wrefs'[g] = k, wmem'[g] = m, got'[g] = got[g],
             UNCHANGED <<isCancelled, mem, handles, pc, cb, ready, closed, futureReleased>>,
             Queued(g)' <=> Queued(g), Stacked(g)' = Stacked(g)
      PROVE  GetterOK(g)'
  <2>0. /\ "answer" \notin Early /\ "answer" \notin {"register"} \cup RollingBack
        /\ "answer" \notin {"retain", "register", "wait", "unregister", "release", "roll_back"}
        /\ "answer" # "done" /\ m # "none" /\ (m = "live" => k # 0) /\ (k > 0 => m = "live")
    BY <1>3, <1>5 DEF Early, RollingBack
  <2>1. GetterInv!(g)'
    BY Zenon, <1>a, <1>2, <1>6, <1>7, <2>0
  <2>2. RefInv!(g)'
    <3>1. Own(g)' = 0
      BY Zenon, <1>7, <2>0 DEF Own
    <3>2. Callbacks(g)' = Callbacks(g)
      BY Zenon, <1>1, <1>7, <2>0 DEF Callbacks
    <3>3. wrefs'[g] = Own(g)' + Callbacks(g)' + Stacked(g)'
      BY <1>3, <1>7, <3>1, <3>2, Counted
    <3> QED BY Zenon, <1>7, <2>0, <3>3
  <2>3. ClaimInv!1!(g)'
    BY Zenon, <1>a, <1>2, <1>6, <1>7, <2>0
  <2>4. AnswerIsTrue!(g)'
    BY Zenon, <1>a, <1>7
  <2> QED BY Zenon, <2>1, <2>2, <2>3, <2>4 DEF GetterOK
<1> QED BY ZenonT(30), <1>1, <1>5, <1>6, <1>7, Unmoved, WaiterMoves

(* Who was woken by the completer finds the future ready.                   *)
LEMMA AnswerInv ==
  ASSUME TokenKept, IInv, NEW g \in Getters, Answer(g)
  PROVE  IInv'
<1>a. GetterInv!(g) /\ RefInv!(g) /\ ClaimInv!1!(g) /\ AnswerIsTrue!(g)
  BY Zenon, Here
<1>b. gpc[g] = "answer" /\ pc[g] = "idle"
  BY Zenon DEF Answer, At
<1>1. /\ gpc[g] \notin Early \cup {"done"} /\ gpc[g] \notin {"idle", "done"}
      /\ gpc[g] \notin RollingBack \cup {"done"} /\ pc[g] \notin Registering
      /\ gpc[g] \notin {"wait", "unregister"} /\ gpc[g] \notin {"register"} \cup RollingBack
      /\ gpc[g] \notin {"retain", "register", "wait", "unregister", "release", "roll_back"}
  BY <1>b DEF Early, Registering, RollingBack
<1>2. /\ wmem[g] # "none" /\ g \notin handles /\ g \notin rolledBack /\ wakes[g] = 1
      /\ (ready \/ isCancelled)
  BY Zenon, <1>a, <1>b, <1>1
<1>3. PICK r \in {"none", "result", "ECANCELED", "-1"} :
        /\ got' = [got EXCEPT ![g] = r]
        /\ r = "result" => ready
        /\ r = "ECANCELED" => isCancelled
  <2>1. "result" # "ECANCELED"
    OBVIOUS
  <2> QED BY Zenon, <1>2, <2>1 DEF Answer, Return, Outcome
<1>5. /\ gpc' = [gpc EXCEPT ![g] = "done"] /\ "done" \in GetPCs
      /\ UNCHANGED <<tokenVars, stackVars, waiterVars, wpc, rolledBack>>
  <2>1. "done" \in GetPCs
    BY DEF GetPCs
  <2> QED BY Zenon, <2>1 DEF Answer, Return, Goto
<1>6. ASSUME gpc'[g] = "done", wrefs'[g] = wrefs[g], wmem'[g] = wmem[g], got'[g] = r,
             UNCHANGED <<isCancelled, mem, handles, pc, cb, ready, closed, futureReleased>>,
             Queued(g)' <=> Queued(g), Stacked(g)' = Stacked(g)
      PROVE  GetterOK(g)'
  <2>0. /\ "done" \notin Early /\ "done" \notin {"register"} \cup RollingBack
        /\ "done" \notin {"retain", "register", "wait", "unregister", "release", "roll_back"}
        /\ "done" \notin {"unregister", "release", "answer"}
        /\ wakes' = wakes /\ taken' = taken /\ rolledBack' = rolledBack
    BY <1>5 DEF Early, RollingBack, waiterVars
  <2>1. GetterInv!(g)'
    BY Zenon, <1>a, <1>2, <1>6, <2>0
  <2>2. RefInv!(g)'
    <3>1. Own(g) = 0 /\ Own(g)' = 0 /\ Callbacks(g)' = Callbacks(g)
      BY Zenon, <1>1, <1>6, <2>0 DEF Own, Callbacks
    <3> QED BY Zenon, <1>a, <1>6, <2>0, <3>1
  <2>3. ClaimInv!1!(g)'
    BY Zenon, <1>a, <1>2, <1>6, <2>0
  <2>4. AnswerIsTrue!(g)'
    BY Zenon, <1>3, <1>6
  <2> QED BY Zenon, <2>1, <2>2, <2>3, <2>4 DEF GetterOK
<1>7. /\ wrefs' = [wrefs EXCEPT ![g] = wrefs[g]] /\ wmem' = [wmem EXCEPT ![g] = wmem[g]]
      /\ UNCHANGED tokenVars /\ UNCHANGED stackVars /\ UNCHANGED <<taken, wakes, wpc, rolledBack>>
  BY Zenon, <1>5, Unmoved DEF waiterVars
<1> QED BY ZenonT(30), <1>1, <1>3, <1>5, <1>6, <1>7, Unmoved, WaiterMoves

-----------------------------------------------------------------------------
(* The registration: the node is alive from here on.                        *)
LEMMA RegisterInv ==
  ASSUME TokenKept, IInv, NEW g \in Getters, Register(g)
  PROVE  IInv'
<1>a. /\ GetterInv!(g) /\ RefInv!(g) /\ ClaimInv!1!(g) /\ AnswerIsTrue!(g) /\ ThreadInv!(g)
      /\ g \in Threads /\ C!IInv /\ TypeOK /\ StackInv
  BY Zenon, Here
<1>b. gpc[g] = "register" /\ pc[g] = "idle" /\ C!RegisterAlloc(g, g)
  BY Zenon DEF Register, At
<1>c. /\ gpc' = [gpc EXCEPT ![g] = "wait"] /\ gpc'[g] = "wait" /\ UNCHANGED stackVars
      /\ UNCHANGED <<wrefs, wmem, taken, wakes, wpc, rolledBack, got>>
  BY Zenon, <1>a DEF Register, Goto, waiterVars, TypeOK
<1>1. /\ gpc[g] \notin Early \cup {"done"} /\ gpc[g] \notin {"idle", "done"}
      /\ gpc[g] \notin {"wait", "unregister"} /\ gpc[g] \notin RollingBack \cup {"done"}
      /\ "register" \in Registering /\ "register" \notin {"in_callback", "in_inline"}
      /\ "idle" \notin {"in_callback", "in_inline"}
      /\ "wait" \in GetPCs /\ "wait" \notin Early \cup {"retain", "register"}
      /\ "wait" \notin RollingBack /\ "wait" \notin {"unregister", "release", "answer"}
      /\ "wait" # "done" /\ "wait" # "unregister"
  BY <1>b DEF Early, RollingBack, Registering, GetPCs
<1>2. /\ wmem[g] # "none" /\ g \notin handles /\ g \notin rolledBack /\ ~futureReleased
  BY Zenon, <1>a, <1>b, <1>1 DEF StackInv
<1>3. /\ C!Next /\ handles' = handles /\ isCancelled' = isCancelled
      /\ pc'[g] = "register" /\ cb'[g] = g /\ mem'[g] = "live"
      /\ \A t \in Threads : t # g => pc'[t] = pc[t] /\ cb'[t] = cb[t]
      /\ \A h \in Getters : h # g => mem'[h] = mem[h]
  <2>1. C!Next
    BY Zenon, <1>a, <1>b DEF C!Next, C!Call, Threads
  <2> QED BY Zenon, <1>a, <1>b, <2>1, TokenTypes DEF C!RegisterAlloc
<1>4. UNCHANGED <<ready, closed, stack, drain, futureReleased>> /\ (Queued(g)' <=> Queued(g))
      /\ Stacked(g)' = Stacked(g)
  BY Zenon, <1>c DEF stackVars, Queued, Stacked
<1>5. GetterOK(g)'
  <2>1. GetterInv!(g)'
    BY Zenon, <1>a, <1>c, <1>1, <1>2, <1>3, <1>4
  <2>2. RefInv!(g)'
    <3>1. Own(g) = 1 /\ Callbacks(g) = 1 /\ Own(g)' = 1 /\ Callbacks(g)' = 1
      BY Zenon, <1>b, <1>c, <1>3 DEF Own, Callbacks
    <3> QED BY Zenon, <1>a, <1>c, <1>4, <3>1
  <2>3. ClaimInv!1!(g)'
    BY Zenon, <1>a, <1>c, <1>1, <1>3, <1>4
  <2>4. AnswerIsTrue!(g)'
    BY Zenon, <1>a, <1>c, <1>3, <1>4
  <2> QED BY Zenon, <2>1, <2>2, <2>3, <2>4 DEF GetterOK
<1>6. ThreadInv!(g)'
  BY Zenon, <1>a, <1>b, <1>c, <1>1, <1>3
<1>7. /\ \A h \in Getters : h # g =>
           /\ got'[h] = got[h] /\ wmem'[h] = wmem[h] /\ wrefs'[h] = wrefs[h] /\ mem'[h] = mem[h]
           /\ (h \in rolledBack' <=> h \in rolledBack) /\ (h \in handles' <=> h \in handles)
      /\ got' \in [Getters -> {"none", "result", "ECANCELED", "-1"}]
      /\ wrefs' \in [Getters -> 0..3] /\ wmem' \in [Getters -> {"none", "live", "freed"}]
      /\ rolledBack' \subseteq Getters
  BY Zenon, <1>a, <1>c, <1>3 DEF TypeOK
<1> QED BY Zenon, <1>b, <1>c, <1>1, <1>2, <1>3, <1>5, <1>6, <1>7, GetterMoves

(* Unregister gives the handle up; the node may live on in a walk.          *)
LEMMA UnregisterInv ==
  ASSUME TokenKept, IInv, NEW g \in Getters, Unregister(g)
  PROVE  IInv'
<1>a. /\ GetterInv!(g) /\ RefInv!(g) /\ ClaimInv!1!(g) /\ AnswerIsTrue!(g) /\ ThreadInv!(g)
      /\ g \in Threads /\ C!IInv /\ TypeOK /\ StackInv
  BY Zenon, Here
<1>b. gpc[g] = "unregister" /\ pc[g] = "idle" /\ C!Unregister(g, g)
  BY Zenon DEF Unregister, At
<1>c. /\ gpc' = [gpc EXCEPT ![g] = "release"] /\ gpc'[g] = "release" /\ UNCHANGED stackVars
      /\ UNCHANGED <<wrefs, wmem, taken, wakes, wpc, rolledBack, got>>
  BY Zenon, <1>a DEF Unregister, Goto, waiterVars, TypeOK
<1>1. /\ gpc[g] \notin Early \cup {"done"} /\ gpc[g] \notin {"idle", "done"}
      /\ gpc[g] \notin RollingBack \cup {"done"} /\ gpc[g] \notin {"register"} \cup RollingBack
      /\ \A l \in {"idle", "free_node"} : l \notin Registering /\ l \notin {"in_callback", "in_inline"}
      /\ "release" \in GetPCs /\ "release" \notin Early \cup {"retain", "register"}
      /\ "release" \notin RollingBack /\ "release" \notin {"wait", "unregister", "done"}
      /\ "release" \notin {"register"} \cup RollingBack
  BY <1>b DEF Early, RollingBack, Registering, GetPCs
<1>2. /\ wmem[g] # "none" /\ g \notin rolledBack /\ ~futureReleased /\ wakes[g] = 1
  BY Zenon, <1>a, <1>b, <1>1 DEF StackInv
<1>3. /\ C!Next /\ handles' = handles \ {g} /\ isCancelled' = isCancelled /\ mem' = mem
      /\ pc'[g] \in {"idle", "free_node"}
      /\ \A t \in Threads : t # g => pc'[t] = pc[t] /\ cb'[t] = cb[t]
  <2>1. C!Next
    BY Zenon, <1>a, <1>b DEF C!Next, C!Call, Threads
  <2> QED BY Zenon, <1>a, <1>b, <2>1, TokenTypes DEF C!Unregister
<1>4. UNCHANGED <<ready, closed, stack, drain, futureReleased>> /\ (Queued(g)' <=> Queued(g))
      /\ Stacked(g)' = Stacked(g)
  BY Zenon, <1>c DEF stackVars, Queued, Stacked
<1>5. GetterOK(g)'
  <2>1. GetterInv!(g)'
    BY Zenon, <1>a, <1>c, <1>1, <1>2, <1>3, <1>4
  <2>2. RefInv!(g)'
    <3>1. Own(g) = 1 /\ Own(g)' = 1 /\ Callbacks(g)' = Callbacks(g)
      BY Zenon, <1>b, <1>c, <1>1, <1>3 DEF Own, Callbacks
    <3> QED BY Zenon, <1>a, <1>c, <1>4, <3>1
  <2>3. ClaimInv!1!(g)'
    BY Zenon, <1>a, <1>c, <1>1, <1>2, <1>3, <1>4
  <2>4. AnswerIsTrue!(g)'
    BY Zenon, <1>a, <1>c, <1>3, <1>4
  <2> QED BY Zenon, <2>1, <2>2, <2>3, <2>4 DEF GetterOK
<1>6. ThreadInv!(g)'
  BY Zenon, <1>a, <1>b, <1>c, <1>1, <1>3
<1>7. /\ \A h \in Getters : h # g =>
           /\ got'[h] = got[h] /\ wmem'[h] = wmem[h] /\ wrefs'[h] = wrefs[h] /\ mem'[h] = mem[h]
           /\ (h \in rolledBack' <=> h \in rolledBack) /\ (h \in handles' <=> h \in handles)
      /\ got' \in [Getters -> {"none", "result", "ECANCELED", "-1"}]
      /\ wrefs' \in [Getters -> 0..3] /\ wmem' \in [Getters -> {"none", "live", "freed"}]
      /\ rolledBack' \subseteq Getters
  BY Zenon, <1>a, <1>c, <1>3 DEF TypeOK
<1> QED BY Zenon, <1>b, <1>c, <1>1, <1>2, <1>3, <1>5, <1>6, <1>7, GetterMoves

-----------------------------------------------------------------------------
LEMMA StepInv ==
  ASSUME TokenKept, IInv, C!Next \/ UNCHANGED tokenVars, C!TypeOK' => TypeOK', StackInv', ThreadInv',
         \A h \in Getters : GetterOK(h)', (ClaimInv!2)', (ClaimInv!3)'
  PROVE  IInv'
<1>1. C!IInv' /\ C!KeptInv'
  BY Zenon DEF TokenKept, IInv
<1>2. C!TypeOK'
  BY Zenon, <1>1 DEF C!IInv
<1>3. GetterInv' /\ RefInv' /\ ClaimInv' /\ AnswerIsTrue'
  BY Zenon, AllGetters
<1> QED BY Zenon, <1>1, <1>2, <1>3 DEF IInv

(* The push, on a stack that is still open.                                 *)
LEMMA PushInv ==
  ASSUME TokenKept, IInv, NEW g \in Getters, Push(g), ~closed
  PROVE  IInv'
<1>a. /\ GetterInv!(g) /\ RefInv!(g) /\ ClaimInv!1!(g) /\ AnswerIsTrue!(g) /\ TypeOK /\ StackInv
      /\ C!TypeOK
  BY Zenon, Here DEF TypeOK
<1>b. /\ gpc[g] = "push" /\ pc[g] = "idle" /\ stack' = <<g>> \o stack
      /\ wrefs' = [wrefs EXCEPT ![g] = 2] /\ wmem' = [wmem EXCEPT ![g] = "live"]
      /\ gpc' = [gpc EXCEPT ![g] = "retain"] /\ got' = got
      /\ UNCHANGED <<tokenVars, ready, closed, drain, futureReleased, taken, wakes, wpc, rolledBack>>
  BY Zenon DEF Push, At, Goto
<1>c. UNCHANGED <<isCancelled, mem, handles, pc, cb>>
  BY Zenon, <1>b DEF tokenVars
<1>d. /\ gpc[g] \in Early /\ gpc[g] \notin {"idle", "done"} /\ gpc[g] \notin RollingBack \cup {"done"}
      /\ gpc[g] \notin {"wait", "unregister"} /\ pc[g] \notin Registering
      /\ "retain" \in GetPCs /\ "retain" \notin Early /\ "retain" \notin RollingBack
      /\ "retain" \notin {"wait", "unregister", "release", "answer", "done"}
      /\ "retain" \notin {"register"} \cup RollingBack /\ 2 \in 0..3 /\ 2 > 0
  BY <1>b DEF Early, RollingBack, Registering, GetPCs
<1>e. /\ wmem[g] = "none" /\ mem[g] = "unused" /\ g \notin handles /\ g \notin rolledBack
      /\ ~Queued(g) /\ ~futureReleased /\ g \notin Range(stack) /\ g \notin Range(drain)
  <2>1. wmem[g] = "none"
    BY Zenon, <1>a, <1>d
  <2>2. ~futureReleased
    BY Zenon, <1>a, <1>d DEF StackInv
  <2> QED BY Zenon, <1>a, <1>d, <2>1, <2>2 DEF Queued
<1>1. /\ stack' \in Seq(Getters) /\ IsInjective(stack')
      /\ \A x : x \in Range(stack') <=> x \in Range(stack) \/ x = g
  <2>1. PICK s, c : s = stack /\ c = stack'
    OBVIOUS
  <2>2. s \in Seq(Getters) /\ IsInjective(s) /\ g \notin Range(s) /\ c = <<g>> \o s
    BY Zenon, <1>a, <1>b, <1>e, <2>1 DEF TypeOK, StackInv
  <2>3. /\ c \in Seq(Getters) /\ IsInjective(c)
        /\ \A x : x \in Range(c) <=> x \in Range(s) \/ x = g
    BY ZenonT(30), <2>2, Linked
  <2> QED BY Zenon, <2>1, <2>3
<1>2. /\ gpc'[g] = "retain" /\ wrefs'[g] = 2 /\ wmem'[g] = "live"
      /\ \A h \in Getters : h # g => gpc'[h] = gpc[h] /\ wrefs'[h] = wrefs[h] /\ wmem'[h] = wmem[h]
      /\ gpc' \in [Getters -> GetPCs] /\ wrefs' \in [Getters -> 0..3]
      /\ wmem' \in [Getters -> {"none", "live", "freed"}]
  BY Zenon, <1>a, <1>b, <1>d DEF TypeOK
<1>3. C!TypeOK' => TypeOK'
  BY Zenon, <1>a, <1>b, <1>1, <1>2 DEF TypeOK
<1>4. StackInv'
  <2>1. IsInjective(stack') /\ IsInjective(drain') /\ Range(stack') \cap Range(drain') = {}
    BY Zenon, <1>a, <1>b, <1>e, <1>1 DEF StackInv
  <2> QED BY Zenon, <1>a, <1>b, <1>e, <2>1 DEF StackInv
<1>5. ASSUME NEW h \in Getters, h # g PROVE GetterOK(h)'
  <2>1. Queued(h)' <=> Queued(h)
    BY Zenon, <1>b, <1>1, <1>5 DEF Queued
  <2>2. Same(h) /\ Onward /\ pc'[h] = pc[h]
    BY Zenon, <1>b, <1>c, <1>2, <1>5, <2>1 DEF Same, Onward
  <2> QED BY Zenon, <2>2, SameGetter
<1>6. GetterOK(g)'
  <2>1. Queued(g)'
    BY Zenon, <1>1 DEF Queued
  <2>0. "live" # "none" /\ "live" # "unused"
    OBVIOUS
  <2>2. GetterInv!(g)'
    BY Zenon, <1>a, <1>b, <1>c, <1>d, <1>e, <1>2, <2>0, <2>1
  <2>3. RefInv!(g)'
    <3>1. Own(g)' = 1 /\ Stacked(g)' = 1
      BY Zenon, <1>2, <2>1 DEF Own, Stacked
    <3>2. Callbacks(g)' = 0
      <4>1. mem'[g] # "live"
        BY <1>c, <1>e
      <4> QED BY Zenon, <1>d, <1>2, <4>1 DEF Callbacks
    <3>3. wrefs'[g] = Own(g)' + Callbacks(g)' + Stacked(g)' /\ wrefs'[g] # 0
      BY <1>2, <3>1, <3>2
    <3> QED BY Zenon, <1>2, <3>3
  <2>4. ClaimInv!1!(g)'
    BY Zenon, <1>a, <1>b, <1>c, <1>d, <1>e, <1>2, <2>0
  <2>5. AnswerIsTrue!(g)'
    BY Zenon, <1>a, <1>b, <1>c
  <2> QED BY Zenon, <2>2, <2>3, <2>4, <2>5 DEF GetterOK
<1>7. (ClaimInv!2)' /\ (ClaimInv!3)'
  <2>1. \A p : Target(p)' = Target(p)
    BY Zenon, <1>b, <1>c DEF Target
  <2> QED BY Zenon, <1>b, <2>1, SameWakers
<1>8. ThreadInv'
  <2>1. ThreadInv /\ pc' = pc /\ cb' = cb /\ wpc' = wpc
    BY Zenon, <1>b, <1>c DEF IInv
  <2>2. ASSUME NEW t \in Threads PROVE ThreadInv!(t)'
    BY ZenonT(30), <1>d, <1>2, <2>1 DEF ThreadInv, Threads
  <2> QED BY Zenon, <2>2 DEF ThreadInv, Threads
<1>9. \A h \in Getters : GetterOK(h)'
  BY Zenon, <1>5, <1>6
<1> QED BY Zenon, <1>b, <1>3, <1>4, <1>7, <1>8, <1>9, StepInv

-----------------------------------------------------------------------------
(* A step of a thread inside the token.                                     *)
LEMMA TokenMoves ==
  ASSUME TokenKept, IInv, NEW t \in Threads, C!Next \/ UNCHANGED tokenVars, UNCHANGED stackVars,
         gpc' = gpc, got' = got, rolledBack' = rolledBack,
         taken' \subseteq Getters, wpc' \in [Procs -> {"none", "wake", "leave"}],
         wrefs' \in [Getters -> 0..3], wmem' \in [Getters -> {"none", "live", "freed"}],
         wakes' \in [Getters -> Nat],
         \A u \in Threads : u # t => pc'[u] = pc[u] /\ cb'[u] = cb[u] /\ wpc'[u] = wpc[u],
         wpc'[Completer] = wpc[Completer], ThreadInv!(t)',
         \A h \in Getters : GetterOK(h)', (ClaimInv!2)', (ClaimInv!3)'
  PROVE  IInv'
<1>a. TypeOK /\ StackInv /\ ThreadInv
  BY Zenon DEF IInv
<1>b. UNCHANGED <<ready, closed, stack, drain, futureReleased>>
  BY Zenon DEF stackVars
<1>1. C!TypeOK' => TypeOK'
  BY Zenon, <1>a, <1>b DEF TypeOK
<1>2. StackInv'
  BY Zenon, <1>a, <1>b DEF StackInv
<1>3. ThreadInv'
  <2>1. ASSUME NEW u \in Threads, u # t PROVE ThreadInv!(u)'
    <3>1. ThreadInv!(u)
      BY Zenon, <1>a DEF ThreadInv, Threads
    <3> QED BY Zenon, <2>1, <3>1
  <2> QED BY ZenonT(30), <2>1 DEF ThreadInv, Threads
<1> QED BY Zenon, <1>1, <1>2, <1>3, StepInv

(* ... that leaves every waiter alone: at most, it hands a getter its       *)
(* handle.                                                                  *)
LEMMA QuietMoves ==
  ASSUME TokenKept, IInv, NEW t \in Threads, C!Next, UNCHANGED stackVars, UNCHANGED waiterVars,
         gpc' = gpc, got' = got, rolledBack' = rolledBack, mem' = mem,
         isCancelled => isCancelled',
         \A u \in Threads : u # t => pc'[u] = pc[u] /\ cb'[u] = cb[u],
         wpc' = [wpc EXCEPT ![t] = "none"], ThreadInv!(t)',
         \/ handles' = handles /\ (pc[t] \in Registering => pc'[t] \in Registering)
         \/ pc[t] \in Registering /\ handles' = handles \cup {t}
  PROVE  IInv'
<1>a. TypeOK /\ StackInv /\ ThreadInv
  BY Zenon DEF IInv
<1>b. /\ UNCHANGED <<ready, closed, stack, drain, futureReleased, wrefs, wmem, taken, wakes>>
      /\ \A h : Queued(h)' <=> Queued(h)
  BY Zenon DEF stackVars, waiterVars, Queued
<1>c. /\ wpc' \in [Procs -> {"none", "wake", "leave"}] /\ wpc'[t] = "none" /\ t \in Procs
      /\ \A p \in Procs : p # t => wpc'[p] = wpc[p]
      /\ wpc'[Completer] = wpc[Completer] /\ Completer \in Procs /\ Completer # t
  <2>1. t \in Procs /\ Completer \in Procs /\ Completer # t
    BY Zenon, Names
  <2> QED BY Zenon, <1>a, <2>1 DEF TypeOK
<1>d. Onward
  BY Zenon, <1>b DEF Onward
<1>1. ASSUME NEW h \in Getters PROVE GetterOK(h)'
  <2>0. h # t => pc'[h] = pc[h]
    BY Zenon DEF Threads
  <2>1. CASE h \in handles' <=> h \in handles
    <3>1. Same(h)
      BY Zenon, <1>b, <2>1 DEF Same
    <3>2. pc[h] \in Registering => pc'[h] \in Registering \/ h \in handles'
      BY Zenon, <2>0
    <3> QED BY Zenon, <1>d, <3>1, <3>2, SameGetter
  <2>2. CASE ~(h \in handles' <=> h \in handles)
    <3>1. h = t /\ pc[t] \in Registering /\ h \in handles'
      BY Zenon, <2>2
    <3>2. gpc[h] = "wait"
      BY Zenon, <1>a, <3>1 DEF ThreadInv, Threads
    <3>3. GetterInv!(h) /\ RefInv!(h) /\ ClaimInv!1!(h) /\ AnswerIsTrue!(h)
      BY Zenon, Here
    <3>4. GetterInv!(h)'
      BY Zenon, <1>b, <3>1, <3>2, <3>3
    <3>5. RefInv!(h)'
      <4>1. Own(h)' = Own(h) /\ Callbacks(h)' = Callbacks(h) /\ Stacked(h)' = Stacked(h)
        BY Zenon, <1>b DEF Own, Callbacks, Stacked
      <4> QED BY Zenon, <1>b, <3>3, <4>1
    <3>6. ClaimInv!1!(h)' /\ AnswerIsTrue!(h)'
      BY Zenon, <1>b, <3>3
    <3> QED BY Zenon, <3>4, <3>5, <3>6 DEF GetterOK
  <2> QED BY Zenon, <2>1, <2>2
<1>2. (ClaimInv!2)' /\ (ClaimInv!3)'
  <2>1. ASSUME NEW p \in Procs, wpc'[p] = "wake"
        PROVE  wpc[p] = "wake" /\ Target(p)' = Target(p)
    <3>1. p # t
      BY <1>c, <2>1
    <3>2. p \in Threads => cb'[p] = cb[p]
      BY Zenon, <3>1
    <3>3. Target(p)' = Target(p)
      BY Zenon, <1>b, <3>2, Names DEF Target
    <3> QED BY Zenon, <1>c, <2>1, <3>1, <3>3
  <2> QED BY Zenon, <1>b, <2>1, SameWakers
<1>3. /\ taken' \subseteq Getters /\ wrefs' \in [Getters -> 0..3]
      /\ wmem' \in [Getters -> {"none", "live", "freed"}] /\ wakes' \in [Getters -> Nat]
  BY Zenon, <1>a, <1>b DEF TypeOK
<1>4. \A u \in Threads : u # t => pc'[u] = pc[u] /\ cb'[u] = cb[u] /\ wpc'[u] = wpc[u]
  BY Zenon, <1>c, Names
<1> QED BY Zenon, <1>c, <1>1, <1>2, <1>3, <1>4, TokenMoves

LEMMA NotBusy ==
  ASSUME IInv, NEW t \in Threads, pc[t] \notin {"in_callback", "in_inline"}, wpc' = wpc
  PROVE  wpc' = [wpc EXCEPT ![t] = "none"]
<1>1. TypeOK /\ ThreadInv!(t) /\ t \in Procs
  BY Zenon, Names DEF IInv, ThreadInv, Threads
<1>2. wpc[t] = "none"
  BY Zenon, <1>1
<1> QED BY Zenon, <1>1, <1>2 DEF TypeOK

LEMMA TokenStepInv ==
  ASSUME TokenKept, IInv, NEW t \in Threads, TokenStep(t)
  PROVE  IInv'
<1>a. ThreadInv!(t) /\ C!IInv
  BY Zenon DEF IInv, ThreadInv, Threads
<1>b. UNCHANGED stackVars /\ UNCHANGED waiterVars /\ UNCHANGED <<gpc, wpc, rolledBack, got>>
  BY Zenon DEF TokenStep
<1>c. /\ pc \in [Threads -> C!PCs] /\ cb \in [Threads -> Getters \cup {NoNode}]
  BY Zenon, <1>a, TokenTypes
<1>d. C!Next
  BY Zenon DEF TokenStep, C!Next, C!Step, Threads
<1>1. CASE C!RegisterLink(t)
  <2>1. /\ pc[t] = "register" /\ handles' = handles \cup {cb[t]} /\ pc'[t] = "idle"
        /\ mem' = mem /\ isCancelled' = isCancelled
        /\ \A u \in Threads : u # t => pc'[u] = pc[u] /\ cb'[u] = cb[u]
    BY Zenon, <1>c, <1>1 DEF C!RegisterLink
  <2>2. /\ pc[t] \in Registering /\ pc[t] \notin {"in_callback", "in_inline"}
        /\ pc'[t] \notin Registering /\ pc'[t] \notin {"in_callback", "in_inline"}
    BY <2>1 DEF Registering
  <2>3. wpc' = [wpc EXCEPT ![t] = "none"] /\ cb[t] = t /\ wpc[t] = "none"
    BY Zenon, <1>a, <1>b, <2>2, NotBusy
  <2>4. ThreadInv!(t)'
    BY Zenon, <1>b, <2>2, <2>3
  <2>5. handles' = handles \cup {t}
    BY Zenon, <2>1, <2>3
  <2> QED BY Zenon, <1>b, <1>d, <2>1, <2>2, <2>3, <2>4, <2>5, QuietMoves
<1>2. CASE C!RegisterLate(t)
  <2>1. /\ pc[t] = "register" /\ handles' = handles /\ pc'[t] = "inline" /\ cb' = cb
        /\ mem' = mem /\ isCancelled' = isCancelled
        /\ \A u \in Threads : u # t => pc'[u] = pc[u] /\ cb'[u] = cb[u]
    BY Zenon, <1>c, <1>2 DEF C!RegisterLate, C!tokenVars
  <2>2. /\ pc[t] \in Registering /\ pc[t] \notin {"in_callback", "in_inline"}
        /\ pc'[t] \in Registering /\ pc'[t] \notin {"in_callback", "in_inline"}
    BY <2>1 DEF Registering
  <2>3. wpc' = [wpc EXCEPT ![t] = "none"] /\ wpc[t] = "none"
    BY Zenon, <1>a, <1>b, <2>2, NotBusy
  <2>4. ThreadInv!(t)'
    BY Zenon, <1>a, <1>b, <2>1, <2>2, <2>3
  <2> QED BY Zenon, <1>b, <1>d, <2>1, <2>2, <2>3, <2>4, QuietMoves
<1>3. CASE C!TokenRelease(t)
  <2>1. /\ pc[t] = "drop_token" /\ handles' = handles /\ pc'[t] \in {"reclaim", "idle", "walk"}
        /\ mem' = mem /\ isCancelled' = isCancelled
        /\ \A u \in Threads : u # t => pc'[u] = pc[u] /\ cb'[u] = cb[u]
    BY Zenon, <1>c, <1>3 DEF C!TokenRelease, C!DropTokenRef, C!AfterNode, C!nodeVars
  <2>2. /\ pc[t] \notin Registering /\ pc[t] \notin {"in_callback", "in_inline"}
        /\ pc'[t] \notin Registering /\ pc'[t] \notin {"in_callback", "in_inline"}
    BY <2>1 DEF Registering
  <2>3. wpc' = [wpc EXCEPT ![t] = "none"] /\ wpc[t] = "none"
    BY Zenon, <1>a, <1>b, <2>2, NotBusy
  <2>4. ThreadInv!(t)'
    BY Zenon, <1>b, <2>2, <2>3
  <2> QED BY Zenon, <1>b, <1>d, <2>1, <2>2, <2>3, <2>4, QuietMoves
<1> QED BY Zenon, <1>1, <1>2, <1>3 DEF TokenStep

LEMMA CancelInv ==
  ASSUME TokenKept, IInv, Cancel
  PROVE  IInv'
<1>0. PICK t \in Threads : t = Canceller
  BY Zenon DEF Threads
<1>a. ThreadInv!(t) /\ C!IInv
  BY Zenon DEF IInv, ThreadInv, Threads
<1>b. UNCHANGED stackVars /\ UNCHANGED waiterVars /\ UNCHANGED <<gpc, wpc, rolledBack, got>>
  BY Zenon DEF Cancel
<1>c. /\ pc \in [Threads -> C!PCs] /\ cb \in [Threads -> Getters \cup {NoNode}]
  BY Zenon, <1>a, TokenTypes
<1>1. C!Cancel(t)
  BY Zenon, <1>0 DEF Cancel
<1>d. C!Next
  BY Zenon, <1>1 DEF C!Next, C!Call, Threads
<1>2. /\ pc[t] = "idle" /\ handles' = handles /\ pc'[t] \in {"idle", "walk"} /\ cb' = cb
      /\ mem' = mem /\ isCancelled'
      /\ \A u \in Threads : u # t => pc'[u] = pc[u] /\ cb'[u] = cb[u]
  BY Zenon, <1>c, <1>1 DEF C!Cancel
<1>3. /\ pc[t] \notin Registering /\ pc[t] \notin {"in_callback", "in_inline"}
      /\ pc'[t] \notin Registering /\ pc'[t] \notin {"in_callback", "in_inline"}
  BY <1>2 DEF Registering
<1>4. wpc' = [wpc EXCEPT ![t] = "none"] /\ wpc[t] = "none"
  BY Zenon, <1>a, <1>b, <1>3, NotBusy
<1>5. ThreadInv!(t)'
  BY Zenon, <1>b, <1>3, <1>4
<1> QED BY Zenon, <1>b, <1>d, <1>2, <1>3, <1>4, <1>5, QuietMoves

LEMMA CallbackReturnInv ==
  ASSUME TokenKept, IInv, NEW t \in Threads, CallbackReturn(t)
  PROVE  IInv'
<1>a. ThreadInv!(t) /\ C!IInv /\ TypeOK /\ t \in Procs
  BY Zenon, Names DEF IInv, ThreadInv, Threads
<1>b. /\ UNCHANGED stackVars /\ UNCHANGED waiterVars /\ UNCHANGED <<gpc, rolledBack, got>>
      /\ wpc' = [wpc EXCEPT ![t] = "none"] /\ wpc'[t] = "none"
  BY Zenon, <1>a DEF CallbackReturn, TypeOK
<1>c. /\ pc \in [Threads -> C!PCs] /\ cb \in [Threads -> Getters \cup {NoNode}]
  BY Zenon, <1>a, TokenTypes
<1>d. C!Next
  BY Zenon DEF CallbackReturn, C!Next, C!Step, Threads
<1>1. CASE C!InlineReturn(t)
  <2>1. /\ pc[t] = "in_inline" /\ handles' = handles \cup {cb[t]} /\ pc'[t] = "idle"
        /\ mem' = mem /\ isCancelled' = isCancelled
        /\ \A u \in Threads : u # t => pc'[u] = pc[u] /\ cb'[u] = cb[u]
    BY Zenon, <1>c, <1>1 DEF C!InlineReturn, C!nodeVars, C!tokenVars
  <2>2. /\ pc[t] \in Registering
        /\ pc'[t] \notin Registering /\ pc'[t] \notin {"in_callback", "in_inline"}
    BY <2>1 DEF Registering
  <2>3. handles' = handles \cup {t}
    BY Zenon, <1>a, <2>1, <2>2
  <2>4. ThreadInv!(t)'
    BY Zenon, <1>b, <2>2
  <2> QED BY Zenon, <1>b, <1>d, <2>1, <2>2, <2>3, <2>4, QuietMoves
<1>2. CASE C!CallbackReturn(t)
  <2>1. /\ pc[t] = "in_callback" /\ handles' = handles /\ pc'[t] \in {"free_node", "idle", "walk"}
        /\ mem' = mem /\ isCancelled' = isCancelled
        /\ \A u \in Threads : u # t => pc'[u] = pc[u] /\ cb'[u] = cb[u]
    BY Zenon, <1>c, <1>2 DEF C!CallbackReturn, C!AfterNode, C!tokenVars
  <2>2. /\ pc[t] \notin Registering
        /\ pc'[t] \notin Registering /\ pc'[t] \notin {"in_callback", "in_inline"}
    BY <2>1 DEF Registering
  <2>3. ThreadInv!(t)'
    BY Zenon, <1>b, <2>2
  <2> QED BY Zenon, <1>b, <1>d, <2>1, <2>2, <2>3, QuietMoves
<1> QED BY Zenon, <1>1, <1>2 DEF CallbackReturn

-----------------------------------------------------------------------------
(* The claim: whoever comes first will wake, and nobody else is about to.   *)
LEMMA ClaimStep ==
  ASSUME IInv, NEW p \in Procs, NEW n \in Getters, Claim(p, n), wakes' = wakes, Target(p)' = n,
         \A q \in Procs : q # p => Target(q)' = Target(q)
  PROVE  /\ (ClaimInv!2)' /\ (ClaimInv!3)'
         /\ wpc' \in [Procs -> {"none", "wake", "leave"}] /\ wpc'[p] # "none"
         /\ \A q \in Procs : q # p => wpc'[q] = wpc[q]
         /\ taken' \subseteq Getters /\ \A h : h \in taken' <=> h \in taken \/ h = n
<1>a. TypeOK /\ (ClaimInv!2) /\ (ClaimInv!3) /\ ClaimInv!1!(n)
  BY Zenon, Here DEF IInv, ClaimInv
<1>b. \A g : g = n => wakes'[g] = wakes[n]
  BY Zenon
<1>1. /\ wpc' \in [Procs -> {"none", "wake", "leave"}]
      /\ \A q \in Procs : q # p => wpc'[q] = wpc[q]
      /\ wpc'[p] = IF n \in taken THEN "leave" ELSE "wake"
  BY Zenon, <1>a DEF Claim, TypeOK
<1>2. wpc'[p] # "none" /\ (wpc'[p] = "wake" => n \notin taken)
  BY <1>1
<1>3. taken' = taken \cup {n} /\ taken \subseteq Getters
  BY Zenon, <1>a DEF Claim, TypeOK
<1>4. n \notin taken => wakes[n] = 0
  BY Zenon, <1>a
<1>5. ASSUME NEW q \in Procs, wpc'[q] = "wake", q # p
      PROVE  /\ wpc[q] = "wake" /\ Target(q)' = Target(q) /\ Target(q) \in taken
             /\ wakes[Target(q)] = 0
  BY Zenon, <1>a, <1>1, <1>5
<1>6. ASSUME NEW q \in Procs, wpc'[q] = "wake"
      PROVE  Target(q)' \in taken' /\ \A g : g = Target(q)' => wakes'[g] = 0
  <2>1. CASE q = p
    BY Zenon, <1>2, <1>3, <1>4, <1>6, <2>1
  <2>2. CASE q # p
    BY Zenon, <1>3, <1>5, <1>6, <2>2
  <2> QED BY Zenon, <2>1, <2>2
<1>7. ASSUME NEW q \in Procs, NEW r \in Procs, wpc'[q] = "wake", wpc'[r] = "wake",
             Target(q)' = Target(r)'
      PROVE  q = r
  <2>1. CASE q = p /\ r # p
    BY Zenon, <1>2, <1>5, <1>7, <2>1
  <2>2. CASE q # p /\ r = p
    BY Zenon, <1>2, <1>5, <1>7, <2>2
  <2>3. CASE q # p /\ r # p
    <3>1. wpc[q] = "wake" /\ wpc[r] = "wake" /\ Target(q) = Target(r)
      BY Zenon, <1>5, <1>7, <2>3
    <3> QED BY Zenon, <1>a, <3>1
  <2> QED BY Zenon, <2>1, <2>2, <2>3
<1>8. (ClaimInv!2)' /\ (ClaimInv!3)'
  BY Zenon, <1>6, <1>7
<1> QED BY Zenon, <1>1, <1>2, <1>3, <1>8

(* A getter that has been claimed.                                          *)
LEMMA ClaimedGetter ==
  ASSUME IInv, NEW n \in Getters, UNCHANGED stackVars, UNCHANGED <<wrefs, wmem, wakes, gpc>>,
         UNCHANGED <<rolledBack, got, mem, handles, isCancelled>>,
         \A h : h \in taken' <=> h \in taken \/ h = n, wmem[n] # "none", ready \/ isCancelled,
         \A h \in Getters : pc[h] \in Registering => pc'[h] \in Registering
  PROVE  \A h \in Getters : GetterOK(h)'
<1>b. /\ UNCHANGED <<ready, closed, stack, drain, futureReleased>>
      /\ \A h : Queued(h)' <=> Queued(h)
  BY Zenon DEF stackVars, Queued
<1>d. Onward
  BY Zenon, <1>b DEF Onward
<1>1. ASSUME NEW h \in Getters, h # n PROVE GetterOK(h)'
  <2>1. Same(h)
    BY Zenon, <1>b, <1>1 DEF Same
  <2> QED BY Zenon, <1>d, <2>1, SameGetter
<1>2. GetterOK(n)'
  <2>1. GetterInv!(n) /\ RefInv!(n) /\ ClaimInv!1!(n) /\ AnswerIsTrue!(n)
    BY Zenon, Here
  <2>2. GetterInv!(n)'
    BY Zenon, <1>b, <2>1
  <2>3. RefInv!(n)'
    <3>1. Own(n)' = Own(n) /\ Callbacks(n)' = Callbacks(n) /\ Stacked(n)' = Stacked(n)
      BY Zenon, <1>b DEF Own, Callbacks, Stacked
    <3> QED BY Zenon, <1>b, <2>1, <3>1
  <2>4. ClaimInv!1!(n)' /\ AnswerIsTrue!(n)'
    BY Zenon, <1>b, <2>1
  <2> QED BY Zenon, <2>2, <2>3, <2>4 DEF GetterOK
<1> QED BY Zenon, <1>1, <1>2

LEMMA CallbackEnterInv ==
  ASSUME TokenKept, IInv, NEW t \in Threads, CallbackEnter(t)
  PROVE  IInv'
<1>a. ThreadInv!(t) /\ C!IInv /\ C!KeptInv /\ TypeOK /\ t \in Procs /\ t # Completer
  BY Zenon, Names DEF IInv, ThreadInv, Threads
<1>b. /\ UNCHANGED stackVars /\ UNCHANGED <<wrefs, wmem, wakes, gpc, rolledBack, got>>
      /\ Claim(t, cb'[t])
  BY Zenon DEF CallbackEnter
<1>c. /\ pc \in [Threads -> C!PCs] /\ cb \in [Threads -> Getters \cup {NoNode}]
  BY Zenon, <1>a, TokenTypes
<1>d. C!Next
  BY Zenon DEF CallbackEnter, C!Next, C!Step, Threads
<1>1. /\ UNCHANGED <<mem, handles, isCancelled>>
      /\ \A u \in Threads : u # t => pc'[u] = pc[u] /\ cb'[u] = cb[u]
      /\ \/ pc[t] = "walk" /\ cb'[t] = Head(walk[t]) /\ pc'[t] = "in_callback"
         \/ pc[t] = "inline" /\ cb'[t] = cb[t] /\ pc'[t] = "in_inline"
  <2>1. CASE C!CallbackEnter(t)
    BY Zenon, <1>c, <2>1 DEF C!CallbackEnter, C!tokenVars, C!nodeVars
  <2>2. CASE C!InlineEnter(t)
    BY Zenon, <1>c, <2>2 DEF C!InlineEnter, C!tokenVars, C!nodeVars
  <2> QED BY Zenon, <2>1, <2>2 DEF CallbackEnter
<1>2. /\ pc'[t] \in {"in_callback", "in_inline"} /\ (pc[t] \in Registering => pc'[t] \in Registering)
      /\ (pc'[t] \in Registering => pc[t] \in Registering /\ cb'[t] = cb[t])
      /\ (pc[t] = "inline" => pc[t] \in AtNode \ {"drop_token"})
      /\ pc[t] \in {"inline", "in_inline", "in_callback", "walk"}
  <2>1. CASE pc[t] = "walk" /\ cb'[t] = Head(walk[t]) /\ pc'[t] = "in_callback"
    BY <2>1 DEF Registering
  <2>2. CASE pc[t] = "inline" /\ cb'[t] = cb[t] /\ pc'[t] = "in_inline"
    BY <2>2 DEF Registering, AtNode
  <2> QED BY Zenon, <1>1, <2>1, <2>2
<1>3. cb'[t] \in Getters /\ mem[cb'[t]] = "live" /\ isCancelled
  BY Zenon, <1>a, <1>1, <1>2, TokenFacts DEF AtNode
<1>4. PICK n \in Getters : n = cb'[t] /\ mem[n] = "live"
  BY Zenon, <1>3
<1>5. wmem[n] # "none"
  <2>1. mem[n] # "unused"
    BY <1>4
  <2> QED BY Zenon, <2>1, Here
<1>6. /\ Target(t)' = n
      /\ \A q \in Procs : q # t => Target(q)' = Target(q)
  <2>1. drain' = drain
    BY Zenon, <1>b DEF stackVars
  <2>2. \A q \in Procs : q # t /\ q # Completer => cb'[q] = cb[q]
    BY Zenon, <1>1, Names
  <2> QED BY Zenon, <1>a, <1>4, <2>1, <2>2 DEF Target
<1>7. Claim(t, n)
  BY Zenon, <1>b, <1>4
<1>8. /\ (ClaimInv!2)' /\ (ClaimInv!3)'
      /\ wpc' \in [Procs -> {"none", "wake", "leave"}] /\ wpc'[t] # "none"
      /\ \A q \in Procs : q # t => wpc'[q] = wpc[q]
      /\ taken' \subseteq Getters /\ \A h : h \in taken' <=> h \in taken \/ h = n
  BY Zenon, <1>a, <1>b, <1>6, <1>7, ClaimStep
<1>9. \A h \in Getters : GetterOK(h)'
  <2>1. \A h \in Getters : pc[h] \in Registering => pc'[h] \in Registering
    BY Zenon, <1>1, <1>2 DEF Threads
  <2> QED BY Zenon, <1>b, <1>1, <1>3, <1>5, <1>8, <2>1, ClaimedGetter
<1>10. ThreadInv!(t)'
  BY Zenon, <1>a, <1>b, <1>2, <1>8
<1>11. /\ wrefs' \in [Getters -> 0..3] /\ wmem' \in [Getters -> {"none", "live", "freed"}]
       /\ wakes' \in [Getters -> Nat]
  BY Zenon, <1>a, <1>b DEF TypeOK
<1>12. /\ \A u \in Threads : u # t => pc'[u] = pc[u] /\ cb'[u] = cb[u] /\ wpc'[u] = wpc[u]
       /\ wpc'[Completer] = wpc[Completer]
  BY Zenon, <1>a, <1>1, <1>8, Names
<1> QED BY Zenon, <1>b, <1>d, <1>8, <1>9, <1>10, <1>11, <1>12, TokenMoves

(* A reference that is there is dropped, and the waiter freed with the last.*)
LEMMA UnrefStep ==
  ASSUME IInv, NEW n \in Getters, Unref(n), wrefs[n] # 0
  PROVE  /\ wrefs' \in [Getters -> 0..3] /\ wmem' \in [Getters -> {"none", "live", "freed"}]
         /\ \A h \in Getters : h # n => wrefs'[h] = wrefs[h] /\ wmem'[h] = wmem[h]
         /\ wrefs'[n] = wrefs[n] - 1 /\ wrefs'[n] \in 0..2
         /\ wmem'[n] # "none" /\ wmem[n] # "none"
         /\ wrefs'[n] > 0 => wmem'[n] = "live"
         /\ wrefs'[n] = 0 => wmem'[n] = "freed"
<1>a. TypeOK /\ RefInv!(n) /\ wrefs[n] \in 0..3
  BY Zenon, Here, Counted
<1>1. PICK k \in 0..3 : k = wrefs[n] - 1 /\ k \in 0..2 /\ (wrefs[n] = 1 <=> k = 0)
  BY <1>a
<1>2. wrefs' = [wrefs EXCEPT ![n] = k] /\ wmem[n] = "live"
  <2>1. wrefs[n] > 0
    BY <1>a
  <2> QED BY Zenon, <1>a, <1>1, <2>1 DEF Unref
<1>3. PICK m \in {"live", "freed"} : wmem' = [wmem EXCEPT ![n] = m] /\ m = IF k = 0 THEN "freed" ELSE "live"
  BY Zenon, <1>1, <1>2, Unmoved DEF Unref
<1>4. /\ wrefs' \in [Getters -> 0..3] /\ wmem' \in [Getters -> {"none", "live", "freed"}]
      /\ \A h \in Getters : h # n => wrefs'[h] = wrefs[h] /\ wmem'[h] = wmem[h]
      /\ wrefs'[n] = k /\ wmem'[n] = m
  BY Zenon, <1>a, <1>2, <1>3 DEF TypeOK
<1>5. m # "none" /\ wmem[n] # "none" /\ (k > 0 => m = "live") /\ (k = 0 => m = "freed")
  BY <1>2, <1>3
<1> QED BY Zenon, <1>1, <1>4, <1>5

(* The hook of a freed node: its getter has unregistered by now.            *)
LEMMA NodeFreeInv ==
  ASSUME TokenKept, IInv, NEW t \in Threads, NodeFree(t)
  PROVE  IInv'
<1>a. ThreadInv!(t) /\ C!IInv /\ C!KeptInv /\ TypeOK /\ t \in Procs
  BY Zenon, Names DEF IInv, ThreadInv, Threads
<1>b. /\ UNCHANGED stackVars /\ UNCHANGED <<taken, wakes, gpc, wpc, rolledBack, got>>
      /\ pc[t] = "free_node" /\ Unref(cb[t]) /\ C!NodeFree(t)
  BY Zenon DEF NodeFree, C!NodeFree
<1>c. /\ pc \in [Threads -> C!PCs] /\ mem \in [Getters -> {"unused", "live", "freed"}]
  BY Zenon, <1>a, TokenTypes
<1>d. C!Next
  BY Zenon, <1>b DEF C!Next, C!Step, Threads
<1>e. /\ pc[t] \in AtNode \ {"drop_token"} /\ pc[t] \in AtNode /\ pc[t] \in Registering \cup {"free_node"}
      /\ pc[t] \notin Registering /\ pc[t] \notin {"in_callback", "in_inline"}
      /\ "drop_token" \notin Registering /\ "drop_token" \notin {"in_callback", "in_inline"}
  BY <1>b DEF AtNode, Registering
<1>1. PICK n \in Getters : n = cb[t] /\ mem[n] = "live" /\ n \notin handles
  BY Zenon, <1>a, <1>e, TokenFacts
<1>2. /\ UNCHANGED <<handles, isCancelled, cb>> /\ pc'[t] = "drop_token" /\ mem'[n] = "freed"
      /\ \A u \in Threads : u # t => pc'[u] = pc[u]
      /\ \A h \in Getters : h # n => mem'[h] = mem[h]
  BY Zenon, <1>b, <1>c, <1>1 DEF C!NodeFree, C!tokenVars
<1>3. GetterInv!(n) /\ RefInv!(n) /\ ClaimInv!1!(n) /\ AnswerIsTrue!(n) /\ ThreadInv!(n) /\ n \in Threads
  BY Zenon, Here
<1>4. pc[n] \notin Registering
  <2>1. SUFFICES ASSUME pc[n] \in Registering PROVE FALSE
    OBVIOUS
  <2>2. cb[n] = n /\ pc[n] \in AtNode
    BY Zenon, <1>3, <2>1 DEF Registering, AtNode
  <2>3. n = t
    BY Zenon, <1>a, <1>e, <1>1, <1>3, <2>2, TokenFacts
  <2> QED BY Zenon, <1>e, <2>1, <2>3
<1>5. /\ gpc[n] # "wait" /\ gpc[n] # "unregister" /\ gpc[n] \notin Early \cup {"retain", "register"}
      /\ n \notin rolledBack /\ gpc[n] \notin RollingBack /\ wmem[n] # "none"
  <2>1. mem[n] # "unused"
    BY <1>1
  <2> QED BY Zenon, <1>1, <1>3, <1>4, <2>1
<1>6. gpc[n] \notin {"register"} \cup RollingBack
  BY Zenon, <1>5
<1>7. Callbacks(n) = 1 /\ Callbacks(n)' = 0 /\ Own(n)' = Own(n) /\ Stacked(n)' = Stacked(n)
      /\ (Queued(n)' <=> Queued(n))
  <2>1. mem'[n] # "live"
    BY <1>2
  <2> QED BY ZenonT(30), <1>b, <1>1, <1>6, <2>1 DEF Callbacks, Own, Stacked, Queued, stackVars
<1>8. wrefs[n] # 0
  BY <1>7, Counted
<1>9. /\ wrefs' \in [Getters -> 0..3] /\ wmem' \in [Getters -> {"none", "live", "freed"}]
      /\ \A h \in Getters : h # n => wrefs'[h] = wrefs[h] /\ wmem'[h] = wmem[h]
      /\ wrefs'[n] = wrefs[n] - 1 /\ wmem'[n] # "none"
      /\ wrefs'[n] > 0 => wmem'[n] = "live"
      /\ wrefs'[n] = 0 => wmem'[n] = "freed"
  BY Zenon, <1>b, <1>1, <1>8, UnrefStep
<1>10. UNCHANGED <<ready, closed, stack, drain, futureReleased>>
  BY Zenon, <1>b DEF stackVars
<1>11. ASSUME NEW h \in Getters, h # n PROVE GetterOK(h)'
  <2>1. Same(h) /\ Onward
    BY Zenon, <1>b, <1>2, <1>9, <1>10, <1>11 DEF Same, Onward, Queued
  <2>2. pc[h] \in Registering => pc'[h] \in Registering
    BY Zenon, <1>e, <1>2 DEF Threads
  <2> QED BY Zenon, <2>1, <2>2, SameGetter
<1>12. GetterOK(n)'
  <2>1. GetterInv!(n)'
    BY Zenon, <1>b, <1>1, <1>2, <1>3, <1>5, <1>7, <1>9, <1>10
  <2>2. RefInv!(n)'
    <3>1. wrefs'[n] = Own(n)' + Callbacks(n)' + Stacked(n)'
      BY <1>7, <1>9, Counted
    <3>2. "freed" # "live"
      OBVIOUS
    <3> QED BY ZenonT(30), <1>9, <3>1, <3>2
  <2>3. ClaimInv!1!(n)'
    BY Zenon, <1>b, <1>2, <1>3, <1>5, <1>9, <1>10
  <2>4. AnswerIsTrue!(n)'
    BY Zenon, <1>b, <1>2, <1>3, <1>10
  <2> QED BY Zenon, <2>1, <2>2, <2>3, <2>4 DEF GetterOK
<1>13. (ClaimInv!2)' /\ (ClaimInv!3)'
  <2>1. \A p : Target(p)' = Target(p)
    BY Zenon, <1>2, <1>10 DEF Target
  <2> QED BY Zenon, <1>b, <2>1, SameWakers
<1>14. ThreadInv!(t)'
  BY Zenon, <1>a, <1>b, <1>e, <1>2
<1>15. /\ taken' \subseteq Getters /\ wpc' \in [Procs -> {"none", "wake", "leave"}]
       /\ wakes' \in [Getters -> Nat] /\ \A h \in Getters : GetterOK(h)'
       /\ \A u \in Threads : u # t => pc'[u] = pc[u] /\ cb'[u] = cb[u] /\ wpc'[u] = wpc[u]
  BY Zenon, <1>a, <1>b, <1>2, <1>11, <1>12 DEF TypeOK
<1> QED BY Zenon, <1>b, <1>d, <1>9, <1>13, <1>14, <1>15, TokenMoves

-----------------------------------------------------------------------------
(* Steps that do not touch the token.                                       *)
LEMMA ThreadsRest ==
  ASSUME IInv, UNCHANGED tokenVars, gpc' = gpc,
         \A t \in Threads : wpc'[t] = "none" <=> wpc[t] = "none"
  PROVE  ThreadInv'
<1>1. ThreadInv /\ pc' = pc /\ cb' = cb
  BY Zenon DEF IInv, tokenVars
<1>2. ASSUME NEW t \in Threads PROVE ThreadInv!(t)'
  BY Zenon, <1>1, <1>2 DEF ThreadInv, Threads
<1> QED BY Zenon, <1>2 DEF ThreadInv, Threads

(* The wake-up, by the completer or by a callback.                          *)
LEMMA WakeInv ==
  ASSUME TokenKept, IInv, NEW p \in Procs, NEW n \in Getters, n = Target(p), Wake(p, n)
  PROVE  IInv'
<1>a. TypeOK /\ StackInv /\ (ClaimInv!2) /\ (ClaimInv!3) /\ Completer \in Procs
  BY Zenon, Names DEF IInv, ClaimInv
<1>b. /\ wpc[p] = "wake" /\ wakes' = [wakes EXCEPT ![n] = @ + 1] /\ wpc' = [wpc EXCEPT ![p] = "leave"]
      /\ UNCHANGED tokenVars /\ UNCHANGED stackVars
      /\ UNCHANGED <<wrefs, wmem, taken, gpc, rolledBack, got>>
  BY Zenon DEF Wake
<1>c. /\ UNCHANGED <<ready, closed, stack, drain, futureReleased>>
      /\ UNCHANGED <<isCancelled, mem, handles, pc, cb>>
  BY Zenon, <1>b DEF stackVars, tokenVars
<1>1. n \in taken /\ wakes[n] = 0
  BY Zenon, <1>a, <1>b
<1>2. wakes'[n] = 1 /\ wakes' \in [Getters -> Nat] /\ \A h \in Getters : h # n => wakes'[h] = wakes[h]
  <2>1. 0 + 1 = 1 /\ 1 \in Nat
    OBVIOUS
  <2>2. wakes' = [wakes EXCEPT ![n] = 1]
    BY Zenon, <1>b, <1>1, <2>1
  <2> QED BY Zenon, <1>a, <2>1, <2>2 DEF TypeOK
<1>3. /\ wpc' \in [Procs -> {"none", "wake", "leave"}] /\ wpc'[p] = "leave"
      /\ \A q \in Procs : q # p => wpc'[q] = wpc[q]
  BY Zenon, <1>a, <1>b DEF TypeOK
<1>4. /\ "leave" # "wake" /\ "leave" # "none" /\ "wake" # "none"
  OBVIOUS
<1>5. C!TypeOK' => TypeOK'
  BY Zenon, <1>a, <1>b, <1>c, <1>2, <1>3 DEF TypeOK
<1>6. StackInv'
  <2>1. wpc'[Completer] # "none" => wpc[Completer] # "none"
    BY Zenon, <1>a, <1>b, <1>3, <1>4
  <2> QED BY Zenon, <1>a, <1>b, <1>c, <2>1 DEF StackInv
<1>7. ThreadInv'
  <2>1. \A t \in Threads : wpc'[t] = "none" <=> wpc[t] = "none"
    BY Zenon, <1>b, <1>3, <1>4, Names
  <2> QED BY Zenon, <1>b, <2>1, ThreadsRest
<1>8. ASSUME NEW h \in Getters, h # n PROVE GetterOK(h)'
  <2>1. Same(h) /\ Onward
    BY Zenon, <1>b, <1>c, <1>2, <1>8 DEF Same, Onward, Queued
  <2> QED BY Zenon, <1>c, <2>1, SameGetter
<1>9. GetterOK(n)'
  <2>1. GetterInv!(n) /\ RefInv!(n) /\ ClaimInv!1!(n) /\ AnswerIsTrue!(n)
    BY Zenon, Here
  <2>2. Queued(n)' <=> Queued(n)
    BY Zenon, <1>c DEF Queued
  <2>3. GetterInv!(n)'
    BY Zenon, <1>b, <1>c, <2>1, <2>2
  <2>4. RefInv!(n)'
    <3>1. Own(n)' = Own(n) /\ Callbacks(n)' = Callbacks(n) /\ Stacked(n)' = Stacked(n)
      BY Zenon, <1>b, <1>c, <2>2 DEF Own, Callbacks, Stacked
    <3> QED BY Zenon, <1>b, <1>c, <2>1, <3>1
  <2>5. ClaimInv!1!(n)' /\ AnswerIsTrue!(n)'
    BY Zenon, <1>b, <1>c, <1>1, <1>2, <2>1
  <2> QED BY Zenon, <2>3, <2>4, <2>5 DEF GetterOK
<1>10. (ClaimInv!2)' /\ (ClaimInv!3)'
  <2>1. ASSUME NEW q \in Procs, wpc'[q] = "wake"
        PROVE  wpc[q] = "wake" /\ Target(q)' = Target(q) /\ wakes'[Target(q)] = wakes[Target(q)]
    <3>1. q # p /\ wpc[q] = "wake"
      BY Zenon, <1>3, <1>4, <2>1
    <3>2. Target(q) # n
      BY Zenon, <1>a, <1>b, <3>1
    <3>3. Target(q)' = Target(q)
      BY Zenon, <1>c DEF Target
    <3>4. wakes'[Target(q)] = wakes[Target(q)]
      <4>1. \A h : h # n => wakes'[h] = wakes[h] \/ h \notin Getters
        BY Zenon, <1>2
      <4>2. Target(q) \in Getters
        <5>1. Target(q) \in taken
          BY Zenon, <1>a, <3>1
        <5> QED BY Zenon, <1>a, <5>1 DEF TypeOK
      <4> QED BY Zenon, <3>2, <4>1, <4>2
    <3> QED BY Zenon, <3>1, <3>3, <3>4
  <2> QED BY Zenon, <1>b, <2>1, SameWakers
<1>11. \A h \in Getters : GetterOK(h)'
  BY Zenon, <1>8, <1>9
<1> QED BY Zenon, <1>b, <1>5, <1>6, <1>7, <1>10, <1>11, StepInv

(* The completer claims the first waiter it has stolen.                     *)
LEMMA DrainClaimInv ==
  ASSUME TokenKept, IInv, DrainClaim
  PROVE  IInv'
<1>a. TypeOK /\ StackInv /\ Completer \in Procs
  BY Zenon, Names DEF IInv
<1>b. /\ drain # <<>> /\ wpc[Completer] = "none" /\ Claim(Completer, Head(drain))
      /\ UNCHANGED tokenVars /\ UNCHANGED stackVars
      /\ UNCHANGED <<wrefs, wmem, wakes, gpc, rolledBack, got>>
  BY Zenon DEF DrainClaim
<1>c. /\ UNCHANGED <<ready, closed, stack, drain, futureReleased>>
      /\ UNCHANGED <<isCancelled, mem, handles, pc, cb>>
  BY Zenon, <1>b DEF stackVars, tokenVars
<1>1. PICK n \in Getters : n = Head(drain) /\ Queued(n)
  <2>1. PICK d \in Seq(Getters) : d = drain /\ d # <<>>
    BY Zenon, <1>a, <1>b DEF TypeOK
  <2>2. Head(d) \in Getters /\ Head(d) \in Range(d)
    BY <2>1 DEF Range
  <2> QED BY Zenon, <2>1, <2>2 DEF Queued
<1>2. wmem[n] # "none" /\ ready
  <2>1. wmem[n] # "none"
    BY Zenon, <1>1, Here
  <2> QED BY Zenon, <1>a, <1>b, <2>1 DEF StackInv
<1>3. Claim(Completer, n) /\ Target(Completer)' = n /\ \A q : Target(q)' = Target(q)
  BY Zenon, <1>b, <1>c, <1>1 DEF Target
<1>4. /\ (ClaimInv!2)' /\ (ClaimInv!3)'
      /\ wpc' \in [Procs -> {"none", "wake", "leave"}] /\ wpc'[Completer] # "none"
      /\ \A q \in Procs : q # Completer => wpc'[q] = wpc[q]
      /\ taken' \subseteq Getters /\ \A h : h \in taken' <=> h \in taken \/ h = n
  BY Zenon, <1>a, <1>b, <1>3, ClaimStep
<1>5. \A h \in Getters : GetterOK(h)'
  BY Zenon, <1>b, <1>c, <1>2, <1>4, ClaimedGetter
<1>6. C!TypeOK' => TypeOK'
  BY Zenon, <1>a, <1>b, <1>c, <1>4 DEF TypeOK
<1>7. StackInv'
  BY Zenon, <1>a, <1>b, <1>c DEF StackInv
<1>8. ThreadInv'
  <2>1. \A t \in Threads : wpc'[t] = "none" <=> wpc[t] = "none"
    BY Zenon, <1>4, Names
  <2> QED BY Zenon, <1>b, <2>1, ThreadsRest
<1> QED BY Zenon, <1>b, <1>4, <1>5, <1>6, <1>7, <1>8, StepInv

(* ... and drops the stack's reference on it.                               *)
LEMMA DrainUnrefInv ==
  ASSUME TokenKept, IInv, DrainUnref
  PROVE  IInv'
<1>a. TypeOK /\ StackInv /\ Completer \in Procs
  BY Zenon, Names DEF IInv
<1>b. /\ wpc[Completer] = "leave" /\ Unref(Head(drain)) /\ drain' = Tail(drain)
      /\ wpc' = [wpc EXCEPT ![Completer] = "none"] /\ UNCHANGED tokenVars
      /\ UNCHANGED <<ready, closed, stack, futureReleased, taken, wakes, gpc, rolledBack, got>>
  BY Zenon DEF DrainUnref
<1>c. UNCHANGED <<isCancelled, mem, handles, pc, cb>>
  BY Zenon, <1>b DEF tokenVars
<1>d. drain # <<>> /\ closed /\ stack = <<>> /\ ready /\ ~futureReleased
  <2>1. "leave" # "none"
    OBVIOUS
  <2> QED BY Zenon, <1>a, <1>b, <2>1 DEF StackInv
<1>1. PICK n \in Getters :
        /\ n = Head(drain) /\ n \in Range(drain) /\ drain' \in Seq(Getters) /\ IsInjective(drain')
        /\ \A x : x \in Range(drain') <=> x \in Range(drain) /\ x # n
  <2>1. PICK d \in Seq(Getters) : d = drain /\ d # <<>> /\ IsInjective(d)
    BY Zenon, <1>a, <1>d DEF TypeOK, StackInv
  <2>2. Head(d) \in Getters /\ Head(d) \in Range(d)
    BY <2>1 DEF Range
  <2>3. Tail(d) \in Seq(Getters) /\ IsInjective(Tail(d))
    BY Zenon, <2>1, TailElements
  <2>4. \A x : x \in Range(Tail(d)) <=> x \in Range(d) /\ x # Head(d)
    BY Zenon, <2>1, TailMembers
  <2>5. PICK e : e = Tail(d) /\ e = drain'
    BY Zenon, <1>b, <2>1
  <2> QED BY Zenon, <2>1, <2>2, <2>3, <2>4, <2>5
<1>2. \A x : x \notin Range(stack)
  <2>1. Range(<<>>) = {}
    BY DEF Range
  <2> QED BY Zenon, <1>d, <2>1
<1>3. Queued(n) /\ ~Queued(n)' /\ \A h \in Getters : h # n => (Queued(h)' <=> Queued(h))
  BY Zenon, <1>b, <1>1, <1>2 DEF Queued
<1>4. Stacked(n) = 1 /\ Stacked(n)' = 0 /\ Own(n)' = Own(n) /\ Callbacks(n)' = Callbacks(n)
  BY Zenon, <1>b, <1>c, <1>3 DEF Stacked, Own, Callbacks
<1>5. wrefs[n] # 0
  BY <1>4, Counted
<1>6. /\ wrefs' \in [Getters -> 0..3] /\ wmem' \in [Getters -> {"none", "live", "freed"}]
      /\ \A h \in Getters : h # n => wrefs'[h] = wrefs[h] /\ wmem'[h] = wmem[h]
      /\ wrefs'[n] = wrefs[n] - 1 /\ wmem'[n] # "none" /\ wmem[n] # "none"
      /\ wrefs'[n] > 0 => wmem'[n] = "live"
      /\ wrefs'[n] = 0 => wmem'[n] = "freed"
  BY Zenon, <1>b, <1>1, <1>5, UnrefStep
<1>7. /\ wpc' \in [Procs -> {"none", "wake", "leave"}] /\ wpc'[Completer] = "none"
      /\ \A q \in Procs : q # Completer => wpc'[q] = wpc[q]
  BY Zenon, <1>a, <1>b DEF TypeOK
<1>8. C!TypeOK' => TypeOK'
  BY Zenon, <1>a, <1>b, <1>1, <1>6, <1>7 DEF TypeOK
<1>9. StackInv'
  <2>1. IsInjective(stack') /\ Range(stack') \cap Range(drain') = {}
    BY Zenon, <1>a, <1>b, <1>2 DEF StackInv
  <2> QED BY Zenon, <1>b, <1>d, <1>1, <1>7, <2>1 DEF StackInv
<1>10. ThreadInv'
  <2>1. \A t \in Threads : wpc'[t] = "none" <=> wpc[t] = "none"
    BY Zenon, <1>7, Names
  <2> QED BY Zenon, <1>b, <2>1, ThreadsRest
<1>11. ASSUME NEW h \in Getters, h # n PROVE GetterOK(h)'
  <2>1. Same(h) /\ Onward
    BY Zenon, <1>b, <1>c, <1>3, <1>6, <1>11 DEF Same, Onward
  <2> QED BY Zenon, <1>c, <2>1, SameGetter
<1>12. GetterOK(n)'
  <2>1. GetterInv!(n) /\ RefInv!(n) /\ ClaimInv!1!(n) /\ AnswerIsTrue!(n)
    BY Zenon, Here
  <2>2. GetterInv!(n)'
    BY Zenon, <1>b, <1>c, <1>d, <1>6, <2>1
  <2>3. RefInv!(n)'
    <3>1. wrefs'[n] = Own(n)' + Callbacks(n)' + Stacked(n)'
      BY <1>4, <1>6, Counted
    <3>2. "freed" # "live"
      OBVIOUS
    <3> QED BY Zenon, <1>6, <3>1, <3>2
  <2>4. ClaimInv!1!(n)' /\ AnswerIsTrue!(n)'
    BY Zenon, <1>b, <1>c, <1>6, <2>1
  <2> QED BY Zenon, <2>2, <2>3, <2>4 DEF GetterOK
<1>13. (ClaimInv!2)' /\ (ClaimInv!3)'
  <2>1. ASSUME NEW q \in Procs, wpc'[q] = "wake"
        PROVE  wpc[q] = "wake" /\ Target(q)' = Target(q)
    <3>1. q # Completer
      BY <1>7, <2>1
    <3> QED BY Zenon, <1>c, <1>7, <2>1, <3>1 DEF Target
  <2> QED BY Zenon, <1>b, <2>1, SameWakers
<1>14. \A h \in Getters : GetterOK(h)'
  BY Zenon, <1>11, <1>12
<1> QED BY Zenon, <1>b, <1>8, <1>9, <1>10, <1>13, <1>14, StepInv

(* The result is published, and the open stack stolen.                      *)
LEMMA StealInv ==
  ASSUME TokenKept, IInv, Complete \/ Steal
  PROVE  IInv'
<1>a. TypeOK /\ StackInv /\ Completer \in Procs
  BY Zenon, Names DEF IInv
<1>b. UNCHANGED tokenVars /\ UNCHANGED waiterVars /\ UNCHANGED <<gpc, wpc, rolledBack, got, futureReleased>>
  BY Zenon DEF Complete, Steal
<1>c. UNCHANGED <<isCancelled, mem, handles, pc, cb, wrefs, wmem, taken, wakes>>
  BY Zenon, <1>b DEF tokenVars, waiterVars
<1>1. Range(<<>>) = {} /\ <<>> \in Seq(Getters)
  BY DEF Range
<1>2. /\ Onward /\ (C!TypeOK' => TypeOK') /\ StackInv'
      /\ \A h : Queued(h)' <=> Queued(h)
      /\ \A p \in Procs : wpc[p] = "wake" => Target(p)' = Target(p)
  <2>1. CASE Complete
    <3>1. ready' = TRUE /\ UNCHANGED <<closed, stack, drain>> /\ ~futureReleased
      BY Zenon, <2>1 DEF Complete
    <3>2. C!TypeOK' => TypeOK'
      BY Zenon, <1>a, <1>b, <1>c, <3>1 DEF TypeOK
    <3>3. StackInv'
      BY Zenon, <1>a, <1>b, <3>1 DEF StackInv
    <3>4. Onward /\ (\A h : Queued(h)' <=> Queued(h)) /\ \A p : Target(p)' = Target(p)
      BY Zenon, <1>b, <1>c, <3>1 DEF Onward, Queued, Target
    <3> QED BY Zenon, <3>2, <3>3, <3>4
  <2>2. CASE Steal
    <3>1. ready /\ ready' = ready /\ ~closed /\ closed' = TRUE /\ drain' = stack /\ stack' = <<>>
      BY Zenon, <2>2 DEF Steal
    <3>2. drain = <<>> /\ wpc[Completer] = "none" /\ ~futureReleased
      BY Zenon, <1>a, <3>1 DEF StackInv
    <3>3. C!TypeOK' => TypeOK'
      BY Zenon, <1>a, <1>b, <1>c, <1>1, <3>1 DEF TypeOK
    <3>4. StackInv'
      <4>1. IsInjective(<<>>)
        BY Zenon, <1>a, <3>2 DEF StackInv
      <4>2. IsInjective(stack') /\ IsInjective(drain') /\ Range(stack') \cap Range(drain') = {}
        BY Zenon, <1>a, <1>1, <3>1, <4>1 DEF StackInv
      <4> QED BY Zenon, <1>b, <3>1, <3>2, <4>2 DEF StackInv
    <3>5. Onward /\ (\A h : Queued(h)' <=> Queued(h))
      BY Zenon, <1>b, <1>c, <1>1, <3>1, <3>2 DEF Onward, Queued
    <3>6. ASSUME NEW p \in Procs, wpc[p] = "wake" PROVE Target(p)' = Target(p)
      <4>1. p # Completer
        BY <3>2, <3>6
      <4> QED BY Zenon, <1>c, <4>1 DEF Target
    <3> QED BY Zenon, <3>3, <3>4, <3>5, <3>6
  <2> QED BY Zenon, <2>1, <2>2
<1>3. ASSUME NEW h \in Getters PROVE GetterOK(h)'
  <2>1. Same(h)
    BY Zenon, <1>b, <1>c, <1>2 DEF Same
  <2> QED BY Zenon, <1>c, <1>2, <2>1, SameGetter
<1>4. (ClaimInv!2)' /\ (ClaimInv!3)'
  BY Zenon, <1>b, <1>c, <1>2, SameWakers
<1>5. ThreadInv'
  BY Zenon, <1>b, ThreadsRest
<1> QED BY Zenon, <1>b, <1>2, <1>3, <1>4, <1>5, StepInv

(* The end of the future, with what was never drained.                      *)
LEMMA ReleaseFutureInv ==
  ASSUME TokenKept, IInv, ReleaseFuture
  PROVE  IInv'
<1>a. TypeOK /\ StackInv /\ Completer \in Procs
  BY Zenon, Names DEF IInv
<1>b. /\ ready = closed /\ drain = <<>> /\ \A g \in Getters : gpc[g] \in {"idle", "done"}
      /\ futureReleased' = TRUE /\ stack' = <<>>
      /\ wrefs' = [g \in Getters |-> IF g \in Range(stack) THEN wrefs[g] - 1 ELSE wrefs[g]]
      /\ wmem' = [g \in Getters |-> IF g \in Range(stack) /\ wrefs[g] = 1 THEN "freed" ELSE wmem[g]]
      /\ UNCHANGED tokenVars
      /\ UNCHANGED <<ready, closed, drain, taken, wakes, gpc, wpc, rolledBack, got>>
  BY Zenon DEF ReleaseFuture
<1>c. UNCHANGED <<isCancelled, mem, handles, pc, cb>>
  BY Zenon, <1>b DEF tokenVars
<1>1. Range(<<>>) = {} /\ <<>> \in Seq(Getters) /\ IsInjective(<<>>)
  <2>1. Range(<<>>) = {} /\ <<>> \in Seq(Getters)
    BY DEF Range
  <2>2. IsInjective(<<>>)
    BY Zenon, <1>a, <1>b DEF StackInv
  <2> QED BY Zenon, <2>1, <2>2
<1>2. ASSUME NEW h \in Getters
      PROVE  /\ (Queued(h) <=> h \in Range(stack)) /\ ~Queued(h)' /\ Stacked(h)' = 0
             /\ Own(h)' = Own(h) /\ Callbacks(h)' = Callbacks(h)
  BY Zenon, <1>b, <1>c, <1>1 DEF Queued, Stacked, Own, Callbacks
<1>3. ASSUME NEW h \in Getters
      PROVE  /\ wrefs'[h] = Own(h) + Callbacks(h) /\ wrefs'[h] \in 0..3
             /\ wmem'[h] \in {"none", "live", "freed"} /\ (wmem'[h] = "none" <=> wmem[h] = "none")
             /\ wrefs'[h] > 0 => wmem'[h] = "live"
             /\ wmem'[h] = "live" /\ wrefs'[h] = 0 => h \in rolledBack /\ ready
  <2>a. RefInv!(h) /\ wmem[h] \in {"none", "live", "freed"}
    BY Zenon, Here, Unmoved
  <2>b. /\ Own(h) \in {0, 1} /\ Callbacks(h) \in {0, 1} /\ Stacked(h) \in {0, 1}
        /\ wrefs[h] = Own(h) + Callbacks(h) + Stacked(h) /\ wrefs[h] \in 0..3
    BY Zenon, Counted
  <2>1. CASE h \in Range(stack)
    <3>1. Stacked(h) = 1
      BY Zenon, <1>2, <2>1 DEF Stacked
    <3>2. PICK k : k = wrefs[h] - 1 /\ k = Own(h) + Callbacks(h) /\ k \in 0..3 /\ wrefs[h] > 0
                   /\ (wrefs[h] = 1 <=> k = 0) /\ (k > 0 => k # 0)
      BY <2>b, <3>1
    <3>3. wrefs'[h] = k /\ wmem'[h] = IF k = 0 THEN "freed" ELSE wmem[h]
      BY Zenon, <1>b, <2>1, <3>2
    <3>4. wmem[h] = "live"
      BY Zenon, <2>a, <3>2
    <3>5. /\ wmem'[h] \in {"none", "live", "freed"} /\ wmem'[h] # "none" /\ wmem[h] # "none"
          /\ (k # 0 => wmem'[h] = "live") /\ (wmem'[h] = "live" => k # 0)
      BY <3>3, <3>4
    <3> QED BY Zenon, <3>2, <3>3, <3>5
  <2>2. CASE h \notin Range(stack)
    <3>1. Stacked(h) = 0
      BY Zenon, <1>2, <2>2 DEF Stacked
    <3>2. wrefs[h] = Own(h) + Callbacks(h)
      BY <2>b, <3>1
    <3>3. wrefs'[h] = wrefs[h] /\ wmem'[h] = wmem[h]
      BY Zenon, <1>b, <2>2
    <3> QED BY Zenon, <2>a, <2>b, <3>2, <3>3
  <2> QED BY Zenon, <2>1, <2>2
<1>4. wrefs' \in [Getters -> 0..3] /\ wmem' \in [Getters -> {"none", "live", "freed"}]
  <2>1. /\ wrefs' = [g \in Getters |-> wrefs'[g]] /\ wmem' = [g \in Getters |-> wmem'[g]]
    BY Zenon, <1>b
  <2> QED BY Zenon, <1>3, <2>1
<1>5. C!TypeOK' => TypeOK'
  BY Zenon, <1>a, <1>b, <1>1, <1>4 DEF TypeOK
<1>6. StackInv'
  <2>1. Range(stack') \cap Range(drain') = {} /\ IsInjective(stack') /\ IsInjective(drain')
    BY Zenon, <1>b, <1>1
  <2> QED BY Zenon, <1>a, <1>b, <2>1 DEF StackInv
<1>7. ThreadInv'
  BY Zenon, <1>b, ThreadsRest
<1>8. ASSUME NEW h \in Getters PROVE GetterOK(h)'
  <2>1. GetterInv!(h) /\ ClaimInv!1!(h) /\ AnswerIsTrue!(h)
    BY Zenon, Here
  <2>2. GetterInv!(h)'
    BY Zenon, <1>b, <1>c, <1>2, <1>3, <2>1
  <2>3. RefInv!(h)'
    <3>1. wrefs'[h] = Own(h)' + Callbacks(h)' + Stacked(h)'
      <4>1. Own(h) \in {0, 1} /\ Callbacks(h) \in {0, 1}
        BY Zenon, Counted
      <4> QED BY <1>2, <1>3, <4>1
    <3> QED BY Zenon, <1>b, <1>3, <3>1
  <2>4. ClaimInv!1!(h)' /\ AnswerIsTrue!(h)'
    BY Zenon, <1>b, <1>c, <1>3, <2>1
  <2> QED BY Zenon, <2>2, <2>3, <2>4 DEF GetterOK
<1>9. (ClaimInv!2)' /\ (ClaimInv!3)'
  <2>1. \A p : Target(p)' = Target(p)
    BY Zenon, <1>b, <1>c DEF Target
  <2> QED BY Zenon, <1>b, <2>1, SameWakers
<1> QED BY Zenon, <1>b, <1>5, <1>6, <1>7, <1>8, <1>9, StepInv

LEMMA StutterInv ==
  ASSUME TokenKept, IInv, UNCHANGED vars
  PROVE  IInv'
<1>a. TypeOK /\ StackInv
  BY Zenon DEF IInv
<1>b. /\ UNCHANGED tokenVars /\ UNCHANGED <<ready, closed, stack, drain, futureReleased>>
      /\ UNCHANGED <<wrefs, wmem, taken, wakes, gpc, wpc, rolledBack, got>>
  BY Zenon DEF vars, stackVars, waiterVars
<1>c. UNCHANGED <<isCancelled, mem, handles, pc, cb>>
  BY Zenon, <1>b DEF tokenVars
<1>1. C!TypeOK' => TypeOK'
  BY Zenon, <1>a, <1>b DEF TypeOK
<1>2. StackInv'
  BY Zenon, <1>a, <1>b DEF StackInv
<1>3. ThreadInv'
  BY Zenon, <1>b, ThreadsRest
<1>4. ASSUME NEW h \in Getters PROVE GetterOK(h)'
  <2>1. Same(h) /\ Onward
    BY Zenon, <1>b, <1>c DEF Same, Onward, Queued
  <2> QED BY Zenon, <1>c, <2>1, SameGetter
<1>5. (ClaimInv!2)' /\ (ClaimInv!3)'
  <2>1. \A p : Target(p)' = Target(p)
    BY Zenon, <1>b, <1>c DEF Target
  <2> QED BY Zenon, <1>b, <2>1, SameWakers
<1> QED BY Zenon, <1>b, <1>1, <1>2, <1>3, <1>4, <1>5, StepInv

-----------------------------------------------------------------------------
LEMMA InitRest ==
  ASSUME Init, C!IInv, C!KeptInv
  PROVE  IInv
<1>a. /\ ready = FALSE /\ closed = FALSE /\ stack = <<>> /\ drain = <<>> /\ futureReleased = FALSE
      /\ gpc = [g \in Getters |-> "idle"] /\ got = [g \in Getters |-> "none"]
      /\ wpc = [p \in Procs |-> "none"]
      /\ wrefs = [g \in Getters |-> 0] /\ wmem = [g \in Getters |-> "none"]
      /\ taken = {} /\ wakes = [g \in Getters |-> 0] /\ rolledBack = {}
      /\ mem = [n \in Getters |-> "unused"] /\ handles = {}
      /\ pc = [t \in Threads |-> "idle"]
  BY Zenon DEF Init, C!Init, Threads
<1>b. Range(<<>>) = {} /\ IsInjective(<<>>) /\ <<>> \in Seq(Getters)
  BY DEF Range, IsInjective
<1>c. /\ "idle" \in GetPCs /\ "idle" \in Early /\ "idle" \notin Registering
      /\ "idle" \notin RollingBack /\ "idle" \notin {"in_callback", "in_inline"}
      /\ "idle" \notin {"retain", "register", "wait", "unregister", "release", "roll_back"}
      /\ "idle" \notin {"register"} \cup RollingBack
      /\ "idle" \notin {"unregister", "release", "answer", "done", "wait"}
      /\ "none" \notin {"wake", "live", "result", "ECANCELED"} /\ "unused" # "live"
      /\ 0 \in 0..3 /\ 0 \in Nat /\ ~(0 > 0) /\ 0 # 1 /\ 0 = 0 + 0 + 0
  BY DEF GetPCs, Early, Registering, RollingBack
<1>2. TypeOK
  BY Zenon, <1>a, <1>b, <1>c DEF TypeOK, C!IInv
<1>3. StackInv
  <2>1. Completer \in Procs
    BY Zenon, Names
  <2> QED BY Zenon, <1>a, <1>b, <2>1 DEF StackInv
<1>4. ThreadInv
  <2>1. ASSUME NEW t \in Threads PROVE pc[t] = "idle" /\ wpc[t] = "none"
    BY Zenon, <1>a, Names
  <2> QED BY Zenon, <1>c, <2>1 DEF ThreadInv, Threads
<1>5. ASSUME NEW h \in Getters
      PROVE  /\ gpc[h] = "idle" /\ got[h] = "none" /\ wrefs[h] = 0 /\ wmem[h] = "none"
             /\ wakes[h] = 0 /\ mem[h] = "unused" /\ ~Queued(h)
  BY Zenon, <1>a, <1>b DEF Queued
<1>6. GetterInv
  BY Zenon, <1>a, <1>c, <1>5 DEF GetterInv
<1>7. RefInv
  <2>1. ASSUME NEW h \in Getters PROVE Own(h) = 0 /\ Callbacks(h) = 0 /\ Stacked(h) = 0
    BY Zenon, <1>c, <1>5 DEF Own, Callbacks, Stacked
  <2> QED BY Zenon, <1>c, <1>5, <2>1 DEF RefInv
<1>8. ClaimInv /\ AnswerIsTrue
  BY Zenon, <1>a, <1>c, <1>5 DEF ClaimInv, AnswerIsTrue
<1> QED BY Zenon, <1>2, <1>3, <1>4, <1>6, <1>7, <1>8 DEF IInv

LEMMA NextRest ==
  ASSUME TokenKept, IInv, [Next]_vars
  PROVE  IInv'
<1>1. ASSUME NEW g \in Getters, CheckToken(g) \/ GetStep(g) PROVE IInv'
  <2>1. CASE Push(g)
    BY Zenon, <2>1, EarlyInv, PushInv
  <2> QED BY Zenon, <1>1, <2>1, EarlyInv, RetainInv, RegisterInv, RegisterFailsInv, RollBackInv,
          WaitInv, UnregisterInv, ReleaseInv, AnswerInv DEF GetStep
<1>2. ASSUME NEW t \in Threads, TokenSide(t) PROVE IInv'
  <2>1. CASE Wake(t, cb[t])
    <3>1. wpc[t] # "none"
      BY <2>1 DEF Wake
    <3>2. ThreadInv!(t) /\ C!IInv /\ C!KeptInv
      BY Zenon DEF IInv, ThreadInv, Threads
    <3>3. pc[t] \in AtNode
      BY Zenon, <3>1, <3>2 DEF AtNode
    <3>4. cb[t] \in Getters
      BY Zenon, <3>2, <3>3, TokenFacts
    <3>5. t \in Procs /\ Target(t) = cb[t]
      BY Zenon, Names DEF Target
    <3> QED BY Zenon, <2>1, <3>4, <3>5, WakeInv
  <2> QED BY Zenon, <1>2, <2>1, CallbackEnterInv, CallbackReturnInv, NodeFreeInv, TokenStepInv
          DEF TokenSide
<1>3. ASSUME Drain PROVE IInv'
  <2>1. CASE drain # <<>> /\ Wake(Completer, Head(drain))
    <3>1. PICK d \in Seq(Getters) : d = drain /\ d # <<>>
      BY Zenon, <2>1 DEF IInv, TypeOK
    <3>2. Head(d) \in Getters
      BY <3>1
    <3>3. Completer \in Procs /\ Target(Completer) = Head(drain)
      BY Zenon, Names DEF Target
    <3> QED BY ZenonT(30), <2>1, <3>1, <3>2, <3>3, WakeInv
  <2> QED BY Zenon, <1>3, <2>1, StealInv, DrainClaimInv, DrainUnrefInv DEF Drain
<1>4. CASE UNCHANGED vars
  BY Zenon, <1>4, StutterInv
<1> QED BY Zenon, <1>1, <1>2, <1>3, <1>4, StealInv, CancelInv, ReleaseFutureInv
        DEF Next, Finished, Threads

LEMMA WakesOnce == IInv => WakesWaiting
<1> SUFFICES ASSUME IInv PROVE WakesWaiting
  OBVIOUS
<1>1. ASSUME NEW g \in Getters PROVE wakes[g] <= 1
  <2>1. wakes[g] \in {0, 1}
    BY Zenon, Here
  <2> QED BY <2>1
<1>2. ASSUME NEW p \in Procs, wpc[p] = "wake", Target(p) \notin rolledBack
      PROVE  /\ gpc[Target(p)] \in {"retain", "register", "wait"}
             /\ wmem[Target(p)] = "live" /\ wakes[Target(p)] = 0
  <2>1. Target(p) \in taken /\ wakes[Target(p)] = 0 /\ taken \subseteq Getters
    BY Zenon, <1>2 DEF IInv, ClaimInv, TypeOK
  <2>2. PICK n \in Getters : n = Target(p) /\ n \in taken /\ wakes[n] = 0 /\ n \notin rolledBack
    BY Zenon, <1>2, <2>1
  <2>3. GetterInv!(n) /\ RefInv!(n) /\ ClaimInv!1!(n) /\ gpc[n] \in GetPCs
    BY ZenonT(30), Here DEF TypeOK
  <2>4. wmem[n] # "none" /\ wakes[n] # 1
    <3>1. 0 # 1
      OBVIOUS
    <3> QED BY Zenon, <2>2, <2>3, <3>1
  <2>5. /\ gpc[n] \notin Early /\ gpc[n] \notin RollingBack
        /\ gpc[n] \notin {"unregister", "release", "answer"} /\ gpc[n] # "done"
    BY Zenon, <2>2, <2>3, <2>4
  <2>6. gpc[n] \in {"retain", "register", "wait"}
    BY <2>3, <2>5 DEF GetPCs, Early, RollingBack
  <2>7. wrefs[n] > 0
    <3>1. Own(n) = 1
      BY <2>6 DEF Own
    <3> QED BY <3>1, Counted
  <2> QED BY Zenon, <2>2, <2>3, <2>6, <2>7
<1> QED BY Zenon, <1>1, <1>2 DEF WakesWaiting

LEMMA FreedLast == IInv => WaiterFreedLast
<1> SUFFICES ASSUME IInv PROVE WaiterFreedLast
  OBVIOUS
<1>0. TypeOK /\ StackInv /\ C!IInv /\ C!KeptInv
  BY Zenon DEF IInv
<1>a. "freed" # "live" /\ "freed" # "none" /\ "live" # "none"
  OBVIOUS
<1>1. ASSUME NEW g \in Getters, wmem[g] = "freed"
      PROVE  /\ g \notin Range(stack) \cup Range(drain) /\ mem[g] # "live"
             /\ gpc[g] \in {"answer", "done"}
  <2>1. GetterInv!(g) /\ RefInv!(g) /\ gpc[g] \in GetPCs
    BY Zenon, Here DEF TypeOK
  <2>2. ~(wrefs[g] > 0)
    BY Zenon, <1>a, <1>1, <2>1
  <2>3. Own(g) = 0 /\ Callbacks(g) = 0 /\ Stacked(g) = 0
    BY <2>2, Counted
  <2>4. /\ gpc[g] \notin {"retain", "register", "wait", "unregister", "release", "roll_back"}
        /\ gpc[g] \notin {"register"} \cup RollingBack /\ mem[g] # "live" /\ ~Queued(g)
    BY <2>3 DEF Own, Callbacks, Stacked
  <2>5. gpc[g] \notin Early
    BY ZenonT(30), <1>a, <1>1, <2>1
  <2>6. gpc[g] \in {"answer", "done"}
    BY <2>1, <2>4, <2>5 DEF GetPCs, Early, RollingBack
  <2> QED BY Zenon, <2>4, <2>6 DEF Queued
<1>2. ASSUME futureReleased, \A t \in Threads : pc[t] = "idle", NEW g \in Getters
      PROVE  mem[g] # "live" /\ (wmem[g] = "live" => g \in rolledBack /\ ready)
  <2>1. GetterInv!(g) /\ RefInv!(g)
    BY Zenon, Here
  <2>2. gpc[g] \in {"idle", "done"} /\ stack = <<>> /\ drain = <<>>
    BY Zenon, <1>0, <1>2 DEF StackInv
  <2>3. /\ gpc[g] \notin {"wait", "unregister"} /\ gpc[g] \notin {"register"} \cup RollingBack
        /\ gpc[g] \notin {"retain", "register", "wait", "unregister", "release", "roll_back"}
    BY <2>2 DEF RollingBack
  <2>4. mem[g] # "live"
    BY Zenon, <1>0, <1>2, <2>1, <2>3, AtRest
  <2>5. ~Queued(g)
    <3>1. Range(<<>>) = {}
      BY DEF Range
    <3> QED BY Zenon, <2>2, <3>1 DEF Queued
  <2>6. Own(g) = 0 /\ Callbacks(g) = 0 /\ Stacked(g) = 0
    BY Zenon, <2>3, <2>4, <2>5 DEF Own, Callbacks, Stacked
  <2>7. wrefs[g] = 0
    BY <2>6, Counted
  <2> QED BY Zenon, <2>1, <2>4, <2>7
<1> QED BY Zenon, <1>0, <1>1, <1>2 DEF WaiterFreedLast, Threads

-----------------------------------------------------------------------------
(* The token is the one the theorems of CancellationProofs are about.       *)
P == INSTANCE CancellationProofs WITH
  Threads <- Getters \cup {Canceller}, Nodes <- Getters, HookNodes <- Getters, MaxRefs <- 1

LEMMA TokenAssumption == P!CancellationAssumption
  BY GetAssumption DEF P!CancellationAssumption

LEMMA SameInvariant == (C!IInv <=> P!IInv) /\ (C!KeptInv <=> P!KeptInv)
<1>1. C!TypeOK <=> P!TypeOK
  BY Zenon DEF C!TypeOK, C!PCs, P!TypeOK, P!PCs
<1>2. C!ThreadInv <=> P!ThreadInv
  BY Zenon DEF C!ThreadInv, C!NodePCs, C!Busy, C!Listed, C!Walker, C!Range, C!IsInjective,
     P!ThreadInv, P!NodePCs, P!Busy, P!Listed, P!Walker, P!Range, P!IsInjective
<1>3. C!PairInv <=> P!PairInv
  BY Zenon DEF C!PairInv, C!NodePCs, C!Busy, C!Walker, C!Range, P!PairInv, P!NodePCs,
     P!Busy, P!Walker, P!Range
<1>4. C!ListInv <=> P!ListInv
  BY Zenon DEF C!ListInv, C!Listed, C!Range, C!IsInjective, P!ListInv, P!Listed, P!Range,
     P!IsInjective
<1>5. C!PlaceInv <=> P!PlaceInv
  BY Zenon DEF C!PlaceInv, C!Listed, C!Pending, C!Settled, C!Handle, C!Range, P!PlaceInv,
     P!Listed, P!Pending, P!Settled, P!Handle, P!Range
<1>6. C!NodeInv <=> P!NodeInv
  BY Zenon DEF C!NodeInv, C!Listed, C!Pending, C!Settled, C!Range, P!NodeInv, P!Listed,
     P!Pending, P!Settled, P!Range
<1>7. C!TokenInv <=> P!TokenInv
  BY Zenon DEF C!TokenInv, C!NodeRefs, C!Holders, C!ExistsBijection, C!Bijection,
     C!Injection, C!Surjection, C!IsInjective, P!TokenInv, P!NodeRefs, P!Holders,
     P!ExistsBijection, P!Bijection, P!Injection, P!Surjection, P!IsInjective
<1>8. C!KeptInv <=> P!KeptInv
  BY Zenon DEF C!KeptInv, C!Kept, C!NodePCs, C!Range, P!KeptInv, P!Kept, P!NodePCs, P!Range
<1> QED BY Zenon, <1>1, <1>2, <1>3, <1>4, <1>5, <1>6, <1>7, <1>8 DEF C!IInv, P!IInv

LEMMA SameNext == (C!Next => P!Next) /\ (C!Init => P!Init)
<1>1. ASSUME NEW t PROVE C!Step(t) => P!Step(t)
  <2>1. C!RegisterLink(t) => P!RegisterLink(t)
    BY Zenon DEF C!RegisterLink, C!history, P!RegisterLink, P!history
  <2>2. C!RegisterLate(t) => P!RegisterLate(t)
    BY Zenon DEF C!RegisterLate, C!tokenVars, C!history, P!RegisterLate, P!tokenVars,
       P!history
  <2>3. C!InlineEnter(t) => P!InlineEnter(t)
    BY Zenon DEF C!InlineEnter, C!tokenVars, C!nodeVars, P!InlineEnter, P!tokenVars,
       P!nodeVars
  <2>4. C!InlineReturn(t) => P!InlineReturn(t)
    BY Zenon DEF C!InlineReturn, C!tokenVars, C!nodeVars, C!history, P!InlineReturn,
       P!tokenVars, P!nodeVars, P!history
  <2>5. C!CallbackEnter(t) => P!CallbackEnter(t)
    BY Zenon DEF C!CallbackEnter, C!tokenVars, C!nodeVars, P!CallbackEnter, P!tokenVars,
       P!nodeVars
  <2>6. C!CallbackReturn(t) => P!CallbackReturn(t)
    BY Zenon DEF C!CallbackReturn, C!AfterNode, C!tokenVars, C!history, P!CallbackReturn,
       P!AfterNode, P!tokenVars, P!history
  <2>7. C!NodeFree(t) => P!NodeFree(t)
    BY Zenon DEF C!NodeFree, C!HookRuns, C!tokenVars, P!NodeFree, P!HookRuns, P!tokenVars
  <2>8. C!TokenRelease(t) => P!TokenRelease(t)
    BY Zenon DEF C!TokenRelease, C!DropTokenRef, C!AfterNode, C!nodeVars, C!history,
       P!TokenRelease, P!DropTokenRef, P!AfterNode, P!nodeVars, P!history
  <2>9. C!TokenReclaim(t) => P!TokenReclaim(t)
    BY Zenon DEF C!TokenReclaim, C!HookRuns, C!AfterNode, C!Range, P!TokenReclaim,
       P!HookRuns, P!AfterNode, P!Range
  <2> QED BY Zenon, <2>1, <2>2, <2>3, <2>4, <2>5, <2>6, <2>7, <2>8, <2>9 DEF C!Step, P!Step
<1>2. ASSUME NEW t PROVE C!Call(t) => P!Call(t)
  <2>1. C!Cancel(t) => P!Cancel(t)
    BY Zenon DEF C!Cancel, C!history, C!Range, P!Cancel, P!history, P!Range
  <2>2. C!Destroy(t) => P!Destroy(t)
    BY Zenon DEF C!Destroy, C!DropTokenRef, C!AfterNode, C!nodeVars, C!history, P!Destroy,
       P!DropTokenRef, P!AfterNode, P!nodeVars, P!history
  <2>3. ASSUME NEW n PROVE C!RegisterAlloc(t, n) => P!RegisterAlloc(t, n)
    BY Zenon DEF C!RegisterAlloc, C!history, P!RegisterAlloc, P!history
  <2>4. ASSUME NEW n PROVE C!Unregister(t, n) => P!Unregister(t, n)
    BY Zenon DEF C!Unregister, C!Unlink, C!Withdrawn, C!RefsTaken, P!Unregister, P!Unlink,
       P!Withdrawn, P!RefsTaken
  <2> QED BY Zenon, <2>1, <2>2, <2>3, <2>4 DEF C!Call, P!Call
<1>3. C!RetainInternal => P!RetainInternal
  BY Zenon DEF C!RetainInternal, C!nodeVars, C!threadVars, C!history, P!RetainInternal,
     P!nodeVars, P!threadVars, P!history
<1>4. C!Finished => P!Finished
  BY Zenon DEF C!Finished, C!vars, C!tokenVars, C!nodeVars, C!threadVars, C!history,
     P!Finished, P!vars, P!tokenVars, P!nodeVars, P!threadVars, P!history
<1>5. C!Init => P!Init
  BY Zenon DEF C!Init, P!Init
<1> QED BY ZenonT(30), <1>1, <1>2, <1>3, <1>4, <1>5 DEF C!Next, P!Next

LEMMA TokenInv ==
  ASSUME C!IInv, C!KeptInv, C!Next \/ UNCHANGED tokenVars
  PROVE  C!IInv' /\ C!KeptInv'
<1>1. P!IInv /\ P!KeptInv
  BY Zenon, SameInvariant
<1>2. [P!Next]_(P!vars)
  <2>1. CASE C!Next
    BY Zenon, <2>1, SameNext
  <2>2. CASE UNCHANGED tokenVars
    BY ZenonT(30), <2>2 DEF tokenVars, P!vars, P!tokenVars, P!nodeVars, P!threadVars, P!history
  <2> QED BY Zenon, <2>1, <2>2
<1>3. P!IInv' /\ P!KeptInv'
  BY Zenon, <1>1, <1>2, TokenAssumption, P!NextInv, P!NextKept
<1>4. (C!IInv' <=> P!IInv') /\ (C!KeptInv' <=> P!KeptInv')
  BY SameInvariant, PTL
<1> QED BY Zenon, <1>3, <1>4

LEMMA InitInv == Init => IInv
<1> SUFFICES ASSUME Init PROVE IInv
  OBVIOUS
<1>1. P!Init
  BY ZenonT(30), SameNext DEF Init
<1>2. P!IInv /\ P!KeptInv
  BY ZenonT(30), <1>1, TokenAssumption, P!InitInv, P!InitKept
<1>3. C!IInv /\ C!KeptInv
  BY Zenon, <1>2, SameInvariant
<1> QED BY ZenonT(30), <1>3, InitRest

LEMMA NextInv == IInv /\ [Next]_vars => IInv'
<1>1. TokenKept
  BY Zenon, TokenInv DEF TokenKept
<1> QED BY ZenonT(30), <1>1, NextRest

(* Getter, completer and canceller keep the invariant, in any interleaving  *)
(* and for any set of getters.                                              *)
THEOREM Invariance == Spec => []IInv
  BY InitInv, NextInv, PTL DEF Spec

(* Completion and cancellation race for one waiter through                  *)
(* lockless_treiber_stack_claim: a getter is woken at most once, and only   *)
(* while it waits and its waiter lives, unless its registration failed.     *)
THEOREM WakesWaitingHolds == Spec => []WakesWaiting
  BY Invariance, WakesOnce, PTL

(* The three references of the waiter, the getter's, the stack's and the    *)
(* callback node's (released by sWaiterCancelRelease): none outlives it,    *)
(* and it outlives none of them, a roll-back that lost to the completer     *)
(* apart.                                                                   *)
THEOREM WaiterFreedLastHolds == Spec => []WaiterFreedLast
  BY Invariance, FreedLast, PTL

(* What UfsrvFutureGetWithCancellation returns is true: a result of a ready *)
(* future, ECANCELED for a cancelled token.                                 *)
THEOREM AnswerIsTrueHolds == Spec => []AnswerIsTrue
<1>1. IInv => AnswerIsTrue
  BY Zenon DEF IInv
<1> QED BY Invariance, <1>1, PTL
=============================================================================
