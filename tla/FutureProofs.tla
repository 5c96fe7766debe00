---------------------------- MODULE FutureProofs ----------------------------
(***************************************************************************)
(* Proofs about Future, for any sets of Set calls, continuations and       *)
(* getters.                                                                *)
(***************************************************************************)
EXTENDS MCFuture, Chains

(* The kinds of process are disjoint, and each has labels of its own.       *)
LEMMA Kinds ==
  /\ Completers \cap Nodes = {} /\ Conts \cap Getters = {}
  /\ Owner \notin Values \cup Nodes /\ Canceller \notin Values \cup Nodes
  /\ Owner # Canceller /\ Owner \notin Clients /\ "caller" \notin Procs
  /\ "none" \notin Procs
  /\ Procs = Completers \cup Nodes /\ Clients = Nodes \cup {Canceller}
  BY FutureAssumption DEF Completers, Nodes, Procs, Clients, Owner, Canceller

LEMMA Labels ==
  /\ \A v \in Values : PCs(v) = {"idle", "done", "claim"} \cup DrainPCs
  /\ PCs(Owner) = {"idle", "done", "claim", "release"} \cup DrainPCs
  /\ PCs(Canceller) = {"idle", "done", "claim", "release"} \cup DrainPCs
  /\ \A k \in Conts : PCs(k) = {"idle", "done", "check", "push", "unref", "release",
                                "discard"} \cup BodyPCs
  /\ \A g \in Getters : PCs(g) = {"idle", "done", "check", "push", "unref", "release",
                                  "wait", "read"}
<1>1. ASSUME NEW v \in Values PROVE PCs(v) = {"idle", "done", "claim"} \cup DrainPCs
  <2>1. v \in Completers /\ v \notin Conts /\ v \notin Getters
    BY FutureAssumption DEF Completers
  <2> QED BY <2>1 DEF PCs
<1>2. ASSUME NEW p \in {Owner, Canceller}
      PROVE  PCs(p) = {"idle", "done", "claim", "release"} \cup DrainPCs
  <2>1. p \in Completers /\ p \notin Conts /\ p \notin Getters /\ p \notin Values
    BY FutureAssumption DEF Completers
  <2> QED BY <2>1 DEF PCs
<1>3. ASSUME NEW k \in Conts
      PROVE  PCs(k) = {"idle", "done", "check", "push", "unref", "release", "discard"}
                        \cup BodyPCs
  <2>1. k \notin Completers /\ k \notin Getters /\ k \notin Values
    BY FutureAssumption DEF Completers
  <2> QED BY <2>1 DEF PCs
<1>4. ASSUME NEW g \in Getters
      PROVE  PCs(g) = {"idle", "done", "check", "push", "unref", "release", "wait", "read"}
  <2>1. g \notin Completers /\ g \notin Conts /\ g \notin Values
    BY FutureAssumption DEF Completers
  <2> QED BY <2>1 DEF PCs
<1> QED BY Zenon, <1>1, <1>2, <1>3, <1>4

(* UfsrvPromiseCreate establishes the invariant.                            *)
LEMMA InitInv == Init => IInv
<1> SUFFICES ASSUME Init PROVE IInv
  OBVIOUS
<1> USE DEF Init
<1>1. /\ Range(conts) = {} /\ Range(waiters) = {} /\ IsInjective(<<>>)
      /\ \A p \in Completers : chain[p] = <<>> /\ Range(chain[p]) = {}
  BY Zenon, EmptyElements
<1>2. Placed = {}
  BY <1>1 DEF Placed
<1>3. \A p \in Procs : pc[p] = "idle"
  BY Zenon
<1>4. TypeOK
  <2>1. \A p \in Procs : "idle" \in PCs(p)
    BY Zenon DEF PCs
  <2>2. /\ refs \in Nat /\ nodeRefs \in [Nodes -> 0..2] /\ signals \in [Getters -> 0..1]
        /\ ran \in [Conts -> Nat] /\ disposed \in [Values -> Nat]
    OBVIOUS
  <2>3. conts \in Seq(Conts) /\ waiters \in Seq(Getters) /\ <<>> \in Seq(Nodes)
    OBVIOUS
  <2>4. chain \in [Completers -> Seq(Nodes)]
    BY Zenon, <2>3
  <2>5. {fulfilled, completed, consumed, ready, contsClosed, waitersClosed, freed,
         aborted} \subseteq BOOLEAN /\ scheduler \in {"up", "stopped", "gone"}
        /\ inserted \subseteq Getters
    BY Zenon
  <2>6. /\ cur \in [Procs -> Conts \cup {"none"}] /\ DOMAIN pc = Procs
        /\ saw \in [Nodes -> Results \cup {Failed, "none"}]
    BY Zenon
  <2>7. /\ result \in Results /\ holders \subseteq Clients \cup {Owner, "caller"}
        /\ winner \in Completers \cup {"none"}
    BY Zenon DEF Results
  <2> QED BY Zenon, <1>3, <2>1, <2>2, <2>3, <2>4, <2>5, <2>6, <2>7 DEF TypeOK
<1>5. Owner \in Procs /\ Values \subseteq Procs /\ Nodes \subseteq Procs /\ Clients \subseteq Procs
      /\ Completers \subseteq Procs
  BY DEF Procs, Completers, Nodes, Clients
<1>6. RaceInv
  BY Zenon, <1>3, <1>5, Kinds DEF RaceInv, Before, DrainPCs, WakePCs, RunPCs, BodyPCs
<1>7. PromiseInv
  BY Zenon, <1>3, <1>5 DEF PromiseInv
<1>8. RefInv
  <2>1. ExistsBijection(1..2, {Owner, "caller"})
    <3>1. ExistsBijection(1..0, {}) /\ 0 \in Nat /\ 1 \in Nat /\ 0+1 = 1 /\ 1+1 = 2
      BY CountNone
    <3>2. ExistsBijection(1..(0+1), {} \cup {Owner})
      BY Zenon, <3>1, CountAdd
    <3>3. {} \cup {Owner} = {Owner} /\ "caller" \notin {Owner}
          /\ {Owner} \cup {"caller"} = {Owner, "caller"}
      BY DEF Owner
    <3>4. ExistsBijection(1..1, {Owner})
      BY Zenon, <3>1, <3>2, <3>3
    <3>5. ExistsBijection(1..(1+1), {Owner} \cup {"caller"})
      BY Zenon, <3>1, <3>3, <3>4, CountAdd
    <3> QED BY Zenon, <3>1, <3>3, <3>5
  <2>2. \A p \in Clients : p \notin {Owner, "caller"}
    BY Zenon, <1>5, Kinds
  <2> QED BY Zenon, <1>3, <1>5, <2>1, <2>2 DEF RefInv
<1>9. StackInv
  BY Zenon, <1>1 DEF StackInv
<1>10. ChainInv
  BY Zenon, <1>1, <1>3, <1>5 DEF ChainInv, WakePCs, RunPCs, BodyPCs
<1>11. NodeInv
  BY Zenon, <1>2, <1>3, <1>5 DEF NodeInv, BodyPCs
<1>12. GetterInv /\ ContInv
  BY Zenon, <1>2, <1>3, <1>5 DEF GetterInv, ContInv, BodyPCs, Nodes
<1>13. ResultInv
  BY Zenon, <1>3 DEF ResultInv, Before, Moving, BodyPCs
<1>14. ValueInv
  BY Zenon, <1>3, <1>5, FutureAssumption DEF ValueInv, Owned
<1>15. SawInv
  BY Zenon DEF SawInv, DeliversWinner
<1> QED BY Zenon, <1>4, <1>6, <1>7, <1>8, <1>9, <1>10, <1>11, <1>12, <1>13, <1>14, <1>15
    DEF IInv
-----------------------------------------------------------------------------
(* What each part of the invariant depends on.  A step of p leaves the      *)
(* other processes where they are.                                          *)
Only(p) == \A q \in Procs : q # p => pc'[q] = pc[q]

LEMMA PlacedSame ==
  ASSUME conts' = conts, waiters' = waiters, chain' = chain
  PROVE  Placed' = Placed
  BY Zenon DEF Placed

LEMMA RaceFrame ==
  ASSUME TypeOK, RaceInv, NEW p, Only(p),
         completed' = completed, winner' = winner, ready' = ready,
         waitersClosed' = waitersClosed, contsClosed' = contsClosed,
         p \in Completers => /\ pc'[p] \in DrainPCs => pc[p] \in DrainPCs
                             /\ pc'[p] \in {"idle", "claim"} => pc[p] \in {"idle", "claim"}
                             /\ pc'[p] \in Unready <=> pc[p] \in Unready
                             /\ pc'[p] \in Unwoken <=> pc[p] \in Unwoken
                             /\ pc'[p] \in Unstolen <=> pc[p] \in Unstolen
  PROVE  RaceInv'
<1>1. \A q \in Completers : q \in Procs
  BY Zenon DEF Procs
<1>2. \A q \in Completers : /\ pc'[q] \in DrainPCs => pc[q] \in DrainPCs
                            /\ pc'[q] \in {"idle", "claim"} => pc[q] \in {"idle", "claim"}
                            /\ pc'[q] \in Unready <=> pc[q] \in Unready
                            /\ pc'[q] \in Unwoken <=> pc[q] \in Unwoken
                            /\ pc'[q] \in Unstolen <=> pc[q] \in Unstolen
  BY Zenon, <1>1 DEF Only
<1>3. winner = "none" \/ winner \in Completers
  BY Zenon DEF TypeOK
<1>4. /\ Before(Unready)' <=> Before(Unready)
      /\ Before(Unwoken)' <=> Before(Unwoken)
      /\ Before(Unstolen)' <=> Before(Unstolen)
  BY Zenon, <1>2, <1>3 DEF Before
<1> QED BY Zenon, <1>2, <1>4 DEF RaceInv

LEMMA PromiseFrame ==
  ASSUME PromiseInv, NEW p, Only(p), fulfilled' = fulfilled, completed => completed',
         p \in Values \cup {Owner} => /\ pc[p] \notin {"idle", "done"} /\ pc'[p] # "idle"
                                      /\ pc[p] = "claim" => completed'
  PROVE  PromiseInv'
<1>1. Owner \in Procs /\ Values \subseteq Procs
  BY DEF Procs, Completers
<1>2. \A q \in Values \cup {Owner} : pc'[q] # "idle" => pc[q] # "idle"
  BY Zenon, <1>1 DEF Only
<1>3. \A q \in Values \cup {Owner} : pc[q] = "claim" => completed' \/ pc'[q] = "claim"
  BY Zenon, <1>1 DEF Only
<1>4. ASSUME pc'[Owner] # "idle", NEW v \in Values PROVE pc'[v] \in {"idle", "done"}
  BY Zenon, <1>1, <1>2, <1>4 DEF Only, PromiseInv
<1> QED BY Zenon, <1>2, <1>3, <1>4 DEF PromiseInv

LEMMA RefFrame ==
  ASSUME RefInv, NEW p, Only(p), refs' = refs, holders' = holders, freed' = freed,
         p \in Clients => pc[p] \notin {"idle", "done"} /\ pc'[p] \notin {"idle", "done"},
         p = Owner => pc[p] # "done" /\ pc'[p] # "done"
  PROVE  RefInv'
<1>1. Owner \in Procs /\ Clients \subseteq Procs
  BY DEF Procs, Completers, Clients
<1> QED BY Zenon, <1>1 DEF Only, RefInv

LEMMA StackFrame ==
  ASSUME StackInv, conts' = conts, waiters' = waiters, claimed' = claimed,
         contsClosed' = contsClosed, waitersClosed' = waitersClosed
  PROVE  StackInv'
  BY Zenon DEF StackInv

LEMMA ChainFrame ==
  ASSUME ChainInv, NEW p, Only(p), chain' = chain, claimed' = claimed, ran' = ran,
         \A q \in Completers : cur'[q] = cur[q],
         p \in Completers => /\ pc[p] \notin WakePCs \cup RunPCs
                             /\ pc'[p] \notin WakePCs \cup RunPCs
  PROVE  ChainInv'
<1> SUFFICES ASSUME NEW q \in Completers PROVE ChainInv!(q)'
  BY Zenon DEF ChainInv
<1>1. ChainInv!(q) /\ q \in Procs
  BY Zenon DEF ChainInv, Procs
<1>2. CASE q # p
  BY Zenon, <1>1, <1>2 DEF Only
<1>3. CASE q = p
  <2>1. \A l \in BodyPCs \cup {"wake", "take_cont", "run", "consume", "move", "zero",
                               "unref_cont"} : l \in WakePCs \cup RunPCs
    BY DEF WakePCs, RunPCs, BodyPCs
  <2> QED BY Zenon, <1>1, <1>3, <2>1
<1> QED BY Zenon, <1>2, <1>3

LEMMA NodeFrame ==
  ASSUME NodeInv, NEW p, Only(p), Placed' = Placed, nodeRefs' = nodeRefs,
         nodeFreed' = nodeFreed, claimed' = claimed,
         p \in Nodes => \/ pc[p] = "idle" /\ pc'[p] = "check"
                        \/ pc[p] \in BodyPCs /\ pc'[p] \in BodyPCs \cup {"discard"}
  PROVE  NodeInv'
<1> SUFFICES ASSUME NEW n \in Nodes PROVE NodeInv!(n)'
  BY Zenon DEF NodeInv
<1>1. NodeInv!(n) /\ n \in Procs
  BY Zenon DEF NodeInv, Nodes, Procs
<1>2. CASE n # p
  BY Zenon, <1>1, <1>2 DEF Only
<1>3. CASE n = p
  BY <1>1, <1>3 DEF BodyPCs
<1> QED BY Zenon, <1>2, <1>3

LEMMA GetterFrame ==
  ASSUME GetterInv, NEW p, Only(p), Placed' = Placed, claimed' = claimed,
         signals' = signals, ready => ready',
         p \in Getters => pc[p] = "idle" /\ pc'[p] = "check"
  PROVE  GetterInv'
<1>1. Getters \subseteq Procs
  BY DEF Procs
<1> QED BY Zenon, <1>1 DEF Only, GetterInv

LEMMA ContFrame ==
  ASSUME ContInv, NEW p, Only(p), Placed' = Placed, claimed' = claimed,
         ran' = ran, nodeFreed' = nodeFreed, \A k \in Conts : cur'[k] = cur[k],
         p \in Conts => pc[p] = "idle" /\ pc'[p] = "check"
  PROVE  ContInv'
<1>1. Conts \subseteq Procs
  BY DEF Procs
<1> QED BY Zenon, <1>1 DEF Only, ContInv, BodyPCs

LEMMA ResultFrame ==
  ASSUME TypeOK, ResultInv, NEW p, Only(p), result' = result, consumed' = consumed,
         winner' = winner, ready => ready', ~Moving(p), ~Moving(p)',
         pc'[p] \in BodyPCs => ready,
         p \in Completers => (pc'[p] = "publish" <=> pc[p] = "publish")
  PROVE  ResultInv'
<1>1. \A q \in Procs : Moving(q)' <=> Moving(q)
  BY Zenon DEF Moving, Only
<1>2. winner = "none" \/ (winner \in Completers /\ winner \in Procs)
  BY Zenon DEF TypeOK, Procs
<1>3. Before({"publish"})' <=> Before({"publish"})
  BY Zenon, <1>2 DEF Before, Only
<1>4. Published' = Published
  BY Zenon DEF Published, ResultOf
<1>5. \A q \in Procs : pc'[q] \in BodyPCs => ready
  BY Zenon DEF ResultInv, Only
<1> QED BY Zenon, <1>1, <1>3, <1>4, <1>5 DEF ResultInv

LEMMA ValueFrame ==
  ASSUME ValueInv, NEW p, Only(p), disposed' = disposed, winner' = winner,
         freed' = freed, consumed' = consumed, pc'[p] = "move" <=> pc[p] = "move",
         p \in Values => /\ pc[p] \notin {"idle", "claim"}
                         /\ pc'[p] \notin {"idle", "claim"}
  PROVE  ValueInv'
<1>1. Owned \subseteq Procs /\ Owned \subseteq Values
  BY DEF Owned, Procs, Completers
<1>2. \A v \in Owned : pc'[v] \in {"idle", "claim"} <=> pc[v] \in {"idle", "claim"}
  BY Zenon, <1>1 DEF Only
<1>3. (\A q \in Procs : pc'[q] # "move") <=> (\A q \in Procs : pc[q] # "move")
  BY Zenon DEF Only
<1> QED BY Zenon, <1>2, <1>3 DEF ValueInv

LEMMA SawFrame ==
  ASSUME SawInv, saw' = saw, winner' = winner, ready => ready', consumed => consumed'
  PROVE  SawInv'
<1>1. Published' = Published
  BY Zenon DEF Published, ResultOf
<1> QED BY Zenon, <1>1 DEF SawInv, DeliversWinner
-----------------------------------------------------------------------------
(* A call moves one process, to a label of its own.                         *)
LEMMA Goes ==
  ASSUME TypeOK, NEW p \in Procs, NEW l \in PCs(p), Goto(p, l)
  PROVE  /\ pc'[p] = l /\ Only(p)
         /\ DOMAIN pc' = Procs /\ \A q \in Procs : pc'[q] \in PCs(q)
  BY Zenon DEF TypeOK, Goto, Only

(* Steps of sFutureComplete before it steals, and of the calls that lead to *)
(* it: stacks, nodes and continuations stay as they are.                    *)
LEMMA HeadFrame ==
  ASSUME IInv, NEW p \in Procs, Only(p), ready => ready',
         p \in Completers \/ (pc[p] = "idle" /\ pc'[p] = "check"),
         UNCHANGED <<stackVars, nodeVars, chain, cur, ran>>,
         pc[p] \notin WakePCs \cup RunPCs, pc'[p] \notin WakePCs \cup RunPCs
  PROVE  StackInv' /\ ChainInv' /\ NodeInv' /\ GetterInv' /\ ContInv'
<1>1. StackInv /\ ChainInv /\ NodeInv /\ GetterInv /\ ContInv
  BY Zenon DEF IInv
<1>2. p \in Nodes \/ p \in Conts \/ p \in Getters => pc[p] = "idle" /\ pc'[p] = "check"
  BY Zenon, Kinds DEF Nodes
<1>3. /\ conts' = conts /\ contsClosed' = contsClosed /\ waiters' = waiters
      /\ waitersClosed' = waitersClosed /\ nodeRefs' = nodeRefs /\ nodeFreed' = nodeFreed
      /\ claimed' = claimed /\ signals' = signals
  BY Zenon DEF stackVars, nodeVars
<1>4. StackInv' /\ ChainInv'
  BY Zenon, <1>1, <1>3, StackFrame, ChainFrame
<1> QED BY Zenon, <1>1, <1>2, <1>3, <1>4, PlacedSame, NodeFrame, GetterFrame, ContFrame

(* The parts a step leaves unchanged keep their types.                      *)
FlagsOK == {fulfilled, completed, consumed, ready} \subseteq BOOLEAN
StacksOK ==
  /\ contsClosed \in BOOLEAN /\ waitersClosed \in BOOLEAN
  /\ conts \in Seq(Conts) /\ waiters \in Seq(Getters)
RefsOK ==
  /\ holders \subseteq Clients \cup {Owner, "caller"} /\ refs \in Nat /\ freed \in BOOLEAN
NodesOK ==
  /\ nodeRefs \in [Nodes -> 0..2] /\ nodeFreed \subseteq Nodes /\ claimed \subseteq Nodes
  /\ signals \in [Getters -> 0..1]
EnvOK ==
  scheduler \in {"up", "stopped", "gone"} /\ inserted \subseteq Getters /\ aborted \in BOOLEAN
ProcsOK ==
  /\ DOMAIN pc = Procs /\ \A p \in Procs : pc[p] \in PCs(p)
  /\ chain \in [Completers -> Seq(Nodes)] /\ cur \in [Procs -> Conts \cup {"none"}]
HistoryOK ==
  /\ winner \in Completers \cup {"none"} /\ ran \in [Conts -> Nat]
  /\ saw \in [Nodes -> Results \cup {Failed, "none"}] /\ disposed \in [Values -> Nat]

LEMMA Types ==
  /\ TypeOK <=> /\ FlagsOK /\ result \in Results /\ StacksOK /\ RefsOK /\ NodesOK /\ EnvOK
                /\ ProcsOK /\ HistoryOK
  /\ TypeOK' <=> /\ FlagsOK' /\ result' \in Results /\ StacksOK' /\ RefsOK' /\ NodesOK'
                 /\ EnvOK' /\ ProcsOK' /\ HistoryOK'
  BY Zenon DEF TypeOK, FlagsOK, StacksOK, RefsOK, NodesOK, EnvOK, ProcsOK, HistoryOK

LEMMA SameTypes ==
  /\ UNCHANGED flagVars /\ FlagsOK => FlagsOK' /\ result' = result
  /\ UNCHANGED stackVars /\ StacksOK => StacksOK'
  /\ UNCHANGED refVars /\ RefsOK => RefsOK'
  /\ UNCHANGED nodeVars /\ NodesOK => NodesOK'
  /\ UNCHANGED envVars /\ EnvOK => EnvOK'
  /\ UNCHANGED history /\ HistoryOK => HistoryOK'
  BY Zenon DEF flagVars, stackVars, refVars, nodeVars, envVars, history, FlagsOK, StacksOK,
       RefsOK, NodesOK, EnvOK, HistoryOK

(* A call that is under way keeps the future: it holds a reference, or it   *)
(* is a Set call, after which the promise is destroyed.                     *)
LEMMA Alive ==
  ASSUME IInv, NEW p \in Procs, pc[p] \notin {"idle", "done"}
  PROVE  ~freed
<1>1. p \in Clients \/ p = Owner \/ p \in Values
  BY Zenon, Kinds DEF Completers
<1>2. CASE p \in Values
  BY Zenon, <1>2 DEF IInv, PromiseInv, RefInv
<1> QED BY Zenon, <1>1, <1>2 DEF IInv, RefInv

(* UfsrvFutureRetain by a call that begins.                                 *)
LEMMA RetainInv ==
  ASSUME IInv, NEW p \in Clients, Retain(p)
  PROVE  IInv'
<1>a. /\ TypeOK /\ RaceInv /\ PromiseInv /\ RefInv /\ ResultInv /\ ValueInv /\ SawInv
  BY Zenon DEF IInv
<1>b. /\ p \in Procs /\ p \notin Values \cup {Owner}
      /\ p = Canceller \/ (p \in Nodes /\ p \notin Completers)
      /\ Canceller \in Completers
  BY Zenon, Kinds DEF Completers
<1>c. /\ UNCHANGED <<flagVars, stackVars, freed, nodeVars, envVars, chain, cur, history>>
      /\ refs' = refs + 1 /\ holders' = holders \cup {p} /\ pc[p] = "idle"
      /\ "caller" \in holders
  BY Zenon DEF Retain
<1>d. /\ completed' = completed /\ fulfilled' = fulfilled /\ consumed' = consumed
      /\ ready' = ready /\ result' = result /\ winner' = winner /\ ran' = ran
      /\ saw' = saw /\ disposed' = disposed /\ contsClosed' = contsClosed
      /\ waitersClosed' = waitersClosed
  BY Zenon, <1>c DEF flagVars, stackVars, history
<1>e. /\ pc'[p] = IF p = Canceller THEN "claim" ELSE "check"
      /\ Only(p) /\ DOMAIN pc' = Procs /\ \A q \in Procs : pc'[q] \in PCs(q)
  <2>1. (IF p = Canceller THEN "claim" ELSE "check") \in PCs(p)
    BY Zenon, <1>b, Labels DEF Nodes
  <2> QED BY Zenon, <1>a, <1>b, <2>1, Goes DEF Retain
<1>1. TypeOK'
  <2>1. RefsOK'
    <3>1. refs' \in Nat
      BY <1>a, <1>c DEF TypeOK
    <3> QED BY Zenon, <1>a, <1>c, <3>1 DEF TypeOK, RefsOK
  <2>2. ProcsOK'
    BY Zenon, <1>a, <1>c, <1>e DEF TypeOK, ProcsOK
  <2> QED BY Zenon, <1>a, <1>c, <2>1, <2>2, Types, SameTypes
<1>2. RaceInv' /\ PromiseInv'
  BY Zenon, <1>a, <1>b, <1>c, <1>d, <1>e, RaceFrame, PromiseFrame
  DEF DrainPCs, WakePCs, RunPCs, BodyPCs, Unready, Unwoken, Unstolen
<1>3. RefInv'
  <2>1. p \notin holders /\ ExistsBijection(1..refs, holders) /\ refs \in Nat
    BY Zenon, <1>a, <1>c DEF RefInv, TypeOK
  <2>2. ExistsBijection(1..(refs + 1), holders \cup {p})
    BY Zenon, <2>1, CountAdd
  <2>3. \A q \in Clients \cup {Owner} : q \in Procs
    BY Zenon, Kinds DEF Completers
  <2>4. ~freed /\ ~freed' /\ holders' # {}
    BY Zenon, <1>a, <1>c DEF RefInv
  <2>5. pc'[p] \notin {"idle", "done"}
    BY Zenon, <1>e
  <2>6. ASSUME NEW q \in Clients PROVE q \in holders' <=> pc'[q] \notin {"idle", "done"}
    BY Zenon, <1>a, <1>c, <1>e, <2>3, <2>5 DEF RefInv, Only
  <2>7. Owner \in holders' <=> pc'[Owner] # "done"
    BY Zenon, <1>a, <1>b, <1>c, <1>e, <2>3 DEF RefInv, Only
  <2> QED BY Zenon, <1>c, <2>2, <2>4, <2>6, <2>7 DEF RefInv
<1>4. StackInv' /\ ChainInv' /\ NodeInv' /\ GetterInv' /\ ContInv'
  BY Zenon, <1>b, <1>c, <1>d, <1>e, HeadFrame DEF WakePCs, RunPCs, BodyPCs
<1>5. ResultInv' /\ ValueInv' /\ SawInv'
  BY Zenon, <1>a, <1>b, <1>c, <1>d, <1>e, ResultFrame, ValueFrame, SawFrame
  DEF Moving, BodyPCs
<1> QED BY Zenon, <1>1, <1>2, <1>3, <1>4, <1>5 DEF IInv

(* free_value, and handing a value on, count for that value only.           *)
LEMMA Disposal ==
  ASSUME TypeOK, NEW r, Dispose(r)
  PROVE  /\ disposed' \in [Values -> Nat]
         /\ \A v \in Values : v # r => disposed'[v] = disposed[v]
         /\ r \in Owned => disposed'[r] = disposed[r] + 1
         /\ r \notin Owned => disposed' = disposed
<1>1. disposed \in [Values -> Nat]
  BY Zenon DEF TypeOK
<1>2. CASE r \in Owned
  <2>1. disposed' = [disposed EXCEPT ![r] = @ + 1] /\ r \in Values
    BY Zenon, <1>2 DEF Dispose, Owned
  <2> QED BY <1>1, <1>2, <2>1
<1>3. CASE r \notin Owned
  BY Zenon, <1>1, <1>3 DEF Dispose
<1> QED BY Zenon, <1>2, <1>3

(* UfsrvPromiseSetResult: the first call goes on to complete the future, a  *)
(* second one frees its value.                                              *)
LEMMA SetResultInv ==
  ASSUME IInv, NEW v \in Values, SetResult(v)
  PROVE  IInv'
<1>a. /\ TypeOK /\ RaceInv /\ PromiseInv /\ RefInv /\ ResultInv /\ ValueInv /\ SawInv
  BY Zenon DEF IInv
<1>b. v \in Procs /\ v \in Completers /\ v \notin Clients /\ v # Owner /\ Owner \in Procs
  BY Zenon, Kinds DEF Completers, Clients
<1>c. /\ UNCHANGED <<completed, consumed, ready, result, stackVars, refVars, nodeVars,
                     envVars, chain, cur, winner, ran, saw>>
      /\ fulfilled' = TRUE /\ pc[v] = "idle" /\ pc[Owner] = "idle"
  BY Zenon DEF SetResult
<1>d. /\ pc'[v] = IF fulfilled THEN "done" ELSE "claim"
      /\ Only(v) /\ DOMAIN pc' = Procs /\ \A q \in Procs : pc'[q] \in PCs(q)
  <2>1. "done" \in PCs(v) /\ "claim" \in PCs(v)
    BY Zenon, Labels
  <2> QED BY Zenon, <1>a, <1>b, <2>1, Goes DEF SetResult
<1>e. /\ disposed' \in [Values -> Nat]
      /\ \A w \in Values : w # v => disposed'[w] = disposed[w]
      /\ v \in Owned => disposed'[v] = IF fulfilled THEN disposed[v] + 1 ELSE disposed[v]
  BY ZenonT(30), <1>a, Disposal DEF SetResult, TypeOK
<1>f. /\ contsClosed' = contsClosed /\ waitersClosed' = waitersClosed /\ freed' = freed
      /\ refs' = refs /\ holders' = holders
  BY Zenon, <1>c DEF stackVars, refVars
<1>1. TypeOK'
  <2>1. FlagsOK' /\ result' \in Results
    BY Zenon, <1>a, <1>c DEF TypeOK, FlagsOK
  <2>2. ProcsOK' /\ HistoryOK'
    BY Zenon, <1>a, <1>c, <1>d, <1>e DEF TypeOK, ProcsOK, HistoryOK
  <2> QED BY Zenon, <1>a, <1>c, <2>1, <2>2, Types, SameTypes
<1>2. RaceInv' /\ RefInv'
  BY Zenon, <1>a, <1>b, <1>c, <1>d, <1>f, RaceFrame, RefFrame
  DEF DrainPCs, WakePCs, RunPCs, BodyPCs, Unready, Unwoken, Unstolen
<1>3. PromiseInv'
  <2>1. pc'[Owner] = "idle"
    BY Zenon, <1>b, <1>c, <1>d DEF Only
  <2>2. ASSUME ~completed PROVE \E p \in Values \cup {Owner} : pc'[p] = "claim"
    <3>1. CASE fulfilled
      <4>1. PICK p \in Values \cup {Owner} : pc[p] = "claim"
        BY Zenon, <1>a, <2>2, <3>1 DEF PromiseInv
      <4>2. p \in Procs /\ p # v
        BY Zenon, <1>b, <1>c, <4>1 DEF Procs, Completers
      <4> QED BY Zenon, <1>d, <4>1, <4>2 DEF Only
    <3> QED BY Zenon, <1>d, <3>1
  <2> QED BY Zenon, <1>c, <2>1, <2>2 DEF PromiseInv
<1>4. StackInv' /\ ChainInv' /\ NodeInv' /\ GetterInv' /\ ContInv'
  BY Zenon, <1>b, <1>c, <1>d, HeadFrame DEF WakePCs, RunPCs, BodyPCs
<1>5. ResultInv' /\ SawInv'
  BY Zenon, <1>a, <1>b, <1>c, <1>d, ResultFrame, SawFrame DEF Moving, BodyPCs
<1>6. ValueInv'
  <2> SUFFICES ASSUME NEW w \in Owned PROVE ValueInv!(w)'
    BY Zenon DEF ValueInv
  <2>1. ValueInv!(w) /\ w \in Values /\ w \in Procs
    BY Zenon, <1>a DEF ValueInv, Owned, Procs, Completers
  <2>2. (\A q \in Procs : pc'[q] # "move") <=> (\A q \in Procs : pc[q] # "move")
    BY Zenon, <1>c, <1>d DEF Only
  <2>3. CASE w # v
    BY Zenon, <1>c, <1>d, <1>e, <1>f, <2>1, <2>2, <2>3 DEF Only
  <2>4. CASE w = v
    <3>1. winner # v /\ disposed[v] = 0
      BY Zenon, <1>a, <1>b, <1>c, <2>1, <2>4 DEF RaceInv
    <3>2. CASE fulfilled
      BY <1>c, <1>d, <1>e, <2>4, <3>1, <3>2
    <3>3. CASE ~fulfilled
      BY Zenon, <1>c, <1>d, <1>e, <2>4, <3>1, <3>3
    <3> QED BY Zenon, <3>2, <3>3
  <2> QED BY Zenon, <2>3, <2>4
<1> QED BY Zenon, <1>1, <1>2, <1>3, <1>4, <1>5, <1>6 DEF IInv

(* UfsrvPromiseDestroy comes when no Set call is under way: either it       *)
(* completes the future itself or somebody has.                             *)
LEMMA PromiseDestroyInv ==
  ASSUME IInv, PromiseDestroy
  PROVE  IInv'
<1>a. /\ TypeOK /\ RaceInv /\ PromiseInv /\ RefInv /\ ResultInv /\ ValueInv /\ SawInv
  BY Zenon DEF IInv
<1>b. Owner \in Procs /\ Owner \in Completers /\ Owner \notin Clients /\ Owner \notin Values
  BY Zenon, Kinds DEF Completers, Clients
<1>c. /\ UNCHANGED <<completed, consumed, ready, result, stackVars, refVars, nodeVars,
                     envVars, chain, cur, history>>
      /\ fulfilled' = TRUE /\ pc[Owner] = "idle" /\ \A v \in Values : pc[v] \in {"idle", "done"}
  BY Zenon DEF PromiseDestroy
<1>d. /\ pc'[Owner] = IF fulfilled THEN "release" ELSE "claim"
      /\ Only(Owner) /\ DOMAIN pc' = Procs /\ \A q \in Procs : pc'[q] \in PCs(q)
  <2>1. "release" \in PCs(Owner) /\ "claim" \in PCs(Owner)
    BY Zenon, Labels
  <2> QED BY Zenon, <1>a, <1>b, <2>1, Goes DEF PromiseDestroy
<1>e. /\ contsClosed' = contsClosed /\ waitersClosed' = waitersClosed /\ freed' = freed
      /\ refs' = refs /\ holders' = holders /\ winner' = winner /\ ran' = ran
      /\ saw' = saw /\ disposed' = disposed
  BY Zenon, <1>c DEF stackVars, refVars, history
<1>1. TypeOK'
  <2>1. FlagsOK' /\ result' \in Results
    BY Zenon, <1>a, <1>c DEF TypeOK, FlagsOK
  <2>2. ProcsOK'
    BY Zenon, <1>a, <1>c, <1>d DEF TypeOK, ProcsOK
  <2> QED BY Zenon, <1>a, <1>c, <2>1, <2>2, Types, SameTypes
<1>2. RaceInv' /\ RefInv'
  BY Zenon, <1>a, <1>b, <1>c, <1>d, <1>e, RaceFrame, RefFrame
  DEF DrainPCs, WakePCs, RunPCs, BodyPCs, Unready, Unwoken, Unstolen
<1>3. PromiseInv'
  <2>1. \A v \in Values : v \in Procs /\ pc'[v] \in {"idle", "done"}
    BY Zenon, <1>b, <1>c, <1>d DEF Only, Procs, Completers
  <2>2. ~fulfilled \/ completed
    BY Zenon, <1>a, <1>c DEF PromiseInv
  <2> QED BY Zenon, <1>c, <1>d, <2>1, <2>2 DEF PromiseInv
<1>4. StackInv' /\ ChainInv' /\ NodeInv' /\ GetterInv' /\ ContInv'
  BY Zenon, <1>b, <1>c, <1>d, <1>e, HeadFrame DEF WakePCs, RunPCs, BodyPCs
<1>5. ResultInv' /\ ValueInv' /\ SawInv'
  BY Zenon, <1>a, <1>b, <1>c, <1>d, <1>e, ResultFrame, ValueFrame, SawFrame DEF Moving, BodyPCs
<1> QED BY Zenon, <1>1, <1>2, <1>3, <1>4, <1>5 DEF IInv

(* The exchange on is_completed has one winner; a losing Set frees its      *)
(* value.                                                                   *)
LEMMA ClaimInv ==
  ASSUME IInv, NEW p \in Completers, Claim(p)
  PROVE  IInv'
<1>a. /\ TypeOK /\ RaceInv /\ PromiseInv /\ RefInv /\ ResultInv /\ ValueInv /\ SawInv
  BY Zenon DEF IInv
<1>b. p \in Procs /\ p # "none" /\ (p \in Values \/ p = Owner \/ p = Canceller)
  BY Zenon, Kinds DEF Completers
<1>c. /\ UNCHANGED <<fulfilled, consumed, ready, result, stackVars, refVars, nodeVars,
                     envVars, chain, cur, ran, saw>>
      /\ completed' = TRUE /\ pc[p] = "claim"
  BY Zenon DEF Claim
<1>d. /\ pc'[p] = IF completed THEN AfterComplete(p) ELSE "publish"
      /\ Only(p) /\ DOMAIN pc' = Procs /\ \A q \in Procs : pc'[q] \in PCs(q)
  <2>1. AfterComplete(p) \in PCs(p) /\ "publish" \in PCs(p)
    BY Zenon, <1>b, Labels DEF AfterComplete, DrainPCs
  <2> QED BY Zenon, <1>a, <1>b, <2>1, Goes DEF Claim
<1>e. /\ contsClosed' = contsClosed /\ waitersClosed' = waitersClosed /\ freed' = freed
      /\ refs' = refs /\ holders' = holders
  BY Zenon, <1>c DEF stackVars, refVars
<1>f. pc'[p] \in {"publish", "done", "release"} /\ (pc'[p] = "done" => p \in Values)
  BY Zenon, <1>d DEF AfterComplete
<1>g. p \in Clients \/ p = Owner => p \notin Values
  BY Zenon, Kinds DEF Completers
<1>h. winner' = IF completed THEN winner ELSE p
  BY Zenon DEF Claim
<1>i. completed <=> winner # "none"
  BY Zenon, <1>a DEF RaceInv
<1>1. TypeOK'
  <2>1. FlagsOK' /\ result' \in Results
    BY Zenon, <1>a, <1>c DEF TypeOK, FlagsOK
  <2>2. disposed' \in [Values -> Nat]
    BY Zenon, <1>a, Disposal DEF Claim, TypeOK
  <2>3. ProcsOK' /\ HistoryOK'
    BY Zenon, <1>a, <1>c, <1>d, <1>h, <2>2 DEF TypeOK, ProcsOK, HistoryOK
  <2> QED BY Zenon, <1>a, <1>c, <2>1, <2>3, Types, SameTypes
<1>2. PromiseInv' /\ RefInv'
  BY Zenon, <1>a, <1>c, <1>d, <1>e, <1>f, <1>g, PromiseFrame, RefFrame
<1>3. StackInv' /\ ChainInv' /\ NodeInv' /\ GetterInv' /\ ContInv'
  BY Zenon, <1>b, <1>c, <1>d, <1>f, HeadFrame DEF WakePCs, RunPCs, BodyPCs
<1>4. RaceInv' /\ ResultInv' /\ ValueInv' /\ SawInv'
  <2>1. CASE completed
    <3>1. winner' = winner /\ completed' = completed /\ pc'[p] = AfterComplete(p) /\ winner # p
      BY Zenon, <1>a, <1>c, <1>d, <1>h, <2>1 DEF RaceInv, TypeOK
    <3>2. pc'[p] \in {"done", "release"}
      BY Zenon, <3>1 DEF AfterComplete
    <3>3. RaceInv'
      BY Zenon, <1>a, <1>c, <1>d, <1>e, <3>1, <3>2, RaceFrame
      DEF DrainPCs, WakePCs, RunPCs, BodyPCs, Unready, Unwoken, Unstolen
    <3>4. ResultInv' /\ SawInv'
      BY Zenon, <1>a, <1>c, <1>d, <3>1, <3>2, ResultFrame, SawFrame DEF Moving, BodyPCs
    <3>5. Dispose(ResultOf(p))
      BY Zenon, <2>1 DEF Claim
    <3>6. /\ \A v \in Owned : v # p => disposed'[v] = disposed[v]
          /\ p \in Owned => disposed'[p] = disposed[p] + 1
      <4>1. PICK r : r = ResultOf(p)
        OBVIOUS
      <4>2. Dispose(r)
        BY Zenon, <3>5, <4>1
      <4>3. r = p \/ r \notin Owned
        BY <4>1, FutureAssumption DEF ResultOf, Owned
      <4>4. p \in Owned => r = p
        BY Zenon, <4>1 DEF ResultOf, Owned
      <4> QED BY Zenon, <1>a, <4>2, <4>3, <4>4, Disposal DEF Owned
    <3>7. ValueInv'
      <4> SUFFICES ASSUME NEW v \in Owned PROVE ValueInv!(v)'
        BY Zenon DEF ValueInv
      <4>1. ValueInv!(v) /\ v \in Values /\ v \in Procs
        BY Zenon, <1>a DEF ValueInv, Owned, Procs, Completers
      <4>2. (\A q \in Procs : pc'[q] # "move") <=> (\A q \in Procs : pc[q] # "move")
        BY Zenon, <1>c, <1>d, <3>2 DEF Only
      <4>3. CASE v # p
        BY Zenon, <1>c, <1>d, <1>e, <3>1, <3>6, <4>1, <4>2, <4>3 DEF Only
      <4>4. CASE v = p
        BY <1>c, <3>1, <3>2, <3>6, <4>1, <4>4
      <4> QED BY Zenon, <4>3, <4>4
    <3> QED BY Zenon, <3>3, <3>4, <3>7
  <2>2. CASE ~completed
    <3>1. /\ winner = "none" /\ winner' = p /\ pc'[p] = "publish" /\ disposed' = disposed
      BY Zenon, <1>d, <1>h, <1>i, <2>2 DEF Claim
    <3>2. ~ready /\ ~waitersClosed /\ ~contsClosed /\ \A q \in Completers : pc[q] \notin DrainPCs
      BY Zenon, <1>a, <3>1, Kinds DEF RaceInv, Before, Procs
    <3>3. /\ ~consumed /\ result = Zero
          /\ \A q \in Procs : pc[q] \notin BodyPCs /\ ~Moving(q)
      BY Zenon, <1>a, <3>1, <3>2 DEF ResultInv, Before
    <3>4. /\ \A q \in Completers : q # p => pc'[q] \notin DrainPCs
          /\ \A q \in Procs : pc'[q] \notin BodyPCs /\ ~Moving(q)'
      BY Zenon, <1>d, <3>1, <3>2, <3>3 DEF Only, Procs, Moving, BodyPCs
    <3>5. RaceInv'
      BY Zenon, <1>b, <1>c, <1>e, <3>1, <3>2, <3>4
      DEF RaceInv, Before, Unready, Unwoken, Unstolen
    <3>6. ResultInv'
      BY Zenon, <1>c, <3>1, <3>3, <3>4 DEF ResultInv, Before
    <3>7. SawInv'
      BY Zenon, <1>a, <1>c, <3>2 DEF SawInv, DeliversWinner
    <3>8. ~freed
      BY Zenon, <1>b, <1>c, Alive
    <3>9. ValueInv'
      <4> SUFFICES ASSUME NEW v \in Owned PROVE ValueInv!(v)'
        BY Zenon DEF ValueInv
      <4>1. ValueInv!(v) /\ v \in Values /\ v \in Procs /\ v # "none"
        BY Zenon, <1>a, Kinds DEF ValueInv, Owned, Procs, Completers
      <4>2. CASE v # p
        BY Zenon, <1>d, <3>1, <4>1, <4>2 DEF Only
      <4>3. CASE v = p
        BY Zenon, <1>c, <1>e, <3>1, <3>3, <3>8, <4>1, <4>3
      <4> QED BY Zenon, <4>2, <4>3
    <3> QED BY Zenon, <3>5, <3>6, <3>7, <3>9
  <2> QED BY Zenon, <2>1, <2>2
<1> QED BY Zenon, <1>1, <1>2, <1>3, <1>4 DEF IInv

(* The winner publishes its result ...                                      *)
LEMMA PublishInv ==
  ASSUME IInv, NEW p \in Completers, Publish(p)
  PROVE  IInv'
<1>a. /\ TypeOK /\ RaceInv /\ PromiseInv /\ RefInv /\ ResultInv /\ ValueInv /\ SawInv
  BY Zenon DEF IInv
<1>b. p \in Procs /\ p # "none" /\ "ready" \in PCs(p)
  BY Zenon, Kinds, Labels DEF Completers, DrainPCs
<1>c. /\ UNCHANGED <<fulfilled, completed, consumed, ready, stackVars, refVars, nodeVars,
                     envVars, chain, cur, history>>
      /\ result' = ResultOf(p) /\ pc[p] = "publish"
  BY Zenon DEF Publish
<1>d. /\ pc'[p] = "ready" /\ Only(p)
      /\ DOMAIN pc' = Procs /\ \A q \in Procs : pc'[q] \in PCs(q)
  BY Zenon, <1>a, <1>b, Goes DEF Publish
<1>e. /\ contsClosed' = contsClosed /\ waitersClosed' = waitersClosed /\ freed' = freed
      /\ refs' = refs /\ holders' = holders /\ winner' = winner /\ ran' = ran
      /\ saw' = saw /\ disposed' = disposed
  BY Zenon, <1>c DEF stackVars, refVars, history
<1>f. winner = p
  BY Zenon, <1>a, <1>c DEF RaceInv, DrainPCs
<1>1. TypeOK'
  <2>1. FlagsOK' /\ result' \in Results
    BY Zenon, <1>a, <1>c DEF TypeOK, FlagsOK, ResultOf, Results
  <2>2. ProcsOK'
    BY Zenon, <1>a, <1>c, <1>d DEF TypeOK, ProcsOK
  <2> QED BY Zenon, <1>a, <1>c, <2>1, <2>2, Types, SameTypes
<1>2. RaceInv' /\ PromiseInv' /\ RefInv'
  BY Zenon, <1>a, <1>c, <1>d, <1>e, RaceFrame, PromiseFrame, RefFrame
  DEF DrainPCs, Unready, Unwoken, Unstolen
<1>3. StackInv' /\ ChainInv' /\ NodeInv' /\ GetterInv' /\ ContInv'
  BY Zenon, <1>b, <1>c, <1>d, <1>e, HeadFrame DEF WakePCs, RunPCs, BodyPCs
<1>4. ResultInv'
  <2>1. ~ready /\ ~consumed /\ \A q \in Procs : ~Moving(q) /\ pc[q] \notin BodyPCs
    BY Zenon, <1>a, <1>c, <1>f DEF RaceInv, ResultInv, Before, Unready
  <2>2. \A q \in Procs : ~Moving(q)' /\ pc'[q] \notin BodyPCs
    BY Zenon, <1>d, <2>1 DEF Moving, Only, BodyPCs
  <2>3. ~Before({"publish"})' /\ Published' = ResultOf(p)
    BY Zenon, <1>b, <1>d, <1>e, <1>f DEF Before, Published, ResultOf
  <2> QED BY Zenon, <1>c, <2>1, <2>2, <2>3 DEF ResultInv
<1>5. ValueInv' /\ SawInv'
  BY Zenon, <1>a, <1>c, <1>d, <1>e, ValueFrame, SawFrame
<1> QED BY Zenon, <1>1, <1>2, <1>3, <1>4, <1>5 DEF IInv

(* ... and makes the future ready.                                          *)
LEMMA SetReadyInv ==
  ASSUME IInv, NEW p \in Completers, SetReady(p)
  PROVE  IInv'
<1>a. /\ TypeOK /\ RaceInv /\ PromiseInv /\ RefInv /\ ResultInv /\ ValueInv /\ SawInv
  BY Zenon DEF IInv
<1>b. p \in Procs /\ p # "none" /\ "steal_waiters" \in PCs(p)
  BY Zenon, Kinds, Labels DEF Completers, DrainPCs
<1>c. /\ UNCHANGED <<fulfilled, completed, consumed, result, stackVars, refVars, nodeVars,
                     envVars, chain, cur, history>>
      /\ ready' = TRUE /\ pc[p] = "ready"
  BY Zenon DEF SetReady
<1>d. /\ pc'[p] = "steal_waiters" /\ Only(p)
      /\ DOMAIN pc' = Procs /\ \A q \in Procs : pc'[q] \in PCs(q)
  BY Zenon, <1>a, <1>b, Goes DEF SetReady
<1>e. /\ contsClosed' = contsClosed /\ waitersClosed' = waitersClosed /\ freed' = freed
      /\ refs' = refs /\ holders' = holders /\ winner' = winner /\ ran' = ran
      /\ saw' = saw /\ disposed' = disposed
  BY Zenon, <1>c DEF stackVars, refVars, history
<1>f. winner = p
  BY Zenon, <1>a, <1>c DEF RaceInv, DrainPCs
<1>1. TypeOK'
  <2>1. FlagsOK' /\ result' \in Results
    BY Zenon, <1>a, <1>c DEF TypeOK, FlagsOK
  <2>2. ProcsOK'
    BY Zenon, <1>a, <1>c, <1>d DEF TypeOK, ProcsOK
  <2> QED BY Zenon, <1>a, <1>c, <2>1, <2>2, Types, SameTypes
<1>2. RaceInv'
  <2>1. ~waitersClosed /\ ~contsClosed
    BY Zenon, <1>a, <1>c, <1>f DEF RaceInv, Before, Unready, Unwoken, Unstolen
  <2>2. \A q \in Completers : q # p => pc[q] \notin DrainPCs /\ pc'[q] = pc[q]
    BY Zenon, <1>a, <1>d, <1>f DEF RaceInv, Only, Procs
  <2> QED BY Zenon, <1>a, <1>b, <1>c, <1>d, <1>e, <1>f, <2>1, <2>2
      DEF RaceInv, Before, Unready, Unwoken, Unstolen
<1>3. PromiseInv' /\ RefInv'
  BY Zenon, <1>a, <1>c, <1>d, <1>e, PromiseFrame, RefFrame
<1>4. StackInv' /\ ChainInv' /\ NodeInv' /\ GetterInv' /\ ContInv'
  BY Zenon, <1>b, <1>c, <1>d, <1>e, HeadFrame DEF WakePCs, RunPCs, BodyPCs
<1>5. ResultInv' /\ ValueInv' /\ SawInv'
  BY Zenon, <1>a, <1>c, <1>d, <1>e, ResultFrame, ValueFrame, SawFrame DEF Moving, BodyPCs
<1> QED BY Zenon, <1>1, <1>2, <1>3, <1>4, <1>5 DEF IInv

-----------------------------------------------------------------------------
(* The drains.  Only the winner has a stolen chain.                         *)
LEMMA Winner ==
  ASSUME IInv, NEW p \in Completers, pc[p] \in DrainPCs
  PROVE  /\ winner = p /\ p # "none" /\ p \in Procs /\ p \notin Nodes
         /\ \A q \in Completers : q # p => pc[q] \notin DrainPCs /\ chain[q] = <<>>
         /\ Placed = Range(conts) \cup Range(waiters) \cup Range(chain[p])
         /\ p \in Values => pc[Owner] = "idle"
<1>1. winner = p /\ p # "none" /\ p \in Procs /\ p \notin Nodes
  BY Zenon, Kinds DEF IInv, RaceInv
<1>2. ASSUME NEW q \in Completers, q # p PROVE pc[q] \notin DrainPCs /\ chain[q] = <<>>
  <2>1. pc[q] \notin DrainPCs
    BY Zenon, <1>1, <1>2 DEF IInv, RaceInv
  <2> QED BY Zenon, <2>1 DEF IInv, ChainInv, DrainPCs
<1>3. UNION {Range(chain[q]) : q \in Completers} = Range(chain[p])
  BY Zenon, <1>2, EmptyElements
<1>4. p \in Values => pc[Owner] = "idle"
  BY DEF IInv, PromiseInv, DrainPCs, WakePCs, RunPCs, BodyPCs
<1> QED BY Zenon, <1>1, <1>2, <1>3, <1>4 DEF Placed

LEMMA PlacedNext ==
  ASSUME NEW p \in Completers, \A q \in Completers : q # p => chain'[q] = <<>>
  PROVE  Placed' = Range(conts') \cup Range(waiters') \cup Range(chain'[p])
<1>1. UNION {Range(chain'[q]) : q \in Completers} = Range(chain'[p])
  BY Zenon, EmptyElements
<1> QED BY Zenon, <1>1 DEF Placed

(* What no step of a drain touches.                                         *)
LEMMA DrainFrame ==
  ASSUME IInv, NEW p \in Completers, Only(p), UNCHANGED <<flagVars, refVars, history>>,
         pc[p] \in {"steal_waiters", "wake", "submit", "unref_waiter", "steal_conts",
                    "take_cont", "unref_cont"},
         pc'[p] \in {"wake", "submit", "unref_waiter", "steal_conts", "take_cont", "run",
                     "unref_cont", AfterComplete(p)}
  PROVE  PromiseInv' /\ RefInv' /\ ResultInv' /\ ValueInv' /\ SawInv'
<1>a. /\ TypeOK /\ RaceInv /\ PromiseInv /\ RefInv /\ ResultInv /\ ValueInv /\ SawInv
  BY Zenon DEF IInv
<1>b. /\ fulfilled' = fulfilled /\ completed' = completed /\ consumed' = consumed
      /\ ready' = ready /\ result' = result /\ refs' = refs /\ holders' = holders
      /\ freed' = freed /\ winner' = winner /\ saw' = saw /\ disposed' = disposed
  BY Zenon DEF flagVars, refVars, history
<1>c. pc[p] \in DrainPCs /\ pc[p] \notin Unready
  BY Zenon DEF DrainPCs, WakePCs, RunPCs, Unready
<1>d. winner = p /\ ready
  BY Zenon, <1>a, <1>c, Winner DEF RaceInv, Before
<1>e. /\ pc'[p] \in {"wake", "submit", "unref_waiter", "steal_conts", "take_cont", "run",
                     "unref_cont", "done", "release"}
      /\ pc'[p] = "done" => p \in Values
  BY Zenon DEF AfterComplete
<1>f. p \in Clients \/ p = Owner => p \notin Values
  BY Zenon, Kinds DEF Completers
<1>1. PromiseInv' /\ RefInv'
  BY Zenon, <1>a, <1>b, <1>e, <1>f, PromiseFrame, RefFrame
<1>2. ResultInv'
  BY Zenon, <1>a, <1>b, <1>d, <1>e, ResultFrame DEF Moving
<1> QED BY Zenon, <1>a, <1>b, <1>e, <1>1, <1>2, ValueFrame, SawFrame

LEMMA ChainOthers ==
  ASSUME IInv, NEW p \in Completers, pc[p] \in DrainPCs, Only(p),
         NEW q \in Completers, q # p, chain'[q] = chain[q]
  PROVE  ChainInv!(q)'
<1>1. pc'[q] \notin DrainPCs /\ chain'[q] = <<>>
  BY Zenon, Winner DEF Only, Procs
<1>2. \A l \in BodyPCs \cup WakePCs \cup RunPCs \cup {"wake", "take_cont", "run", "consume",
                        "move", "zero", "unref_cont"} : l \in DrainPCs
  BY DEF DrainPCs, WakePCs, RunPCs, BodyPCs
<1> QED BY Zenon, <1>1, <1>2, EmptyElements

(* sDrainWaiters takes the whole stack and closes it.                       *)
LEMMA StealWaitersInv ==
  ASSUME IInv, NEW p \in Completers, StealWaiters(p)
  PROVE  IInv'
<1>a. /\ TypeOK /\ RaceInv /\ StackInv /\ ChainInv /\ NodeInv /\ GetterInv /\ ContInv
  BY Zenon DEF IInv
<1>b. /\ UNCHANGED <<flagVars, conts, contsClosed, refVars, nodeVars, envVars, cur, history>>
      /\ chain' = [chain EXCEPT ![p] = waiters] /\ waiters' = <<>> /\ waitersClosed' = TRUE
      /\ pc[p] = "steal_waiters" /\ pc[p] \in DrainPCs
  BY Zenon DEF StealWaiters, DrainPCs
<1>c. /\ completed' = completed /\ ready' = ready /\ winner' = winner /\ nodeRefs' = nodeRefs
      /\ nodeFreed' = nodeFreed /\ claimed' = claimed /\ signals' = signals /\ ran' = ran
  BY Zenon, <1>b DEF flagVars, nodeVars, history
<1>d. /\ winner = p /\ p # "none" /\ p \in Procs /\ p \notin Nodes
      /\ \A q \in Completers : q # p => pc[q] \notin DrainPCs /\ chain[q] = <<>>
      /\ Placed = Range(conts) \cup Range(waiters) \cup Range(chain[p])
  BY Zenon, <1>b, Winner
<1>e. /\ pc'[p] = IF waiters = <<>> THEN "steal_conts" ELSE "wake"
      /\ Only(p) /\ DOMAIN pc' = Procs /\ \A q \in Procs : pc'[q] \in PCs(q)
  <2>1. "steal_conts" \in PCs(p) /\ "wake" \in PCs(p)
    BY Zenon, Labels DEF Completers, DrainPCs, WakePCs
  <2> QED BY Zenon, <1>a, <1>d, <2>1, Goes DEF StealWaiters
<1>f. /\ chain'[p] = waiters /\ \A q \in Completers : q # p => chain'[q] = chain[q]
      /\ chain[p] = <<>>
  BY Zenon, <1>a, <1>b DEF TypeOK, ChainInv, WakePCs, RunPCs, BodyPCs
<1>1. TypeOK'
  <2>1. waiters \in Seq(Nodes)
    BY <1>a DEF TypeOK, Nodes
  <2>2. ProcsOK'
    BY Zenon, <1>a, <1>b, <1>e, <2>1 DEF TypeOK, ProcsOK
  <2>3. <<>> \in Seq(Getters)
    OBVIOUS
  <2>4. StacksOK'
    BY Zenon, <1>a, <1>b, <2>3 DEF TypeOK, StacksOK
  <2> QED BY Zenon, <1>a, <1>b, <2>2, <2>4, Types, SameTypes
<1>2. RaceInv'
  <2>1. ready /\ ~contsClosed
    BY Zenon, <1>a, <1>b, <1>d DEF RaceInv, Before, Unready, Unwoken, Unstolen
  <2>2. /\ pc'[p] \in DrainPCs /\ pc'[p] \notin {"idle", "claim"} /\ pc'[p] \notin Unready
        /\ pc'[p] \notin Unwoken /\ pc'[p] \in Unstolen
    BY Zenon, <1>e DEF DrainPCs, WakePCs, Unready, Unwoken, Unstolen
  <2>3. \A q \in Completers : q # p => pc'[q] \notin DrainPCs
    BY Zenon, <1>d, <1>e DEF Only, Procs
  <2> QED BY Zenon, <1>a, <1>b, <1>c, <1>d, <2>1, <2>2, <2>3 DEF RaceInv, Before
<1>3. PromiseInv' /\ RefInv' /\ ResultInv' /\ ValueInv' /\ SawInv'
  BY Zenon, <1>b, <1>e, DrainFrame
<1>4. StackInv'
  BY Zenon, <1>a, <1>b, <1>c, EmptyElements DEF StackInv
<1>5. Placed' = Placed
  BY Zenon, <1>b, <1>d, <1>f, EmptyElements, PlacedNext
<1>6. ChainInv'
  <2>1. \A q \in Completers : q # p => ChainInv!(q)'
    BY ZenonT(40), <1>b, <1>e, <1>f, ChainOthers
  <2>2. waiters # <<>> => Head(waiters) \in Range(waiters)
    BY Zenon, <1>a, TailElements DEF TypeOK, StackInv
  <2>3. Range(waiters) \subseteq Getters
    BY <1>a DEF TypeOK, Range
  <2>4. ChainInv!(p)'
    BY Zenon, <1>a, <1>c, <1>e, <1>f, <2>2, <2>3 DEF StackInv, WakePCs, RunPCs, BodyPCs
  <2> QED BY Zenon, <2>1, <2>4 DEF ChainInv
<1>7. NodeInv' /\ GetterInv' /\ ContInv'
  BY Zenon, <1>a, <1>b, <1>c, <1>d, <1>e, <1>5, NodeFrame, GetterFrame, ContFrame DEF Nodes
<1> QED BY Zenon, <1>1, <1>2, <1>3, <1>4, <1>6, <1>7 DEF IInv

(* sDrainContinuations likewise.                                            *)
LEMMA StealContsInv ==
  ASSUME IInv, NEW p \in Completers, StealConts(p)
  PROVE  IInv'
<1>a. /\ TypeOK /\ RaceInv /\ StackInv /\ ChainInv /\ NodeInv /\ GetterInv /\ ContInv
  BY Zenon DEF IInv
<1>b. /\ UNCHANGED <<flagVars, waiters, waitersClosed, refVars, nodeVars, envVars, cur,
                     history>>
      /\ chain' = [chain EXCEPT ![p] = conts] /\ conts' = <<>> /\ contsClosed' = TRUE
      /\ pc[p] = "steal_conts" /\ pc[p] \in DrainPCs
  BY Zenon DEF StealConts, DrainPCs
<1>c. /\ completed' = completed /\ ready' = ready /\ winner' = winner /\ nodeRefs' = nodeRefs
      /\ nodeFreed' = nodeFreed /\ claimed' = claimed /\ signals' = signals /\ ran' = ran
  BY Zenon, <1>b DEF flagVars, nodeVars, history
<1>d. /\ winner = p /\ p # "none" /\ p \in Procs /\ p \notin Nodes
      /\ \A q \in Completers : q # p => pc[q] \notin DrainPCs /\ chain[q] = <<>>
      /\ Placed = Range(conts) \cup Range(waiters) \cup Range(chain[p])
  BY Zenon, <1>b, Winner
<1>e. /\ pc'[p] = IF conts = <<>> THEN AfterComplete(p) ELSE "take_cont"
      /\ Only(p) /\ DOMAIN pc' = Procs /\ \A q \in Procs : pc'[q] \in PCs(q)
  <2>1. AfterComplete(p) \in PCs(p) /\ "take_cont" \in PCs(p)
    BY Zenon, Labels DEF Completers, DrainPCs, RunPCs, AfterComplete
  <2> QED BY Zenon, <1>a, <1>d, <2>1, Goes DEF StealConts
<1>f. /\ chain'[p] = conts /\ \A q \in Completers : q # p => chain'[q] = chain[q]
      /\ chain[p] = <<>>
  BY Zenon, <1>a, <1>b DEF TypeOK, ChainInv, WakePCs, RunPCs, BodyPCs
<1>g. pc'[p] \in {"done", "release", "take_cont"} /\ (pc'[p] = "take_cont" <=> conts # <<>>)
  BY Zenon, <1>e DEF AfterComplete
<1>1. TypeOK'
  <2>1. conts \in Seq(Nodes)
    BY <1>a DEF TypeOK, Nodes
  <2>2. ProcsOK'
    BY Zenon, <1>a, <1>b, <1>e, <2>1 DEF TypeOK, ProcsOK
  <2>3. <<>> \in Seq(Conts)
    OBVIOUS
  <2>4. StacksOK'
    BY Zenon, <1>a, <1>b, <2>3 DEF TypeOK, StacksOK
  <2> QED BY Zenon, <1>a, <1>b, <2>2, <2>4, Types, SameTypes
<1>2. RaceInv'
  <2>1. ready /\ waitersClosed
    BY Zenon, <1>a, <1>b, <1>d DEF RaceInv, Before, Unready, Unwoken
  <2>2. /\ pc'[p] \notin {"idle", "claim"} /\ pc'[p] \notin Unready
        /\ pc'[p] \notin Unwoken /\ pc'[p] \notin Unstolen
    BY Zenon, <1>g DEF WakePCs, Unready, Unwoken, Unstolen
  <2>3. \A q \in Completers : q # p => pc'[q] \notin DrainPCs
    BY Zenon, <1>d, <1>e DEF Only, Procs
  <2> QED BY Zenon, <1>a, <1>b, <1>c, <1>d, <2>1, <2>2, <2>3 DEF RaceInv, Before
<1>3. PromiseInv' /\ RefInv' /\ ResultInv' /\ ValueInv' /\ SawInv'
  BY Zenon, <1>b, <1>e, DrainFrame
<1>4. StackInv'
  BY Zenon, <1>a, <1>b, <1>c, EmptyElements DEF StackInv
<1>5. Placed' = Placed
  BY Zenon, <1>b, <1>d, <1>f, EmptyElements, PlacedNext
<1>6. ChainInv'
  <2>1. \A q \in Completers : q # p => ChainInv!(q)'
    BY ZenonT(40), <1>b, <1>e, <1>f, ChainOthers
  <2>2. conts # <<>> => Head(conts) \in Range(conts)
    BY Zenon, <1>a, TailElements DEF TypeOK, StackInv
  <2>3. Range(conts) \subseteq Conts
    BY <1>a DEF TypeOK, Range
  <2>4. ChainInv!(p)'
    BY Zenon, <1>a, <1>c, <1>f, <1>g, <2>2, <2>3 DEF StackInv, WakePCs, RunPCs, BodyPCs
  <2> QED BY Zenon, <2>1, <2>4 DEF ChainInv
<1>7. NodeInv' /\ GetterInv' /\ ContInv'
  BY Zenon, <1>a, <1>b, <1>c, <1>d, <1>e, <1>5, NodeFrame, GetterFrame, ContFrame DEF Nodes
<1> QED BY Zenon, <1>1, <1>2, <1>3, <1>4, <1>6, <1>7 DEF IInv

(* The node at the head of the winner's chain.                              *)
LEMMA AtHead ==
  ASSUME IInv, NEW p \in Completers, pc[p] \in WakePCs \cup RunPCs
  PROVE  /\ pc[p] \in DrainPCs /\ chain[p] \in Seq(Nodes) /\ chain[p] # <<>>
         /\ IsInjective(chain[p])
         /\ Head(chain[p]) \in Range(chain[p]) /\ Head(chain[p]) \in Placed
         /\ Range(Tail(chain[p])) = Range(chain[p]) \ {Head(chain[p])}
         /\ IsInjective(Tail(chain[p])) /\ Tail(chain[p]) \in Seq(Nodes)
         /\ Head(chain[p]) \in IF pc[p] \in WakePCs THEN Getters ELSE Conts
         /\ waitersClosed /\ waiters = <<>>
         /\ pc[p] \in RunPCs => contsClosed /\ conts = <<>>
         /\ ready
<1>1. pc[p] \in DrainPCs
  BY Zenon DEF DrainPCs
<1>2. chain[p] \in Seq(Nodes) /\ chain[p] # <<>> /\ IsInjective(chain[p])
  BY Zenon DEF IInv, TypeOK, ChainInv
<1>3. /\ Head(chain[p]) \in Range(chain[p])
      /\ Range(Tail(chain[p])) = Range(chain[p]) \ {Head(chain[p])}
      /\ IsInjective(Tail(chain[p])) /\ Tail(chain[p]) \in Seq(Nodes)
  BY Zenon, <1>2, TailElements
<1>4. Head(chain[p]) \in IF pc[p] \in WakePCs THEN Getters ELSE Conts
  BY Zenon, <1>3 DEF IInv, ChainInv
<1>5. winner = p /\ p # "none" /\ Head(chain[p]) \in Placed
  BY Zenon, <1>1, <1>3, Winner
<1>6. /\ pc[p] \notin Unready /\ pc[p] \notin Unwoken
      /\ pc[p] \in RunPCs => pc[p] \notin Unstolen
  BY DEF WakePCs, RunPCs, BodyPCs, Unready, Unwoken, Unstolen
<1>7. ready /\ waitersClosed /\ (pc[p] \in RunPCs => contsClosed)
  BY Zenon, <1>5, <1>6 DEF IInv, RaceInv, Before
<1>8. waiters = <<>> /\ (pc[p] \in RunPCs => conts = <<>>)
  BY Zenon, <1>7 DEF IInv, StackInv
<1> QED BY Zenon, <1>1, <1>2, <1>3, <1>4, <1>5, <1>7, <1>8

(* The winner claims the waiter at the head and wakes it.                   *)
LEMMA WakeWaiterInv ==
  ASSUME IInv, NEW p \in Completers, WakeWaiter(p)
  PROVE  IInv'
<1>a. /\ TypeOK /\ RaceInv /\ StackInv /\ ChainInv /\ NodeInv /\ GetterInv /\ ContInv
  BY Zenon DEF IInv
<1>b. /\ UNCHANGED <<flagVars, stackVars, refVars, nodeRefs, nodeFreed, scheduler, inserted,
                     chain, cur, history>>
      /\ claimed' = claimed \cup {Head(chain[p])}
      /\ pc[p] = "wake" /\ pc[p] \in WakePCs /\ pc[p] \in DrainPCs
  BY Zenon DEF WakeWaiter, WakePCs, DrainPCs
<1>c. /\ completed' = completed /\ ready' = ready /\ winner' = winner /\ ran' = ran
      /\ conts' = conts /\ waiters' = waiters /\ contsClosed' = contsClosed
      /\ waitersClosed' = waitersClosed
  BY Zenon, <1>b DEF flagVars, stackVars, history
<1>d. /\ p \in Procs /\ p \notin Nodes
      /\ \A q \in Completers : q # p => pc[q] \notin DrainPCs /\ chain[q] = <<>>
  BY Zenon, <1>b, Winner
<1>e. /\ pc'[p] \in {"submit", "unref_waiter"} /\ Only(p)
      /\ DOMAIN pc' = Procs /\ \A q \in Procs : pc'[q] \in PCs(q)
  <2>1. "submit" \in PCs(p) /\ "unref_waiter" \in PCs(p)
    BY Zenon, Labels DEF Completers, DrainPCs, WakePCs
  <2>2. PICK l \in {"submit", "unref_waiter"} : Goto(p, l)
    BY Zenon DEF WakeWaiter
  <2> QED BY Zenon, <1>a, <1>d, <2>1, <2>2, Goes
<1>f. PICK g \in Getters : g = Head(chain[p])
  BY Zenon, <1>b, AtHead
<1>g. /\ g \in Range(chain[p]) /\ g \in Placed /\ g \notin claimed /\ waiters = <<>> /\ ready
      /\ pc[g] = "wait" /\ signals[g] = 0 /\ g \notin Conts /\ g \in Nodes
  <2>1. g \in Range(chain[p]) /\ g \in Placed /\ waiters = <<>> /\ ready
    BY Zenon, <1>b, <1>f, AtHead
  <2>2. g \notin claimed
    BY Zenon, <1>a, <1>b, <1>f DEF ChainInv
  <2> QED BY Zenon, <1>a, <2>1, <2>2, Kinds DEF GetterInv, Nodes
<1>h. signals' \in [Getters -> 0..1] /\ \A h \in Getters : h # g => signals'[h] = signals[h]
  <2>1. signals \in [Getters -> 0..1]
    BY Zenon, <1>a DEF TypeOK
  <2>2. \/ signals' = signals
        \/ signals' = [signals EXCEPT ![g] = IF g \in claimed THEN @ ELSE @ + 1]
    BY Zenon, <1>f DEF WakeWaiter
  <2>3. signals' = signals \/ signals' = [signals EXCEPT ![g] = @ + 1]
    BY Zenon, <1>g, <2>2
  <2> QED BY <1>g, <2>1, <2>3
<1>i. claimed' = claimed \cup {g}
  BY Zenon, <1>b, <1>f
<1>1. TypeOK'
  <2>1. ProcsOK' /\ NodesOK'
    BY Zenon, <1>a, <1>b, <1>e, <1>g, <1>h, <1>i DEF TypeOK, ProcsOK, NodesOK
  <2>2. EnvOK'
    BY Zenon, <1>a, <1>b DEF TypeOK, EnvOK, WakeWaiter
  <2> QED BY Zenon, <1>a, <1>b, <2>1, <2>2, Types, SameTypes
<1>2. RaceInv'
  BY Zenon, <1>a, <1>b, <1>c, <1>e, RaceFrame DEF DrainPCs, WakePCs, Unready, Unwoken, Unstolen
<1>3. PromiseInv' /\ RefInv' /\ ResultInv' /\ ValueInv' /\ SawInv'
  BY Zenon, <1>b, <1>e, DrainFrame
<1>4. StackInv'
  <2>1. Range(conts) \subseteq Conts
    BY <1>a DEF TypeOK, Range
  <2> QED BY Zenon, <1>a, <1>c, <1>g, <1>i, <2>1, EmptyElements DEF StackInv
<1>5. Placed' = Placed
  BY Zenon, <1>b, <1>c, PlacedSame
<1>6. ChainInv'
  <2>1. \A q \in Completers : q # p => ChainInv!(q)'
    BY ZenonT(40), <1>b, <1>e, ChainOthers
  <2>2. ChainInv!(p) /\ chain' = chain
    BY Zenon, <1>a, <1>b DEF ChainInv
  <2>3. ChainInv!(p)'
    BY Zenon, <1>b, <1>e, <1>f, <1>i, <2>2 DEF WakePCs, RunPCs, BodyPCs
  <2> QED BY Zenon, <2>1, <2>3 DEF ChainInv
<1>7. NodeInv'
  <2>1. \A n \in Nodes : pc'[n] = pc[n]
    BY Zenon, <1>d, <1>e, Kinds DEF Only
  <2> QED BY ZenonT(30), <1>a, <1>b, <1>g, <1>i, <1>5, <2>1 DEF NodeInv
<1>8. GetterInv'
  <2>1. \A h \in Getters : pc'[h] = pc[h]
    BY Zenon, <1>d, <1>e, Kinds DEF Only, Nodes
  <2> QED BY Zenon, <1>a, <1>c, <1>g, <1>h, <1>i, <1>5, <2>1 DEF GetterInv
<1>9. ContInv'
  <2>1. \A k \in Conts : pc'[k] = pc[k] /\ cur'[k] = cur[k] /\ k # g
    BY Zenon, <1>b, <1>d, <1>e, <1>g, Kinds DEF Only, Nodes
  <2> QED BY Zenon, <1>a, <1>b, <1>c, <1>i, <1>5, <2>1 DEF ContInv
<1> QED BY Zenon, <1>1, <1>2, <1>3, <1>4, <1>6, <1>7, <1>8, <1>9 DEF IInv

(* ... and inserts its resume, if it is a coroutine's.                      *)
LEMMA InsertResumeInv ==
  ASSUME IInv, NEW p \in Completers, InsertResume(p)
  PROVE  IInv'
<1>a. /\ TypeOK /\ RaceInv /\ StackInv /\ ChainInv /\ NodeInv /\ GetterInv /\ ContInv
  BY Zenon DEF IInv
<1>b. /\ UNCHANGED <<flagVars, stackVars, refVars, nodeVars, scheduler, aborted, chain, cur,
                     history>>
      /\ inserted' = inserted \cup {Head(chain[p])}
      /\ pc[p] = "submit" /\ pc[p] \in WakePCs /\ pc[p] \in DrainPCs
  BY Zenon DEF InsertResume, WakePCs, DrainPCs
<1>c. /\ completed' = completed /\ ready' = ready /\ winner' = winner /\ ran' = ran
      /\ conts' = conts /\ waiters' = waiters /\ contsClosed' = contsClosed
      /\ waitersClosed' = waitersClosed /\ claimed' = claimed /\ signals' = signals
      /\ nodeRefs' = nodeRefs /\ nodeFreed' = nodeFreed
  BY Zenon, <1>b DEF flagVars, stackVars, nodeVars, history
<1>d. p \in Procs /\ p \notin Nodes
  BY Zenon, <1>b, Winner
<1>e. /\ pc'[p] = "unref_waiter" /\ Only(p)
      /\ DOMAIN pc' = Procs /\ \A q \in Procs : pc'[q] \in PCs(q)
  <2>1. "unref_waiter" \in PCs(p)
    BY Zenon, Labels DEF Completers, DrainPCs, WakePCs
  <2> QED BY Zenon, <1>a, <1>d, <2>1, Goes DEF InsertResume
<1>f. PICK g \in Getters : g = Head(chain[p])
  BY Zenon, <1>b, AtHead
<1>1. TypeOK'
  <2>1. ProcsOK'
    BY Zenon, <1>a, <1>b, <1>e DEF TypeOK, ProcsOK
  <2>2. EnvOK'
    BY Zenon, <1>a, <1>b, <1>f DEF TypeOK, EnvOK
  <2> QED BY Zenon, <1>a, <1>b, <2>1, <2>2, Types, SameTypes
<1>2. RaceInv'
  BY Zenon, <1>a, <1>b, <1>c, <1>e, RaceFrame DEF DrainPCs, WakePCs, Unready, Unwoken, Unstolen
<1>3. PromiseInv' /\ RefInv' /\ ResultInv' /\ ValueInv' /\ SawInv'
  BY Zenon, <1>b, <1>e, DrainFrame
<1>4. StackInv'
  BY Zenon, <1>a, <1>c, StackFrame
<1>5. Placed' = Placed
  BY Zenon, <1>b, <1>c, PlacedSame
<1>6. ChainInv'
  <2>1. \A q \in Completers : q # p => ChainInv!(q)'
    BY ZenonT(40), <1>b, <1>e, ChainOthers
  <2>2. ChainInv!(p) /\ chain' = chain
    BY Zenon, <1>a, <1>b DEF ChainInv
  <2>3. ChainInv!(p)'
    BY Zenon, <1>b, <1>c, <1>e, <2>2 DEF WakePCs, RunPCs, BodyPCs
  <2> QED BY Zenon, <2>1, <2>3 DEF ChainInv
<1>7. NodeInv'
  <2>1. \A n \in Nodes : pc'[n] = pc[n]
    BY Zenon, <1>d, <1>e, Kinds DEF Only
  <2> QED BY ZenonT(30), <1>a, <1>c, <1>5, <2>1 DEF NodeInv
<1>8. GetterInv' /\ ContInv'
  <2>1. \A n \in Nodes : pc'[n] = pc[n] /\ cur'[n] = cur[n]
    BY Zenon, <1>b, <1>d, <1>e, Kinds DEF Only
  <2> QED BY Zenon, <1>a, <1>c, <1>5, <2>1 DEF GetterInv, ContInv, Nodes
<1> QED BY Zenon, <1>1, <1>2, <1>3, <1>4, <1>6, <1>7, <1>8 DEF IInv

(* sRunContinuation claims the continuation at the head, which nobody else  *)
(* has.                                                                     *)
LEMMA TakeContInv ==
  ASSUME IInv, NEW p \in Completers, TakeCont(p)
  PROVE  IInv'
<1>a. /\ TypeOK /\ RaceInv /\ StackInv /\ ChainInv /\ NodeInv /\ GetterInv /\ ContInv
  BY Zenon DEF IInv
<1>b. /\ UNCHANGED <<flagVars, stackVars, refVars, nodeRefs, nodeFreed, signals, envVars,
                     chain, history>>
      /\ claimed' = claimed \cup {Head(chain[p])}
      /\ cur' = [cur EXCEPT ![p] = Head(chain[p])]
      /\ pc[p] = "take_cont" /\ pc[p] \in RunPCs /\ pc[p] \in DrainPCs
  BY Zenon DEF TakeCont, RunPCs, DrainPCs
<1>c. /\ completed' = completed /\ ready' = ready /\ winner' = winner /\ ran' = ran
      /\ conts' = conts /\ waiters' = waiters /\ contsClosed' = contsClosed
      /\ waitersClosed' = waitersClosed
  BY Zenon, <1>b DEF flagVars, stackVars, history
<1>d. /\ p \in Procs /\ p \notin Nodes
      /\ \A q \in Completers : q # p => pc[q] \notin DrainPCs /\ chain[q] = <<>>
  BY Zenon, <1>b, Winner
<1>f. PICK k \in Conts : k = Head(chain[p])
  <2>1. pc[p] \notin WakePCs
    BY Zenon, <1>b DEF WakePCs
  <2> QED BY Zenon, <1>b, <2>1, AtHead
<1>g. /\ k \in Range(chain[p]) /\ k \in Placed /\ k \notin claimed /\ ran[k] = 0
      /\ conts = <<>> /\ waiters = <<>> /\ k \notin Getters /\ k \in Nodes
  <2>1. k \in Range(chain[p]) /\ k \in Placed /\ conts = <<>> /\ waiters = <<>>
    BY Zenon, <1>b, <1>f, AtHead
  <2>2. k \notin claimed
    BY Zenon, <1>a, <1>b, <1>f DEF ChainInv
  <2> QED BY Zenon, <1>a, <2>1, <2>2, Kinds DEF ContInv, Nodes
<1>e. /\ pc'[p] = "run" /\ Only(p)
      /\ DOMAIN pc' = Procs /\ \A q \in Procs : pc'[q] \in PCs(q)
  <2>1. "run" \in PCs(p)
    BY Zenon, Labels DEF Completers, DrainPCs, RunPCs, BodyPCs
  <2> QED BY Zenon, <1>a, <1>d, <1>f, <1>g, <2>1, Goes DEF TakeCont
<1>h. claimed' = claimed \cup {k} /\ cur'[p] = k /\ \A q \in Procs : q # p => cur'[q] = cur[q]
  BY Zenon, <1>a, <1>b, <1>d, <1>f DEF TypeOK
<1>1. TypeOK'
  <2>1. ProcsOK' /\ NodesOK'
    BY Zenon, <1>a, <1>b, <1>e, <1>f, <1>g DEF TypeOK, ProcsOK, NodesOK
  <2> QED BY Zenon, <1>a, <1>b, <2>1, Types, SameTypes
<1>2. RaceInv'
  BY Zenon, <1>a, <1>b, <1>c, <1>e, RaceFrame
  DEF DrainPCs, WakePCs, RunPCs, BodyPCs, Unready, Unwoken, Unstolen
<1>3. PromiseInv' /\ RefInv' /\ ResultInv' /\ ValueInv' /\ SawInv'
  BY Zenon, <1>b, <1>e, DrainFrame
<1>4. StackInv'
  BY Zenon, <1>a, <1>c, <1>g, EmptyElements DEF StackInv
<1>5. Placed' = Placed
  BY Zenon, <1>b, <1>c, PlacedSame
<1>6. ChainInv'
  <2>1. \A q \in Completers : q # p => ChainInv!(q)'
    BY ZenonT(30), <1>b, <1>e, ChainOthers
  <2>2. ChainInv!(p) /\ chain' = chain
    BY Zenon, <1>a, <1>b DEF ChainInv
  <2>3. ChainInv!(p)'
    BY Zenon, <1>b, <1>c, <1>e, <1>f, <1>g, <1>h, <2>2 DEF WakePCs, RunPCs, BodyPCs
  <2> QED BY Zenon, <2>1, <2>3 DEF ChainInv
<1>7. NodeInv'
  <2>1. \A n \in Nodes : pc'[n] = pc[n]
    BY Zenon, <1>d, <1>e, Kinds DEF Only
  <2>2. pc[k] \notin {"idle", "check", "push"}
    BY Zenon, <1>a, <1>g DEF NodeInv
  <2> QED BY ZenonT(40), <1>a, <1>b, <1>h, <1>5, <2>1, <2>2 DEF NodeInv
<1>8. GetterInv'
  <2>1. \A h \in Getters : pc'[h] = pc[h] /\ h # k
    BY Zenon, <1>d, <1>e, <1>g, Kinds DEF Only, Nodes
  <2> QED BY Zenon, <1>a, <1>b, <1>c, <1>h, <1>5, <2>1 DEF GetterInv
<1>9. ContInv'
  <2>1. \A j \in Conts : pc'[j] = pc[j] /\ cur'[j] = cur[j]
    BY Zenon, <1>d, <1>e, <1>h, Kinds DEF Only, Nodes
  <2> QED BY Zenon, <1>a, <1>b, <1>c, <1>h, <1>5, <2>1 DEF ContInv
<1> QED BY Zenon, <1>1, <1>2, <1>3, <1>4, <1>6, <1>7, <1>8, <1>9 DEF IInv

(* lockless_treiber_stack_release: a node keeps the references of its other *)
(* holders and is freed with the last.                                      *)
LEMMA Drop ==
  ASSUME TypeOK, NEW n \in Nodes, NEW c \in {1, 2}, c <= nodeRefs[n], DropNode(n, c)
  PROVE  /\ nodeRefs' \in [Nodes -> 0..2] /\ nodeRefs'[n] = nodeRefs[n] - c
         /\ \A m \in Nodes : m # n => nodeRefs'[m] = nodeRefs[m]
         /\ nodeRefs[n] = c => nodeRefs'[n] = 0 /\ nodeFreed' = nodeFreed \cup {n}
         /\ nodeRefs[n] # c => nodeFreed' = nodeFreed
         /\ nodeFreed' \subseteq Nodes
<1>1. nodeRefs \in [Nodes -> 0..2] /\ nodeFreed \subseteq Nodes
  BY Zenon DEF TypeOK
<1>2. nodeRefs' = [nodeRefs EXCEPT ![n] = @ - c]
  BY Zenon DEF DropNode
<1>3. nodeRefs' \in [Nodes -> 0..2] /\ nodeRefs'[n] = nodeRefs[n] - c
  BY <1>1, <1>2
<1>4. nodeRefs[n] = c => nodeRefs'[n] = 0
  BY <1>1, <1>3
<1>5. \A m \in Nodes : m # n => nodeRefs'[m] = nodeRefs[m]
  BY Zenon, <1>1, <1>2
<1> QED BY Zenon, <1>1, <1>3, <1>4, <1>5 DEF DropNode

(* The winner lets go of the node at the head of its chain.                 *)
LEMMA DrainUnrefInv ==
  ASSUME IInv, NEW p \in Completers, UnrefWaiter(p) \/ UnrefCont(p)
  PROVE  IInv'
<1>a. /\ TypeOK /\ RaceInv /\ StackInv /\ ChainInv /\ NodeInv /\ GetterInv /\ ContInv
  BY Zenon DEF IInv
<1>b. /\ UNCHANGED <<flagVars, stackVars, refVars, claimed, signals, envVars, history>>
      /\ chain' = [chain EXCEPT ![p] = Tail(@)] /\ DropNode(Head(chain[p]), 1)
      /\ pc[p] \in {"unref_waiter", "unref_cont"}
      /\ pc[p] \in WakePCs \cup RunPCs /\ pc[p] \in DrainPCs
  BY Zenon DEF UnrefWaiter, UnrefCont, WakePCs, RunPCs, DrainPCs
<1>c. /\ completed' = completed /\ ready' = ready /\ winner' = winner /\ ran' = ran
      /\ conts' = conts /\ waiters' = waiters /\ contsClosed' = contsClosed
      /\ waitersClosed' = waitersClosed
  BY Zenon, <1>b DEF flagVars, stackVars, history
<1>d. /\ p \in Procs /\ p \notin Nodes
      /\ \A q \in Completers : q # p => pc[q] \notin DrainPCs /\ chain[q] = <<>>
      /\ Placed = Range(conts) \cup Range(waiters) \cup Range(chain[p])
  BY Zenon, <1>b, Winner
<1>e. PICK h \in Nodes : h = Head(chain[p])
  BY Zenon, <1>b, AtHead DEF Nodes
<1>f. /\ chain[p] \in Seq(Nodes) /\ chain[p] # <<>> /\ h \in Range(chain[p]) /\ h \in Placed
      /\ Range(Tail(chain[p])) = Range(chain[p]) \ {h} /\ IsInjective(Tail(chain[p]))
      /\ Tail(chain[p]) \in Seq(Nodes) /\ waiters = <<>>
      /\ pc[p] = "unref_waiter" => h \in Getters
      /\ pc[p] = "unref_cont" => h \in Conts /\ conts = <<>>
  BY Zenon, <1>b, <1>e, AtHead DEF WakePCs, RunPCs, BodyPCs
<1>g. /\ chain'[p] = Tail(chain[p]) /\ \A q \in Completers : q # p => chain'[q] = chain[q]
  BY Zenon, <1>a, <1>b DEF TypeOK
<1>h. Tail(chain[p]) = <<>> <=> Len(chain[p]) = 1
  <2>1. PICK s \in Seq(Nodes) : s = chain[p]
    BY Zenon, <1>f
  <2>2. \A t \in Seq(Nodes) : t = <<>> <=> Len(t) = 0
    OBVIOUS
  <2>3. s # <<>> => Len(Tail(s)) = Len(s) - 1 /\ Len(s) \in Nat
    OBVIOUS
  <2>4. Tail(s) = <<>> <=> Len(Tail(s)) = 0
    BY Zenon, <1>f, <2>1, <2>2
  <2>5. Len(Tail(s)) = 0 <=> Len(s) = 1
    BY <1>f, <2>1, <2>3
  <2> QED BY Zenon, <2>1, <2>4, <2>5
<1>i. /\ pc'[p] = IF Tail(chain[p]) = <<>>
                    THEN IF pc[p] = "unref_waiter" THEN "steal_conts" ELSE AfterComplete(p)
                    ELSE IF pc[p] = "unref_waiter" THEN "wake" ELSE "take_cont"
      /\ Only(p) /\ DOMAIN pc' = Procs /\ \A q \in Procs : pc'[q] \in PCs(q)
  <2>1. "wake" \in PCs(p) /\ "steal_conts" \in PCs(p) /\ "take_cont" \in PCs(p)
        /\ AfterComplete(p) \in PCs(p)
    BY Zenon, Labels DEF Completers, DrainPCs, WakePCs, RunPCs, AfterComplete
  <2> QED BY Zenon, <1>a, <1>d, <1>h, <2>1, Goes DEF UnrefWaiter, UnrefCont
<1>j. /\ pc'[p] \in {"wake", "steal_conts", "take_cont", "done", "release"}
      /\ pc[p] = "unref_waiter" => pc'[p] \in {"wake", "steal_conts"}
      /\ pc[p] = "unref_cont" => pc'[p] \in {"take_cont", "done", "release"}
      /\ Tail(chain[p]) # <<>> <=> pc'[p] \in {"wake", "take_cont"}
  BY Zenon, <1>b, <1>i DEF AfterComplete
<1>k. /\ nodeRefs' \in [Nodes -> 0..2] /\ nodeRefs'[h] = nodeRefs[h] - 1
      /\ \A m \in Nodes : m # h => nodeRefs'[m] = nodeRefs[m]
      /\ nodeRefs[h] = 1 => nodeRefs'[h] = 0 /\ nodeFreed' = nodeFreed \cup {h}
      /\ nodeRefs[h] # 1 => nodeFreed' = nodeFreed
      /\ nodeFreed' \subseteq Nodes
  <2>1. 1 <= nodeRefs[h] /\ 1 \in {1, 2}
    BY <1>a, <1>f DEF NodeInv
  <2> QED BY Zenon, <1>a, <1>b, <1>e, <2>1, Drop
<1>l. cur' \in [Procs -> Conts \cup {"none"}] /\ \A q \in Procs : q # p => cur'[q] = cur[q]
  BY Zenon, <1>a DEF TypeOK, UnrefWaiter, UnrefCont
<1>1. TypeOK'
  <2>1. ProcsOK' /\ NodesOK'
    BY Zenon, <1>a, <1>b, <1>f, <1>i, <1>k, <1>l DEF TypeOK, ProcsOK, NodesOK
  <2> QED BY Zenon, <1>a, <1>b, <2>1, Types, SameTypes
<1>2. RaceInv'
  BY Zenon, <1>a, <1>b, <1>c, <1>i, <1>j, RaceFrame
  DEF DrainPCs, WakePCs, RunPCs, BodyPCs, Unready, Unwoken, Unstolen
<1>3. PromiseInv' /\ RefInv' /\ ResultInv' /\ ValueInv' /\ SawInv'
  BY Zenon, <1>b, <1>i, DrainFrame
<1>4. StackInv'
  BY Zenon, <1>a, <1>b, <1>c, StackFrame
<1>5. Placed' = Placed \ {h}
  <2>1. h \notin Range(conts)
    <3>1. Range(conts) \subseteq Conts
      BY <1>a DEF TypeOK, Range
    <3> QED BY Zenon, <1>b, <1>f, <3>1, Kinds, EmptyElements
  <2>2. Range(waiters) = {}
    BY Zenon, <1>f, EmptyElements
  <2>3. Placed' = Range(conts) \cup Range(waiters) \cup Range(Tail(chain[p]))
    BY Zenon, <1>c, <1>d, <1>g, PlacedNext
  <2> QED BY Zenon, <1>d, <1>f, <2>1, <2>2, <2>3
<1>6. ChainInv'
  <2>1. \A q \in Completers : q # p => ChainInv!(q)'
    BY ZenonT(40), <1>b, <1>g, <1>i, ChainOthers
  <2>2. ChainInv!(p) /\ claimed' = claimed
    BY Zenon, <1>a, <1>b DEF ChainInv
  <2>3. Tail(chain[p]) # <<>> => Head(Tail(chain[p])) \in Range(Tail(chain[p]))
    BY Zenon, <1>f, TailElements
  <2>4. \A n \in Range(Tail(chain[p])) : n \notin claimed
    BY Zenon, <1>e, <1>f, <2>2
  <2>5. /\ pc'[p] \in WakePCs => Range(Tail(chain[p])) \subseteq Getters
        /\ pc'[p] \in RunPCs => Range(Tail(chain[p])) \subseteq Conts
    BY Zenon, <1>b, <1>f, <1>j, <2>2 DEF WakePCs, RunPCs, BodyPCs
  <2>6. ChainInv!(p)'
    BY Zenon, <1>f, <1>g, <1>j, <2>2, <2>3, <2>4, <2>5 DEF WakePCs, RunPCs, BodyPCs
  <2> QED BY Zenon, <2>1, <2>6 DEF ChainInv
<1>m. \A n \in Nodes : pc'[n] = pc[n] /\ cur'[n] = cur[n]
  BY Zenon, <1>d, <1>i, <1>l, Kinds DEF Only
<1>7. NodeInv'
  <2> SUFFICES ASSUME NEW n \in Nodes PROVE NodeInv!(n)'
    BY Zenon DEF NodeInv
  <2>1. NodeInv!(n) /\ claimed' = claimed
    BY Zenon, <1>a, <1>b DEF NodeInv
  <2>2. CASE n # h
    BY Zenon, <1>k, <1>m, <1>5, <2>1, <2>2
  <2>3. CASE n = h
    <3>1. CASE pc[n] \in {"wait", "unref"}
      BY <1>f, <1>k, <1>m, <1>5, <2>1, <2>3, <3>1 DEF BodyPCs
    <3>2. CASE pc[n] \notin {"wait", "unref"}
      BY <1>f, <1>k, <1>m, <1>5, <2>1, <2>3, <3>2 DEF BodyPCs
    <3> QED BY Zenon, <3>1, <3>2
  <2> QED BY Zenon, <2>2, <2>3
<1>8. GetterInv'
  BY Zenon, <1>a, <1>b, <1>c, <1>m, <1>5 DEF GetterInv, Nodes
<1>9. ContInv'
  <2>1. h \in Conts => ran[h] = 1
    BY Zenon, <1>a, <1>b, <1>e, <1>f, Kinds DEF ChainInv
  <2>2. \A k \in Conts : /\ k # h => (k \in nodeFreed' <=> k \in nodeFreed)
                         /\ k # h => (k \in Placed' <=> k \in Placed)
                         /\ k \in Placed' => k # h
                         /\ pc'[k] = pc[k] /\ cur'[k] = cur[k]
    BY Zenon, <1>k, <1>m, <1>5 DEF Nodes
  <2>3. pc[h] \notin {"idle", "check", "push", "run"}
    BY Zenon, <1>a, <1>f DEF NodeInv
  <2> QED BY Zenon, <1>a, <1>b, <1>c, <2>1, <2>2, <2>3 DEF ContInv
<1> QED BY Zenon, <1>1, <1>2, <1>3, <1>4, <1>6, <1>7, <1>8, <1>9 DEF IInv

-----------------------------------------------------------------------------
(* A continuation's body, in the winner's drain or inline: it runs the      *)
(* continuation it was handed, for the first time, on a ready future.       *)
LEMMA Body ==
  ASSUME IInv, NEW p \in Procs, pc[p] \in BodyPCs
  PROVE  /\ p \in Completers \/ p \in Conts
         /\ p \notin Getters /\ p # "none" /\ cur[p] \in Conts /\ ready /\ ~freed
         /\ p \in Completers => /\ pc[p] \in DrainPCs /\ pc[p] \in RunPCs
                                /\ cur[p] = Head(chain[p])
                                /\ cur[p] \in Placed /\ cur[p] \in claimed
         /\ p \in Conts => cur[p] = p /\ p \notin Placed /\ p \notin Completers
         /\ pc[p] = "run" => ran[cur[p]] = 0
         /\ pc[p] # "run" => ran[cur[p]] = 1
         /\ AfterRun(p) \in PCs(p) /\ BodyPCs \subseteq PCs(p)
         /\ winner # "none" /\ pc[winner] # "publish"
<1>a. TypeOK /\ RaceInv /\ ChainInv /\ NodeInv /\ ContInv /\ ResultInv
  BY Zenon DEF IInv
<1>1. /\ pc[p] \notin {"idle", "done"} /\ pc[p] \in RunPCs /\ pc[p] \notin WakePCs
      /\ pc[p] \in DrainPCs
  BY DEF BodyPCs, RunPCs, DrainPCs, WakePCs
<1>2. p \notin Getters
  BY Zenon, <1>a, Labels DEF TypeOK, BodyPCs
<1>3. (p \in Completers \/ p \in Conts) /\ p # "none" /\ (p \in Conts => p \notin Completers)
  BY Zenon, <1>2, Kinds DEF Nodes
<1>4. ready /\ ~freed
  BY Zenon, <1>a, <1>1, Alive DEF ResultInv
<1>5. winner # "none" /\ pc[winner] # "publish"
  BY Zenon, <1>a, <1>4 DEF RaceInv, Before, Unready
<1>6. p \in Completers => /\ cur[p] = Head(chain[p]) /\ Head(chain[p]) \in Conts
                          /\ cur[p] \in Placed /\ cur[p] \in claimed
  BY Zenon, <1>a, <1>1, AtHead DEF ChainInv
<1>7. p \in Conts => cur[p] = p /\ p \notin Placed
  <2>1. pc[p] \notin {"wait", "unref", "read", "release", "done"}
    BY DEF BodyPCs
  <2> QED BY Zenon, <1>a, <2>1 DEF ContInv, NodeInv, Nodes
<1>8. /\ pc[p] = "run" => ran[cur[p]] = 0
      /\ pc[p] # "run" => ran[cur[p]] = 1
  BY Zenon, <1>a, <1>3, <1>6, <1>7 DEF ChainInv, ContInv, BodyPCs
<1>9. AfterRun(p) \in PCs(p) /\ BodyPCs \subseteq PCs(p)
  BY Zenon, <1>3, Labels DEF AfterRun, Completers, DrainPCs, RunPCs
<1> QED BY Zenon, <1>1, <1>2, <1>3, <1>4, <1>5, <1>6, <1>7, <1>8, <1>9

LEMMA BodyFrame ==
  ASSUME IInv, NEW p \in Procs, pc[p] \in BodyPCs, Only(p),
         pc'[p] \in {"consume", "move", "zero", AfterRun(p)},
         UNCHANGED <<stackVars, refVars, nodeVars, chain, cur>>,
         fulfilled' = fulfilled, completed' = completed, ready' = ready, winner' = winner,
         ran'[cur[p]] = 1, \A k \in Conts : k # cur[p] => ran'[k] = ran[k]
  PROVE  /\ RaceInv' /\ PromiseInv' /\ RefInv' /\ StackInv' /\ ChainInv' /\ NodeInv'
         /\ GetterInv' /\ ContInv'
<1>a. /\ TypeOK /\ RaceInv /\ PromiseInv /\ RefInv /\ StackInv /\ ChainInv /\ NodeInv
      /\ GetterInv /\ ContInv
  BY Zenon DEF IInv
<1>b. /\ conts' = conts /\ contsClosed' = contsClosed /\ waiters' = waiters
      /\ waitersClosed' = waitersClosed /\ nodeRefs' = nodeRefs /\ nodeFreed' = nodeFreed
      /\ claimed' = claimed /\ signals' = signals /\ refs' = refs /\ holders' = holders
      /\ freed' = freed /\ chain' = chain /\ cur' = cur
  BY Zenon DEF stackVars, refVars, nodeVars
<1>c. /\ p \in Completers \/ p \in Conts
      /\ p \notin Getters /\ cur[p] \in Conts
      /\ p \in Completers => /\ pc[p] \in DrainPCs /\ pc[p] \in RunPCs
                             /\ cur[p] = Head(chain[p])
                             /\ cur[p] \in Placed /\ cur[p] \in claimed
      /\ p \in Conts => cur[p] = p /\ p \notin Placed /\ p \notin Completers
  BY Zenon, Body
<1>d. /\ pc'[p] \in {"consume", "move", "zero", "unref_cont", "discard"}
      /\ p \in Completers => pc'[p] # "discard"
      /\ p \in Conts => pc'[p] # "unref_cont"
      /\ pc[p] \in {"run", "consume", "move", "zero"}
  BY Zenon, <1>c DEF AfterRun, BodyPCs
<1>e. Placed' = Placed
  BY Zenon, <1>b, PlacedSame
<1>1. RaceInv'
  <2>1. p \in Completers => pc'[p] \in RunPCs /\ pc'[p] \in DrainPCs
    BY Zenon, <1>d DEF RunPCs, BodyPCs, DrainPCs
  <2>2. /\ pc'[p] \notin Unready /\ pc'[p] \notin Unwoken /\ pc'[p] \notin Unstolen
        /\ pc[p] \notin Unready /\ pc[p] \notin Unwoken /\ pc[p] \notin Unstolen
    BY Zenon, <1>d DEF Unready, Unwoken, Unstolen, WakePCs
  <2> QED BY Zenon, <1>a, <1>b, <1>c, <1>d, <2>1, <2>2, RaceFrame
<1>2. PromiseInv' /\ RefInv'
  BY Zenon, <1>a, <1>b, <1>c, <1>d, PromiseFrame, RefFrame
<1>3. StackInv'
  BY Zenon, <1>a, <1>b, StackFrame
<1>4. ChainInv'
  <2> SUFFICES ASSUME NEW q \in Completers PROVE ChainInv!(q)'
    BY Zenon DEF ChainInv
  <2>1. ChainInv!(q) /\ q \in Procs
    BY Zenon, <1>a DEF ChainInv, Procs
  <2>2. CASE q = p
    <3>1. pc'[p] \in RunPCs /\ pc'[p] \notin WakePCs /\ pc'[p] \notin {"wake", "take_cont", "run"}
          /\ (pc'[p] \in BodyPCs => pc[p] \in BodyPCs)
      BY Zenon, <1>d, <2>2 DEF RunPCs, BodyPCs, WakePCs
    <3> QED BY Zenon, <1>b, <1>c, <2>1, <2>2, <3>1
  <2>3. CASE q # p
    <3>1. pc[q] \in RunPCs => Head(chain[q]) \in Conts /\ Head(chain[q]) # cur[p]
      <4>1. p \in Completers => pc[q] \notin DrainPCs
        BY Zenon, <1>c, <2>3, Winner
      <4>2. pc[q] \in RunPCs => pc[q] \notin WakePCs /\ pc[q] \in DrainPCs
        BY Zenon DEF WakePCs, RunPCs, BodyPCs, DrainPCs
      <4> QED BY Zenon, <1>c, <4>1, <4>2, AtHead
    <3>2. pc[q] \in {"run", "consume", "move", "zero", "unref_cont"} => pc[q] \in RunPCs
      BY Zenon DEF RunPCs, BodyPCs
    <3>3. pc'[q] = pc[q]
      BY Zenon, <2>1, <2>3 DEF Only
    <3> QED BY Zenon, <1>b, <2>1, <3>1, <3>2, <3>3
  <2> QED BY Zenon, <2>2, <2>3
<1>5. NodeInv' /\ GetterInv'
  BY Zenon, <1>a, <1>b, <1>c, <1>d, <1>e, Kinds, NodeFrame, GetterFrame DEF Nodes, BodyPCs
<1>6. ContInv'
  <2> SUFFICES ASSUME NEW k \in Conts PROVE ContInv!(k)'
    BY Zenon DEF ContInv
  <2>1. ContInv!(k) /\ k \in Procs
    BY Zenon, <1>a DEF ContInv, Procs
  <2>2. CASE k = p
    BY Zenon, <1>b, <1>c, <1>d, <1>e, <2>1, <2>2
  <2>3. CASE k # p /\ k = cur[p]
    <3>1. p \in Completers /\ k \in Placed /\ k \in claimed
      BY Zenon, <1>c, <2>3
    <3>2. pc[k] \in {"wait", "unref", "read", "release", "done"}
      BY Zenon, <1>a, <3>1 DEF NodeInv, Nodes
    <3>3. pc'[k] = pc[k]
      BY Zenon, <2>1, <2>3 DEF Only
    <3> QED BY Zenon, <1>b, <1>e, <2>1, <2>3, <3>1, <3>2, <3>3
  <2>4. CASE k # p /\ k # cur[p]
    <3>1. pc'[k] = pc[k] /\ ran'[k] = ran[k]
      BY Zenon, <2>1, <2>4 DEF Only
    <3> QED BY Zenon, <1>b, <1>e, <2>1, <3>1
  <2> QED BY Zenon, <2>2, <2>3, <2>4
<1> QED BY Zenon, <1>1, <1>2, <1>3, <1>4, <1>5, <1>6

(* The published result is a value exactly when that value won.             *)
LEMMA PublishedValue ==
  ASSUME TypeOK, NEW v \in Values
  PROVE  winner = v <=> Published = v
<1>1. v \notin {EPIPE, ECANCELED, Zero, "none"}
  BY Zenon, FutureAssumption
<1> QED BY Zenon, <1>1 DEF Published, ResultOf

(* The continuation reads the result.                                       *)
LEMMA RunContInv ==
  ASSUME IInv, NEW p \in Procs, RunCont(p)
  PROVE  IInv'
<1>a. TypeOK /\ RaceInv /\ ResultInv /\ ValueInv /\ SawInv
  BY Zenon DEF IInv
<1>b. /\ UNCHANGED <<flagVars, stackVars, refVars, nodeVars, envVars, chain, cur, winner,
                     disposed>>
      /\ pc[p] = "run" /\ pc[p] \in BodyPCs
      /\ ran' = [ran EXCEPT ![cur[p]] = @ + 1] /\ saw' = [saw EXCEPT ![cur[p]] = result]
  BY Zenon DEF RunCont, BodyPCs
<1>c. /\ fulfilled' = fulfilled /\ completed' = completed /\ consumed' = consumed
      /\ ready' = ready /\ result' = result /\ freed' = freed
  BY Zenon, <1>b DEF flagVars, refVars
<1>d. /\ cur[p] \in Conts /\ cur[p] \in Nodes /\ ready /\ ran[cur[p]] = 0
      /\ AfterRun(p) \in PCs(p) /\ BodyPCs \subseteq PCs(p)
      /\ winner # "none" /\ pc[winner] # "publish"
  BY Zenon, <1>b, Body DEF Nodes
<1>e. /\ pc'[p] \in {"consume", AfterRun(p)} /\ Only(p)
      /\ DOMAIN pc' = Procs /\ \A q \in Procs : pc'[q] \in PCs(q)
  <2>1. PICK l \in {"consume", AfterRun(p)} : Goto(p, l)
    BY Zenon DEF RunCont
  <2> QED BY Zenon, <1>a, <1>d, <2>1, Goes DEF BodyPCs
<1>f. /\ ran' \in [Conts -> Nat] /\ ran'[cur[p]] = 1
      /\ \A k \in Conts : k # cur[p] => ran'[k] = ran[k]
  <2>1. ran \in [Conts -> Nat]
    BY Zenon, <1>a DEF TypeOK
  <2> QED BY <1>b, <1>d, <2>1
<1>1. TypeOK'
  <2>1. ProcsOK' /\ HistoryOK'
    BY Zenon, <1>a, <1>b, <1>d, <1>e, <1>f DEF TypeOK, ProcsOK, HistoryOK
  <2> QED BY Zenon, <1>a, <1>b, <2>1, Types, SameTypes
<1>2. /\ RaceInv' /\ PromiseInv' /\ RefInv' /\ StackInv' /\ ChainInv' /\ NodeInv'
      /\ GetterInv' /\ ContInv'
  BY Zenon, <1>b, <1>c, <1>e, <1>f, BodyFrame
<1>g. pc'[p] \in {"consume", "unref_cont", "discard"}
  BY Zenon, <1>e DEF AfterRun
<1>3. ResultInv' /\ ValueInv'
  BY Zenon, <1>a, <1>b, <1>c, <1>d, <1>e, <1>g, ResultFrame, ValueFrame DEF Moving
<1>4. SawInv'
  <2>1. result = Published \/ (result = Zero /\ consumed)
    BY Zenon, <1>a, <1>d DEF ResultInv, Before
  <2>2. /\ saw'[cur[p]] = result /\ \A n \in Nodes : n # cur[p] => saw'[n] = saw[n]
    BY Zenon, <1>a, <1>b, <1>d DEF TypeOK
  <2>3. Published' = Published
    BY Zenon, <1>b DEF Published, ResultOf
  <2> QED BY Zenon, <1>a, <1>c, <1>d, <2>1, <2>2, <2>3 DEF SawInv, DeliversWinner
<1> QED BY Zenon, <1>1, <1>2, <1>3, <1>4 DEF IInv

(* sConsumeOnce lets one mover through.                                     *)
LEMMA ConsumeOnceInv ==
  ASSUME IInv, NEW p \in Procs, ConsumeOnce(p)
  PROVE  IInv'
<1>a. TypeOK /\ RaceInv /\ ResultInv /\ ValueInv /\ SawInv
  BY Zenon DEF IInv
<1>b. /\ UNCHANGED <<fulfilled, completed, ready, result, stackVars, refVars, nodeVars,
                     envVars, chain, cur, history>>
      /\ pc[p] = "consume" /\ pc[p] \in BodyPCs /\ consumed' = TRUE
  BY Zenon DEF ConsumeOnce, BodyPCs
<1>c. /\ winner' = winner /\ ran' = ran /\ saw' = saw /\ disposed' = disposed /\ freed' = freed
  BY Zenon, <1>b DEF history, refVars
<1>d. /\ cur[p] \in Conts /\ ready /\ ~freed /\ ran[cur[p]] = 1
      /\ AfterRun(p) \in PCs(p) /\ BodyPCs \subseteq PCs(p)
      /\ winner # "none" /\ pc[winner] # "publish"
      /\ p \in Completers => pc[p] \in DrainPCs
  BY Zenon, <1>b, Body
<1>e. /\ pc'[p] = IF consumed THEN AfterRun(p) ELSE "move"
      /\ Only(p) /\ DOMAIN pc' = Procs /\ \A q \in Procs : pc'[q] \in PCs(q)
  BY Zenon, <1>a, <1>d, Goes DEF ConsumeOnce, BodyPCs
<1>g. pc'[p] \in {"move", "unref_cont", "discard"} /\ (pc'[p] = "move" <=> ~consumed)
  BY Zenon, <1>e DEF AfterRun
<1>1. TypeOK'
  <2>1. ProcsOK' /\ FlagsOK' /\ result' \in Results
    BY Zenon, <1>a, <1>b, <1>e DEF TypeOK, ProcsOK, FlagsOK
  <2> QED BY Zenon, <1>a, <1>b, <2>1, Types, SameTypes
<1>2. /\ RaceInv' /\ PromiseInv' /\ RefInv' /\ StackInv' /\ ChainInv' /\ NodeInv'
      /\ GetterInv' /\ ContInv'
  BY Zenon, <1>b, <1>c, <1>d, <1>e, BodyFrame
<1>3. SawInv'
  BY Zenon, <1>a, <1>b, <1>c, SawFrame
<1>4. CASE consumed
  BY Zenon, <1>a, <1>b, <1>c, <1>d, <1>e, <1>g, <1>1, <1>2, <1>3, <1>4, ResultFrame, ValueFrame
  DEF Moving, IInv
<1>5. CASE ~consumed
  <2>1. \A q \in Procs : ~Moving(q)
    BY Zenon, <1>a, <1>5 DEF ResultInv
  <2>2. Moving(p)' /\ \A q \in Procs : q # p => ~Moving(q)'
    BY Zenon, <1>e, <1>5, <2>1 DEF Moving, Only
  <2>3. result = Published /\ Published' = Published
    BY Zenon, <1>a, <1>c, <1>d, <1>5 DEF ResultInv, Before, Published, ResultOf
  <2>4. ~Before({"publish"})'
    BY Zenon, <1>a, <1>b, <1>c, <1>d, <1>e, <1>5 DEF Before, Only, TypeOK, Procs
  <2>5. ResultInv'
    BY Zenon, <1>b, <1>d, <2>2, <2>3, <2>4 DEF ResultInv
  <2>6. ValueInv'
    <3> SUFFICES ASSUME NEW v \in Owned PROVE ValueInv!(v)'
      BY Zenon DEF ValueInv
    <3>1. ValueInv!(v) /\ v \in Procs
      BY Zenon, <1>a DEF ValueInv, Owned, Procs, Completers
    <3>2. pc'[v] \in {"idle", "claim"} <=> pc[v] \in {"idle", "claim"}
      BY Zenon, <1>b, <1>e, <1>g, <3>1 DEF Only
    <3> QED BY Zenon, <1>c, <1>d, <1>e, <1>5, <3>1, <3>2
  <2> QED BY Zenon, <1>1, <1>2, <1>3, <2>5, <2>6 DEF IInv
<1> QED BY Zenon, <1>4, <1>5

(* The mover hands the winner's value on ...                                *)
LEMMA MoveInv ==
  ASSUME IInv, NEW p \in Procs, Move(p)
  PROVE  IInv'
<1>a. TypeOK /\ RaceInv /\ ResultInv /\ ValueInv /\ SawInv
  BY Zenon DEF IInv
<1>b. /\ UNCHANGED <<flagVars, stackVars, refVars, nodeVars, envVars, chain, cur, winner, ran,
                     saw>>
      /\ pc[p] = "move" /\ pc[p] \in BodyPCs /\ Dispose(result)
  BY Zenon DEF Move, BodyPCs
<1>c. /\ fulfilled' = fulfilled /\ completed' = completed /\ consumed' = consumed
      /\ ready' = ready /\ result' = result /\ freed' = freed
  BY Zenon, <1>b DEF flagVars, refVars
<1>d. /\ cur[p] \in Conts /\ ready /\ ~freed /\ ran[cur[p]] = 1
      /\ BodyPCs \subseteq PCs(p)
      /\ winner # "none" /\ pc[winner] # "publish"
  BY Zenon, <1>b, Body
<1>e. /\ pc'[p] = "zero" /\ Only(p)
      /\ DOMAIN pc' = Procs /\ \A q \in Procs : pc'[q] \in PCs(q)
  BY Zenon, <1>a, <1>d, Goes DEF Move, BodyPCs
<1>f. /\ disposed' \in [Values -> Nat]
      /\ \A v \in Values : v # result => disposed'[v] = disposed[v]
      /\ result \in Owned => disposed'[result] = disposed[result] + 1
  BY Zenon, <1>a, <1>b, Disposal
<1>1. TypeOK'
  <2>1. ProcsOK' /\ HistoryOK'
    BY Zenon, <1>a, <1>b, <1>e, <1>f DEF TypeOK, ProcsOK, HistoryOK
  <2> QED BY Zenon, <1>a, <1>b, <2>1, Types, SameTypes
<1>2. /\ RaceInv' /\ PromiseInv' /\ RefInv' /\ StackInv' /\ ChainInv' /\ NodeInv'
      /\ GetterInv' /\ ContInv'
  BY Zenon, <1>b, <1>c, <1>d, <1>e, BodyFrame
<1>3. SawInv'
  BY Zenon, <1>a, <1>b, <1>c, SawFrame
<1>g. \A q \in Procs : Moving(q)' <=> Moving(q)
  BY Zenon, <1>b, <1>e DEF Moving, Only
<1>h. Moving(p) /\ consumed /\ result = Published
  BY Zenon, <1>a, <1>b, <1>d DEF ResultInv, Moving, Before
<1>4. ResultInv'
  <2>1. Before({"publish"})' <=> Before({"publish"})
    BY Zenon, <1>a, <1>b, <1>d, <1>e DEF Before, Only, TypeOK, Procs
  <2>2. Published' = Published
    BY Zenon, <1>b DEF Published, ResultOf
  <2>3. \A q \in Procs : pc'[q] \in BodyPCs => ready
    BY Zenon, <1>d
  <2> QED BY Zenon, <1>a, <1>c, <1>g, <2>1, <2>2, <2>3 DEF ResultInv
<1>5. ValueInv'
  <2> SUFFICES ASSUME NEW v \in Owned PROVE ValueInv!(v)'
    BY Zenon DEF ValueInv
  <2>1. ValueInv!(v) /\ v \in Procs /\ v \in Values
    BY Zenon, <1>a DEF ValueInv, Owned, Procs, Completers
  <2>2. pc'[v] \in {"idle", "claim"} <=> pc[v] \in {"idle", "claim"}
    BY Zenon, <1>b, <1>e, <2>1 DEF Only
  <2>3. winner = v <=> result = v
    BY Zenon, <1>a, <1>h, <2>1, PublishedValue
  <2>4. \A q \in Procs : pc'[q] # "move"
    BY Zenon, <1>a, <1>b, <1>e DEF ResultInv, Moving, Only
  <2>5. CASE winner # v
    BY Zenon, <1>b, <1>f, <2>1, <2>2, <2>3, <2>5
  <2>6. CASE winner = v
    <3>1. disposed[v] = 0 /\ pc[v] \notin {"idle", "claim"}
      BY Zenon, <1>a, <1>b, <1>d, <2>1, <2>6 DEF RaceInv, Completers
    <3>2. disposed'[v] = 1
      BY <1>f, <2>3, <2>6, <3>1
    <3> QED BY Zenon, <1>b, <1>c, <1>h, <2>2, <2>4, <2>6, <3>1, <3>2
  <2> QED BY Zenon, <2>5, <2>6
<1> QED BY Zenon, <1>1, <1>2, <1>3, <1>4, <1>5 DEF IInv

(* ... and leaves a zero behind.                                            *)
LEMMA ZeroResultInv ==
  ASSUME IInv, NEW p \in Procs, ZeroResult(p)
  PROVE  IInv'
<1>a. TypeOK /\ RaceInv /\ ResultInv /\ ValueInv /\ SawInv
  BY Zenon DEF IInv
<1>b. /\ UNCHANGED <<fulfilled, completed, consumed, ready, stackVars, refVars, nodeVars,
                     envVars, chain, cur, history>>
      /\ pc[p] = "zero" /\ pc[p] \in BodyPCs /\ result' = Zero
  BY Zenon DEF ZeroResult, BodyPCs
<1>c. /\ winner' = winner /\ ran' = ran /\ saw' = saw /\ disposed' = disposed /\ freed' = freed
  BY Zenon, <1>b DEF history, refVars
<1>d. /\ cur[p] \in Conts /\ ready /\ ran[cur[p]] = 1 /\ AfterRun(p) \in PCs(p)
      /\ winner # "none" /\ pc[winner] # "publish"
  BY Zenon, <1>b, Body
<1>e. /\ pc'[p] = AfterRun(p) /\ Only(p)
      /\ DOMAIN pc' = Procs /\ \A q \in Procs : pc'[q] \in PCs(q)
  BY Zenon, <1>a, <1>d, Goes DEF ZeroResult
<1>g. pc'[p] \in {"unref_cont", "discard"}
  BY Zenon, <1>e DEF AfterRun
<1>1. TypeOK'
  <2>1. ProcsOK' /\ FlagsOK' /\ result' \in Results
    BY Zenon, <1>a, <1>b, <1>e DEF TypeOK, ProcsOK, FlagsOK, Results
  <2> QED BY Zenon, <1>a, <1>b, <2>1, Types, SameTypes
<1>2. /\ RaceInv' /\ PromiseInv' /\ RefInv' /\ StackInv' /\ ChainInv' /\ NodeInv'
      /\ GetterInv' /\ ContInv'
  BY Zenon, <1>b, <1>c, <1>d, <1>e, BodyFrame
<1>3. SawInv' /\ ValueInv'
  BY Zenon, <1>a, <1>b, <1>c, <1>e, <1>g, SawFrame, ValueFrame
<1>4. ResultInv'
  <2>1. consumed /\ \A q \in Procs : ~Moving(q)'
    BY Zenon, <1>a, <1>b, <1>e, <1>g DEF ResultInv, Moving, Only
  <2> QED BY Zenon, <1>b, <1>d, <2>1 DEF ResultInv
<1> QED BY Zenon, <1>1, <1>2, <1>3, <1>4 DEF IInv

-----------------------------------------------------------------------------
(* Then and Get.  A client's step touches its own node only.                *)
LEMMA ClientFrame ==
  ASSUME IInv, NEW p \in Nodes, Only(p),
         UNCHANGED <<flagVars, contsClosed, waitersClosed, refVars, chain, claimed, winner,
                     ran, disposed>>,
         \A q \in Completers : cur'[q] = cur[q],
         pc[p] \in {"check", "push", "wait", "unref", "read", "discard"},
         pc'[p] \in {"push", "wait", "unref", "read", "run", "release"},
         pc'[p] = "run" => ready
  PROVE  RaceInv' /\ PromiseInv' /\ RefInv' /\ ChainInv' /\ ResultInv' /\ ValueInv'
<1>a. TypeOK /\ RaceInv /\ PromiseInv /\ RefInv /\ ChainInv /\ ResultInv /\ ValueInv
  BY Zenon DEF IInv
<1>b. /\ fulfilled' = fulfilled /\ completed' = completed /\ consumed' = consumed
      /\ ready' = ready /\ result' = result /\ refs' = refs /\ holders' = holders
      /\ freed' = freed
  BY Zenon DEF flagVars, refVars
<1>c. p \notin Completers /\ p \notin Values /\ p # Owner
  BY Zenon, Kinds DEF Completers
<1>1. RaceInv' /\ PromiseInv' /\ RefInv'
  BY Zenon, <1>a, <1>b, <1>c, RaceFrame, PromiseFrame, RefFrame
<1>2. ChainInv'
  BY Zenon, <1>a, <1>c, ChainFrame
<1>3. ResultInv' /\ ValueInv'
  BY Zenon, <1>a, <1>b, <1>c, ResultFrame, ValueFrame DEF Moving, BodyPCs
<1> QED BY Zenon, <1>1, <1>2, <1>3

LEMMA ClientOthers ==
  ASSUME NodeInv, GetterInv, ContInv, NEW p \in Nodes, Only(p),
         claimed' = claimed, signals' = signals, ready' = ready, ran' = ran,
         \A q \in Procs : q # p => cur'[q] = cur[q],
         \A n \in Nodes : n # p => /\ nodeRefs'[n] = nodeRefs[n]
                                   /\ n \in nodeFreed' <=> n \in nodeFreed
                                   /\ n \in Placed' <=> n \in Placed,
         NodeInv!(p)', p \in Getters => GetterInv!(p)', p \in Conts => ContInv!(p)'
  PROVE  NodeInv' /\ GetterInv' /\ ContInv'
<1>1. \A n \in Nodes : n \in Procs
  BY Zenon DEF Procs, Nodes
<1>2. ASSUME NEW n \in Nodes PROVE NodeInv!(n)'
  <2>1. CASE n # p
    <3>1. NodeInv!(n) /\ pc'[n] = pc[n]
      BY Zenon, <1>1, <2>1 DEF NodeInv, Only
    <3> QED BY Zenon, <2>1, <3>1
  <2> QED BY Zenon, <2>1
<1>3. ASSUME NEW g \in Getters PROVE GetterInv!(g)'
  <2>1. CASE g # p
    BY Zenon, <1>1, <2>1 DEF GetterInv, Only, Nodes
  <2> QED BY Zenon, <2>1
<1>4. ASSUME NEW k \in Conts PROVE ContInv!(k)'
  <2>1. CASE k # p
    BY Zenon, <1>1, <2>1 DEF ContInv, Only, Nodes
  <2> QED BY Zenon, <2>1
<1> QED BY Zenon, <1>2, <1>3, <1>4 DEF NodeInv, GetterInv, ContInv

(* sFutureThen looks whether the future is ready.                           *)
LEMMA ThenCheckInv ==
  ASSUME IInv, NEW k \in Conts, ThenCheck(k)
  PROVE  IInv'
<1>a. TypeOK /\ StackInv /\ NodeInv /\ GetterInv /\ ContInv /\ SawInv
  BY Zenon DEF IInv
<1>b. /\ UNCHANGED <<flagVars, stackVars, refVars, nodeFreed, claimed, signals, envVars, chain,
                     history>>
      /\ pc[k] = "check"
  BY Zenon DEF ThenCheck
<1>c. /\ ready' = ready /\ consumed' = consumed /\ winner' = winner /\ ran' = ran /\ saw' = saw
      /\ disposed' = disposed
      /\ conts' = conts /\ waiters' = waiters /\ contsClosed' = contsClosed
      /\ waitersClosed' = waitersClosed
  BY Zenon, <1>b DEF flagVars, stackVars, history
<1>d. k \in Procs /\ k \in Nodes /\ k \notin Getters /\ k \notin Completers
  BY Zenon, Kinds DEF Nodes
<1>e. /\ pc'[k] \in {"run", "push", "release"} /\ Only(k)
      /\ DOMAIN pc' = Procs /\ \A q \in Procs : pc'[q] \in PCs(q)
      /\ pc'[k] = "run" => ready /\ nodeRefs' = nodeRefs /\ cur' = [cur EXCEPT ![k] = k]
      /\ pc'[k] = "push" => nodeRefs' = [nodeRefs EXCEPT ![k] = 2] /\ cur' = cur
      /\ pc'[k] = "release" => nodeRefs' = nodeRefs /\ cur' = cur
  <2>1. PICK l \in {"run", "push", "release"} :
             /\ Goto(k, l)
             /\ l = "run" => ready /\ nodeRefs' = nodeRefs /\ cur' = [cur EXCEPT ![k] = k]
             /\ l = "push" => nodeRefs' = [nodeRefs EXCEPT ![k] = 2] /\ cur' = cur
             /\ l = "release" => nodeRefs' = nodeRefs /\ cur' = cur
    BY Zenon DEF ThenCheck, IsReady
  <2>2. l \in PCs(k)
    BY Zenon, Labels DEF BodyPCs
  <2>3. pc'[k] = l /\ Only(k) /\ DOMAIN pc' = Procs /\ \A q \in Procs : pc'[q] \in PCs(q)
    BY Zenon, <1>a, <1>d, <2>1, <2>2, Goes
  <2> QED BY Zenon, <2>1, <2>3
<1>f. /\ cur' \in [Procs -> Conts \cup {"none"}] /\ (pc'[k] = "run" => cur'[k] = k)
      /\ \A q \in Procs : q # k => cur'[q] = cur[q]
  <2>1. cur \in [Procs -> Conts \cup {"none"}]
    BY Zenon, <1>a DEF TypeOK
  <2>2. CASE pc'[k] = "run"
    BY Zenon, <1>d, <1>e, <2>1, <2>2
  <2> QED BY Zenon, <1>e, <2>1, <2>2
<1>g. /\ nodeRefs' \in [Nodes -> 0..2] /\ \A n \in Nodes : n # k => nodeRefs'[n] = nodeRefs[n]
      /\ nodeRefs'[k] = IF pc'[k] = "push" THEN 2 ELSE nodeRefs[k]
  <2>1. nodeRefs \in [Nodes -> 0..2]
    BY Zenon, <1>a DEF TypeOK
  <2> QED BY <1>d, <1>e, <2>1
<1>h. Placed' = Placed
  BY Zenon, <1>b, <1>c, PlacedSame
<1>1. TypeOK'
  <2>1. ProcsOK' /\ NodesOK'
    BY Zenon, <1>a, <1>b, <1>e, <1>f, <1>g DEF TypeOK, ProcsOK, NodesOK
  <2> QED BY Zenon, <1>a, <1>b, <2>1, Types, SameTypes
<1>2. RaceInv' /\ PromiseInv' /\ RefInv' /\ ChainInv' /\ ResultInv' /\ ValueInv'
  <2>1. \A q \in Completers : cur'[q] = cur[q]
    BY Zenon, <1>d, <1>f DEF Procs
  <2> QED BY Zenon, <1>b, <1>c, <1>d, <1>e, <2>1, ClientFrame
<1>3. StackInv' /\ SawInv'
  BY Zenon, <1>a, <1>b, <1>c, StackFrame, SawFrame
<1>4. NodeInv' /\ GetterInv' /\ ContInv'
  <2>1. NodeInv!(k) /\ ContInv!(k)
    BY Zenon, <1>a, <1>d DEF NodeInv, ContInv
  <2>2. k \notin Placed /\ nodeRefs[k] = 0 /\ k \notin nodeFreed /\ k \notin claimed /\ ran[k] = 0
    BY Zenon, <1>b, <2>1
  <2>3. NodeInv!(k)'
    BY <1>b, <1>e, <1>g, <1>h, <2>2 DEF BodyPCs
  <2>4. ContInv!(k)'
    BY Zenon, <1>b, <1>c, <1>e, <1>f, <1>h, <2>1, <2>2 DEF BodyPCs
  <2> QED BY Zenon, <1>a, <1>b, <1>c, <1>d, <1>e, <1>f, <1>g, <1>h, <2>3, <2>4, ClientOthers
<1> QED BY Zenon, <1>1, <1>2, <1>3, <1>4 DEF IInv

(* Its push succeeds, or was refused by a stack that is closed for good.    *)
LEMMA ThenPushInv ==
  ASSUME IInv, NEW k \in Conts, ThenPush(k)
  PROVE  IInv'
<1>a. TypeOK /\ RaceInv /\ StackInv /\ NodeInv /\ GetterInv /\ ContInv /\ SawInv
  BY Zenon DEF IInv
<1>b. /\ UNCHANGED <<flagVars, contsClosed, waiters, waitersClosed, refVars, nodeVars, envVars,
                     chain, history>>
      /\ pc[k] = "push"
  BY Zenon DEF ThenPush
<1>c. /\ ready' = ready /\ consumed' = consumed /\ winner' = winner /\ ran' = ran /\ saw' = saw
      /\ disposed' = disposed /\ nodeRefs' = nodeRefs /\ nodeFreed' = nodeFreed
      /\ claimed' = claimed /\ signals' = signals
  BY Zenon, <1>b DEF flagVars, nodeVars, history
<1>d. k \in Procs /\ k \in Nodes /\ k \notin Getters /\ k \notin Completers
  BY Zenon, Kinds DEF Nodes
<1>e. /\ pc'[k] = IF contsClosed THEN "run" ELSE "unref"
      /\ Only(k) /\ DOMAIN pc' = Procs /\ \A q \in Procs : pc'[q] \in PCs(q)
  <2>1. "run" \in PCs(k) /\ "unref" \in PCs(k)
    BY Zenon, Labels DEF BodyPCs
  <2> QED BY Zenon, <1>a, <1>d, <2>1, Goes DEF ThenPush
<1>f. /\ cur' \in [Procs -> Conts \cup {"none"}] /\ (contsClosed => cur'[k] = k)
      /\ \A q \in Procs : q # k => cur'[q] = cur[q]
  BY Zenon, <1>a, <1>d DEF TypeOK, ThenPush
<1>g. NodeInv!(k) /\ ContInv!(k)
  BY Zenon, <1>a, <1>d DEF NodeInv, ContInv
<1>h. /\ k \notin Placed /\ nodeRefs[k] = 2 /\ k \notin nodeFreed /\ k \notin claimed
      /\ ran[k] = 0 /\ k \notin Range(conts)
  BY Zenon, <1>b, <1>g DEF Placed
<1>i. /\ conts' \in Seq(Conts) /\ IsInjective(conts')
      /\ Range(conts') = IF contsClosed THEN Range(conts) ELSE Range(conts) \cup {k}
  <2>1. conts \in Seq(Conts) /\ IsInjective(conts)
    BY Zenon, <1>a DEF TypeOK, StackInv
  <2>2. CASE contsClosed
    BY Zenon, <2>1, <2>2 DEF ThenPush
  <2>3. CASE ~contsClosed
    <3>1. conts' = <<k>> \o conts
      BY Zenon, <2>3 DEF ThenPush
    <3> QED BY ZenonT(40), <1>h, <2>1, <2>3, <3>1, ConsElements
  <2> QED BY Zenon, <2>2, <2>3
<1>j. Placed' = IF contsClosed THEN Placed ELSE Placed \cup {k}
  BY Zenon, <1>b, <1>i DEF Placed
<1>k. contsClosed => ready
  BY Zenon, <1>a DEF RaceInv, Before, Unready, Unwoken, Unstolen
<1>1. TypeOK'
  <2>1. ProcsOK' /\ StacksOK'
    BY Zenon, <1>a, <1>b, <1>e, <1>f, <1>i DEF TypeOK, ProcsOK, StacksOK
  <2> QED BY Zenon, <1>a, <1>b, <2>1, Types, SameTypes
<1>2. RaceInv' /\ PromiseInv' /\ RefInv' /\ ChainInv' /\ ResultInv' /\ ValueInv'
  <2>1. \A q \in Completers : cur'[q] = cur[q]
    BY Zenon, <1>d, <1>f DEF Procs
  <2> QED BY Zenon, <1>b, <1>c, <1>d, <1>e, <1>k, <2>1, ClientFrame
<1>3. SawInv'
  BY Zenon, <1>a, <1>b, <1>c, SawFrame
<1>4. StackInv'
  <2>1. contsClosed => conts' = conts
    BY Zenon DEF ThenPush
  <2>2. (Range(conts') \cup Range(waiters)) \cap claimed = {}
    BY Zenon, <1>a, <1>h, <1>i DEF StackInv
  <2> QED BY Zenon, <1>a, <1>b, <1>c, <1>i, <2>1, <2>2 DEF StackInv
<1>5. NodeInv' /\ GetterInv' /\ ContInv'
  <2>1. NodeInv!(k)'
    BY <1>c, <1>e, <1>h, <1>j DEF BodyPCs
  <2>2. ContInv!(k)'
    BY Zenon, <1>c, <1>e, <1>f, <1>g, <1>h, <1>j DEF BodyPCs
  <2> QED BY ZenonT(30), <1>a, <1>c, <1>d, <1>e, <1>f, <1>j, <2>1, <2>2, ClientOthers
<1> QED BY Zenon, <1>1, <1>2, <1>3, <1>4, <1>5 DEF IInv

(* sNodeDiscard frees a refused node, which nobody else has seen.           *)
LEMMA DiscardInv ==
  ASSUME IInv, NEW k \in Conts, Discard(k)
  PROVE  IInv'
<1>a. TypeOK /\ StackInv /\ NodeInv /\ GetterInv /\ ContInv /\ SawInv
  BY Zenon DEF IInv
<1>b. /\ UNCHANGED <<flagVars, stackVars, refVars, claimed, signals, envVars, chain, history>>
      /\ pc[k] = "discard" /\ cur' = [cur EXCEPT ![k] = "none"]
  BY Zenon DEF Discard
<1>c. /\ ready' = ready /\ consumed' = consumed /\ winner' = winner /\ ran' = ran /\ saw' = saw
      /\ disposed' = disposed
      /\ conts' = conts /\ waiters' = waiters /\ contsClosed' = contsClosed
      /\ waitersClosed' = waitersClosed
  BY Zenon, <1>b DEF flagVars, stackVars, history
<1>d. k \in Procs /\ k \in Nodes /\ k \notin Getters /\ k \notin Completers
  BY Zenon, Kinds DEF Nodes
<1>e. /\ pc'[k] = "release" /\ Only(k)
      /\ DOMAIN pc' = Procs /\ \A q \in Procs : pc'[q] \in PCs(q)
  <2>1. "release" \in PCs(k)
    BY Zenon, Labels
  <2> QED BY Zenon, <1>a, <1>d, <2>1, Goes DEF Discard
<1>f. /\ cur' \in [Procs -> Conts \cup {"none"}] /\ \A q \in Procs : q # k => cur'[q] = cur[q]
  BY Zenon, <1>a, <1>b, <1>d DEF TypeOK
<1>g. NodeInv!(k) /\ ContInv!(k)
  BY Zenon, <1>a, <1>d DEF NodeInv, ContInv
<1>h. k \notin Placed /\ nodeRefs[k] \in {0, 2} /\ ran[k] = 1
  BY Zenon, <1>b, <1>g
<1>i. /\ nodeRefs' \in [Nodes -> 0..2] /\ nodeRefs'[k] = 0 /\ nodeFreed' \subseteq Nodes
      /\ \A n \in Nodes : n # k => /\ nodeRefs'[n] = nodeRefs[n]
                                   /\ n \in nodeFreed' <=> n \in nodeFreed
  <2>1. CASE nodeRefs[k] = 0
    BY Zenon, <1>a, <2>1 DEF TypeOK, Discard
  <2>2. CASE nodeRefs[k] # 0
    <3>1. nodeRefs[k] = 2 /\ 2 <= nodeRefs[k] /\ 2 \in {1, 2}
      BY <1>h, <2>2
    <3>2. DropNode(k, 2)
      BY Zenon, <2>2 DEF Discard
    <3> QED BY ZenonT(40), <1>a, <1>d, <3>1, <3>2, Drop
  <2> QED BY Zenon, <2>1, <2>2
<1>j. Placed' = Placed
  BY Zenon, <1>b, <1>c, PlacedSame
<1>1. TypeOK'
  <2>1. ProcsOK' /\ NodesOK'
    BY Zenon, <1>a, <1>b, <1>e, <1>f, <1>i DEF TypeOK, ProcsOK, NodesOK
  <2> QED BY Zenon, <1>a, <1>b, <2>1, Types, SameTypes
<1>2. RaceInv' /\ PromiseInv' /\ RefInv' /\ ChainInv' /\ ResultInv' /\ ValueInv'
  <2>1. \A q \in Completers : cur'[q] = cur[q]
    BY Zenon, <1>d, <1>f DEF Procs
  <2> QED BY Zenon, <1>b, <1>c, <1>d, <1>e, <2>1, ClientFrame
<1>3. StackInv' /\ SawInv'
  BY Zenon, <1>a, <1>b, <1>c, StackFrame, SawFrame
<1>4. NodeInv' /\ GetterInv' /\ ContInv'
  <2>1. NodeInv!(k)'
    BY Zenon, <1>e, <1>h, <1>i, <1>j DEF BodyPCs
  <2>2. ContInv!(k)'
    BY Zenon, <1>c, <1>e, <1>g, <1>h, <1>j DEF BodyPCs
  <2> QED BY Zenon, <1>a, <1>b, <1>c, <1>d, <1>e, <1>f, <1>i, <1>j, <2>1, <2>2, ClientOthers
<1> QED BY Zenon, <1>1, <1>2, <1>3, <1>4 DEF IInv

(* The pusher's reference: the node goes with it unless it is still placed. *)
LEMMA UnrefInv ==
  ASSUME IInv, NEW p \in Nodes, Unref(p)
  PROVE  IInv'
<1>a. TypeOK /\ StackInv /\ NodeInv /\ GetterInv /\ ContInv /\ SawInv
  BY Zenon DEF IInv
<1>b. /\ UNCHANGED <<flagVars, stackVars, refVars, claimed, signals, envVars, chain, cur,
                     history>>
      /\ pc[p] = "unref" /\ DropNode(p, 1)
  BY Zenon DEF Unref
<1>c. /\ ready' = ready /\ consumed' = consumed /\ winner' = winner /\ ran' = ran /\ saw' = saw
      /\ disposed' = disposed
      /\ conts' = conts /\ waiters' = waiters /\ contsClosed' = contsClosed
      /\ waitersClosed' = waitersClosed
  BY Zenon, <1>b DEF flagVars, stackVars, history
<1>d. p \in Procs /\ p \notin Completers /\ (p \in Getters => p \notin Conts)
      /\ (p \in Getters \/ p \in Conts)
  BY Zenon, Kinds DEF Nodes
<1>e. /\ pc'[p] = IF p \in Getters THEN "read" ELSE "release"
      /\ Only(p) /\ DOMAIN pc' = Procs /\ \A q \in Procs : pc'[q] \in PCs(q)
  <2>1. (IF p \in Getters THEN "read" ELSE "release") \in PCs(p)
    BY Zenon, <1>d, Labels
  <2> QED BY Zenon, <1>a, <1>d, <2>1, Goes DEF Unref
<1>g. NodeInv!(p) /\ (p \in Conts => ContInv!(p)) /\ (p \in Getters => GetterInv!(p))
  BY Zenon, <1>a DEF NodeInv, ContInv, GetterInv
<1>h. /\ nodeRefs[p] = (IF p \in Placed THEN 2 ELSE 1) /\ p \notin nodeFreed
      /\ p \in Getters => ready /\ p \notin Placed \ claimed
      /\ p \in Conts /\ p \notin Placed => ran[p] = 1
  BY Zenon, <1>b, <1>g
<1>i. /\ nodeRefs' \in [Nodes -> 0..2] /\ nodeFreed' \subseteq Nodes
      /\ nodeRefs'[p] = (IF p \in Placed THEN 1 ELSE 0)
      /\ p \in Placed => nodeFreed' = nodeFreed
      /\ \A n \in Nodes : n # p => /\ nodeRefs'[n] = nodeRefs[n]
                                   /\ n \in nodeFreed' <=> n \in nodeFreed
  <2>1. 1 <= nodeRefs[p] /\ 1 \in {1, 2} /\ (p \in Placed <=> nodeRefs[p] # 1)
    BY <1>h
  <2>2. /\ nodeRefs' \in [Nodes -> 0..2] /\ nodeRefs'[p] = nodeRefs[p] - 1
        /\ \A n \in Nodes : n # p => nodeRefs'[n] = nodeRefs[n]
        /\ nodeRefs[p] = 1 => nodeFreed' = nodeFreed \cup {p}
        /\ nodeRefs[p] # 1 => nodeFreed' = nodeFreed
        /\ nodeFreed' \subseteq Nodes
    BY Zenon, <1>a, <1>b, <2>1, Drop
  <2>3. nodeRefs'[p] = IF p \in Placed THEN 1 ELSE 0
    BY <1>h, <2>2
  <2> QED BY Zenon, <2>1, <2>2, <2>3
<1>j. Placed' = Placed
  BY Zenon, <1>b, <1>c, PlacedSame
<1>1. TypeOK'
  <2>1. ProcsOK' /\ NodesOK'
    BY Zenon, <1>a, <1>b, <1>e, <1>i DEF TypeOK, ProcsOK, NodesOK
  <2> QED BY Zenon, <1>a, <1>b, <2>1, Types, SameTypes
<1>2. RaceInv' /\ PromiseInv' /\ RefInv' /\ ChainInv' /\ ResultInv' /\ ValueInv'
  BY Zenon, <1>b, <1>c, <1>d, <1>e, ClientFrame
<1>3. StackInv' /\ SawInv'
  BY Zenon, <1>a, <1>b, <1>c, StackFrame, SawFrame
<1>4. NodeInv' /\ GetterInv' /\ ContInv'
  <2>1. NodeInv!(p)'
    BY Zenon, <1>d, <1>e, <1>h, <1>i, <1>j DEF BodyPCs
  <2>2. p \in Getters => GetterInv!(p)'
    BY Zenon, <1>b, <1>c, <1>g, <1>h, <1>j
  <2>3. p \in Conts => ContInv!(p)'
    BY Zenon, <1>b, <1>c, <1>d, <1>e, <1>g, <1>h, <1>i, <1>j DEF BodyPCs
  <2> QED BY Zenon, <1>a, <1>b, <1>c, <1>d, <1>e, <1>i, <1>j, <2>1, <2>2, <2>3, ClientOthers
<1> QED BY Zenon, <1>1, <1>2, <1>3, <1>4 DEF IInv

(* UfsrvFutureGet looks whether the future is ready.                        *)
LEMMA GetCheckInv ==
  ASSUME IInv, NEW g \in Getters, GetCheck(g)
  PROVE  IInv'
<1>a. TypeOK /\ StackInv /\ NodeInv /\ GetterInv /\ ContInv /\ SawInv
  BY Zenon DEF IInv
<1>b. /\ UNCHANGED <<flagVars, stackVars, refVars, nodeFreed, claimed, signals, envVars, chain,
                     cur, winner, ran, disposed>>
      /\ pc[g] = "check"
  BY Zenon DEF GetCheck
<1>c. /\ ready' = ready /\ consumed' = consumed
      /\ conts' = conts /\ waiters' = waiters /\ contsClosed' = contsClosed
      /\ waitersClosed' = waitersClosed
  BY Zenon, <1>b DEF flagVars, stackVars
<1>d. g \in Procs /\ g \in Nodes /\ g \notin Conts /\ g \notin Completers
  BY Zenon, Kinds DEF Nodes
<1>e. /\ pc'[g] \in {"read", "push", "release"} /\ Only(g)
      /\ DOMAIN pc' = Procs /\ \A q \in Procs : pc'[q] \in PCs(q)
      /\ pc'[g] = "read" => ready
      /\ nodeRefs' = IF pc'[g] = "push" THEN [nodeRefs EXCEPT ![g] = 2] ELSE nodeRefs
      /\ saw' = IF pc'[g] = "release" THEN [saw EXCEPT ![g] = Failed] ELSE saw
  <2>1. PICK l \in {"read", "push", "release"} :
             /\ Goto(g, l)
             /\ l = "read" => ready
             /\ nodeRefs' = IF l = "push" THEN [nodeRefs EXCEPT ![g] = 2] ELSE nodeRefs
             /\ saw' = IF l = "release" THEN [saw EXCEPT ![g] = Failed] ELSE saw
    BY Zenon DEF GetCheck, IsReady
  <2>2. l \in PCs(g)
    BY Zenon, Labels
  <2>3. pc'[g] = l /\ Only(g) /\ DOMAIN pc' = Procs /\ \A q \in Procs : pc'[q] \in PCs(q)
    BY Zenon, <1>a, <1>d, <2>1, <2>2, Goes
  <2> QED BY Zenon, <2>1, <2>3
<1>g. /\ nodeRefs' \in [Nodes -> 0..2] /\ \A n \in Nodes : n # g => nodeRefs'[n] = nodeRefs[n]
      /\ nodeRefs'[g] = IF pc'[g] = "push" THEN 2 ELSE nodeRefs[g]
  <2>1. nodeRefs \in [Nodes -> 0..2]
    BY Zenon, <1>a DEF TypeOK
  <2> QED BY <1>d, <1>e, <2>1
<1>h. Placed' = Placed
  BY Zenon, <1>b, <1>c, PlacedSame
<1>i. /\ saw' \in [Nodes -> Results \cup {Failed, "none"}]
      /\ \A n \in Nodes : saw'[n] = saw[n] \/ saw'[n] = Failed
  <2>1. saw \in [Nodes -> Results \cup {Failed, "none"}]
    BY Zenon, <1>a DEF TypeOK
  <2>2. saw' = saw \/ saw' = [saw EXCEPT ![g] = Failed]
    BY Zenon, <1>e
  <2> QED BY Zenon, <1>d, <2>1, <2>2
<1>1. TypeOK'
  <2>1. ProcsOK' /\ NodesOK' /\ HistoryOK'
    BY Zenon, <1>a, <1>b, <1>e, <1>g, <1>i DEF TypeOK, ProcsOK, NodesOK, HistoryOK
  <2> QED BY Zenon, <1>a, <1>b, <2>1, Types, SameTypes
<1>2. RaceInv' /\ PromiseInv' /\ RefInv' /\ ChainInv' /\ ResultInv' /\ ValueInv'
  BY Zenon, <1>b, <1>c, <1>d, <1>e, ClientFrame
<1>3. StackInv'
  BY Zenon, <1>a, <1>b, <1>c, StackFrame
<1>4. SawInv'
  <2>1. Published' = Published
    BY Zenon, <1>b DEF Published, ResultOf
  <2> QED BY Zenon, <1>a, <1>c, <1>i, <2>1 DEF SawInv, DeliversWinner
<1>5. NodeInv' /\ GetterInv' /\ ContInv'
  <2>1. NodeInv!(g) /\ GetterInv!(g)
    BY Zenon, <1>a, <1>d DEF NodeInv, GetterInv
  <2>2. g \notin Placed /\ nodeRefs[g] = 0 /\ g \notin nodeFreed /\ g \notin claimed
    BY Zenon, <1>b, <2>1
  <2>3. NodeInv!(g)'
    BY <1>b, <1>e, <1>g, <1>h, <2>2 DEF BodyPCs
  <2>4. GetterInv!(g)'
    BY Zenon, <1>b, <1>c, <1>e, <1>h, <2>1, <2>2
  <2> QED BY Zenon, <1>a, <1>b, <1>c, <1>d, <1>e, <1>g, <1>h, <2>3, <2>4, ClientOthers
<1> QED BY Zenon, <1>1, <1>2, <1>3, <1>4, <1>5 DEF IInv

(* Its push succeeds, or was refused and the waiter is discarded.           *)
LEMMA GetPushInv ==
  ASSUME IInv, NEW g \in Getters, GetPush(g)
  PROVE  IInv'
<1>a. TypeOK /\ RaceInv /\ StackInv /\ NodeInv /\ GetterInv /\ ContInv /\ SawInv
  BY Zenon DEF IInv
<1>b. /\ UNCHANGED <<flagVars, conts, contsClosed, waitersClosed, refVars, claimed, signals,
                     envVars, chain, cur, history>>
      /\ pc[g] = "push"
  BY Zenon DEF GetPush
<1>c. /\ ready' = ready /\ consumed' = consumed /\ winner' = winner /\ ran' = ran /\ saw' = saw
      /\ disposed' = disposed
  BY Zenon, <1>b DEF flagVars, history
<1>d. g \in Procs /\ g \in Nodes /\ g \notin Conts /\ g \notin Completers
  BY Zenon, Kinds DEF Nodes
<1>e. /\ pc'[g] = IF waitersClosed THEN "read" ELSE "wait"
      /\ Only(g) /\ DOMAIN pc' = Procs /\ \A q \in Procs : pc'[q] \in PCs(q)
  <2>1. "read" \in PCs(g) /\ "wait" \in PCs(g)
    BY Zenon, Labels
  <2> QED BY Zenon, <1>a, <1>d, <2>1, Goes DEF GetPush
<1>g. NodeInv!(g) /\ GetterInv!(g)
  BY Zenon, <1>a, <1>d DEF NodeInv, GetterInv
<1>h. /\ g \notin Placed /\ nodeRefs[g] = 2 /\ g \notin nodeFreed /\ g \notin claimed
      /\ g \notin Range(waiters)
  BY Zenon, <1>b, <1>g DEF Placed
<1>i. /\ waiters' \in Seq(Getters) /\ IsInjective(waiters')
      /\ Range(waiters') = IF waitersClosed THEN Range(waiters) ELSE Range(waiters) \cup {g}
  <2>1. waiters \in Seq(Getters) /\ IsInjective(waiters)
    BY Zenon, <1>a DEF TypeOK, StackInv
  <2>2. CASE waitersClosed
    BY Zenon, <2>1, <2>2 DEF GetPush
  <2>3. CASE ~waitersClosed
    <3>1. waiters' = <<g>> \o waiters
      BY Zenon, <2>3 DEF GetPush
    <3> QED BY ZenonT(40), <1>h, <2>1, <2>3, <3>1, ConsElements
  <2> QED BY Zenon, <2>2, <2>3
<1>j. Placed' = IF waitersClosed THEN Placed ELSE Placed \cup {g}
  BY Zenon, <1>b, <1>i DEF Placed
<1>k. waitersClosed => ready
  BY Zenon, <1>a DEF RaceInv, Before, Unready, Unwoken
<1>l. /\ nodeRefs' \in [Nodes -> 0..2] /\ nodeFreed' \subseteq Nodes
      /\ nodeRefs'[g] = IF waitersClosed THEN 0 ELSE 2
      /\ g \in nodeFreed' => waitersClosed
      /\ \A n \in Nodes : n # g => /\ nodeRefs'[n] = nodeRefs[n]
                                   /\ n \in nodeFreed' <=> n \in nodeFreed
  <2>1. CASE ~waitersClosed
    BY Zenon, <1>a, <1>h, <2>1 DEF TypeOK, GetPush
  <2>2. CASE waitersClosed
    <3>1. 2 <= nodeRefs[g] /\ 2 \in {1, 2}
      BY <1>h
    <3>2. DropNode(g, 2)
      BY Zenon, <2>2 DEF GetPush
    <3> QED BY ZenonT(40), <1>a, <1>d, <1>h, <2>2, <3>1, <3>2, Drop
  <2> QED BY Zenon, <2>1, <2>2
<1>1. TypeOK'
  <2>1. ProcsOK' /\ StacksOK' /\ NodesOK'
    BY Zenon, <1>a, <1>b, <1>e, <1>i, <1>l DEF TypeOK, ProcsOK, StacksOK, NodesOK
  <2> QED BY Zenon, <1>a, <1>b, <2>1, Types, SameTypes
<1>2. RaceInv' /\ PromiseInv' /\ RefInv' /\ ChainInv' /\ ResultInv' /\ ValueInv'
  BY Zenon, <1>b, <1>c, <1>d, <1>e, ClientFrame
<1>3. SawInv'
  BY Zenon, <1>a, <1>b, <1>c, SawFrame
<1>4. StackInv'
  <2>1. waitersClosed => waiters' = waiters
    BY Zenon DEF GetPush
  <2>2. (Range(conts) \cup Range(waiters')) \cap claimed = {}
    BY Zenon, <1>a, <1>h, <1>i DEF StackInv
  <2> QED BY Zenon, <1>a, <1>b, <1>c, <1>i, <2>1, <2>2 DEF StackInv
<1>5. NodeInv' /\ GetterInv' /\ ContInv'
  <2>1. NodeInv!(g)'
    BY <1>b, <1>e, <1>h, <1>j, <1>l DEF BodyPCs
  <2>2. GetterInv!(g)'
    BY Zenon, <1>b, <1>c, <1>e, <1>g, <1>h, <1>j, <1>k
  <2> QED BY Zenon, <1>a, <1>b, <1>c, <1>d, <1>e, <1>j, <1>l, <2>1, <2>2, ClientOthers
<1> QED BY Zenon, <1>1, <1>2, <1>3, <1>4, <1>5 DEF IInv

(* A getter wakes because the winner claimed its node, and reads what the   *)
(* winner published.                                                        *)
LEMMA GetWakeInv ==
  ASSUME IInv, NEW g \in Getters, GetWake(g)
  PROVE  IInv'
<1>a. TypeOK /\ StackInv /\ NodeInv /\ GetterInv /\ ContInv /\ SawInv
  BY Zenon DEF IInv
<1>b. /\ UNCHANGED <<flagVars, stackVars, refVars, nodeVars, envVars, chain, cur, history>>
      /\ pc[g] = "wait" /\ signals[g] > 0
  BY Zenon DEF GetWake
<1>c. /\ ready' = ready /\ consumed' = consumed /\ winner' = winner /\ ran' = ran /\ saw' = saw
      /\ disposed' = disposed /\ nodeRefs' = nodeRefs /\ nodeFreed' = nodeFreed
      /\ claimed' = claimed /\ signals' = signals
      /\ conts' = conts /\ waiters' = waiters /\ contsClosed' = contsClosed
      /\ waitersClosed' = waitersClosed
  BY Zenon, <1>b DEF flagVars, stackVars, nodeVars, history
<1>d. g \in Procs /\ g \in Nodes /\ g \notin Conts /\ g \notin Completers
  BY Zenon, Kinds DEF Nodes
<1>e. /\ pc'[g] = "unref" /\ Only(g)
      /\ DOMAIN pc' = Procs /\ \A q \in Procs : pc'[q] \in PCs(q)
  <2>1. "unref" \in PCs(g)
    BY Zenon, Labels
  <2> QED BY Zenon, <1>a, <1>d, <2>1, Goes DEF GetWake
<1>f. Placed' = Placed
  BY Zenon, <1>b, <1>c, PlacedSame
<1>g. NodeInv!(g) /\ GetterInv!(g)
  BY Zenon, <1>a, <1>d DEF NodeInv, GetterInv
<1>h. signals[g] # 0
  BY <1>b
<1>i. g \in claimed /\ ready
  BY Zenon, <1>g, <1>h
<1>1. TypeOK'
  <2>1. ProcsOK'
    BY Zenon, <1>a, <1>b, <1>e DEF TypeOK, ProcsOK
  <2> QED BY Zenon, <1>a, <1>b, <2>1, Types, SameTypes
<1>2. RaceInv' /\ PromiseInv' /\ RefInv' /\ ChainInv' /\ ResultInv' /\ ValueInv'
  BY Zenon, <1>b, <1>c, <1>d, <1>e, ClientFrame
<1>3. StackInv' /\ SawInv'
  BY Zenon, <1>a, <1>b, <1>c, StackFrame, SawFrame
<1>4. NodeInv' /\ GetterInv' /\ ContInv'
  <2>1. NodeInv!(g)'
    BY Zenon, <1>b, <1>c, <1>e, <1>f, <1>g DEF BodyPCs
  <2>2. GetterInv!(g)'
    BY Zenon, <1>c, <1>f, <1>g, <1>i
  <2> QED BY Zenon, <1>a, <1>b, <1>c, <1>d, <1>e, <1>f, <2>1, <2>2, ClientOthers
<1> QED BY Zenon, <1>1, <1>2, <1>3, <1>4 DEF IInv

LEMMA GetReadInv ==
  ASSUME IInv, NEW g \in Getters, GetRead(g)
  PROVE  IInv'
<1>a. TypeOK /\ RaceInv /\ StackInv /\ NodeInv /\ GetterInv /\ ContInv /\ ResultInv /\ SawInv
  BY Zenon DEF IInv
<1>b. /\ UNCHANGED <<flagVars, stackVars, refVars, nodeVars, envVars, chain, cur, winner, ran,
                     disposed>>
      /\ pc[g] = "read" /\ saw' = [saw EXCEPT ![g] = result]
  BY Zenon DEF GetRead
<1>c. /\ ready' = ready /\ consumed' = consumed /\ nodeRefs' = nodeRefs /\ nodeFreed' = nodeFreed
      /\ claimed' = claimed /\ signals' = signals
      /\ conts' = conts /\ waiters' = waiters /\ contsClosed' = contsClosed
      /\ waitersClosed' = waitersClosed
  BY Zenon, <1>b DEF flagVars, stackVars, nodeVars
<1>d. g \in Procs /\ g \in Nodes /\ g \notin Conts /\ g \notin Completers
  BY Zenon, Kinds DEF Nodes
<1>e. /\ pc'[g] = "release" /\ Only(g)
      /\ DOMAIN pc' = Procs /\ \A q \in Procs : pc'[q] \in PCs(q)
  <2>1. "release" \in PCs(g)
    BY Zenon, Labels
  <2> QED BY Zenon, <1>a, <1>d, <2>1, Goes DEF GetRead
<1>f. Placed' = Placed
  BY Zenon, <1>b, <1>c, PlacedSame
<1>g. NodeInv!(g) /\ GetterInv!(g) /\ ready
  BY Zenon, <1>a, <1>b, <1>d DEF NodeInv, GetterInv
<1>h. /\ saw' \in [Nodes -> Results \cup {Failed, "none"}] /\ saw'[g] = result
      /\ \A n \in Nodes : n # g => saw'[n] = saw[n]
  BY Zenon, <1>a, <1>b, <1>d DEF TypeOK
<1>1. TypeOK'
  <2>1. ProcsOK' /\ HistoryOK'
    BY Zenon, <1>a, <1>b, <1>e, <1>h DEF TypeOK, ProcsOK, HistoryOK
  <2> QED BY Zenon, <1>a, <1>b, <2>1, Types, SameTypes
<1>2. RaceInv' /\ PromiseInv' /\ RefInv' /\ ChainInv' /\ ResultInv' /\ ValueInv'
  BY Zenon, <1>b, <1>c, <1>d, <1>e, ClientFrame
<1>3. StackInv'
  BY Zenon, <1>a, <1>b, <1>c, StackFrame
<1>4. SawInv'
  <2>1. result = Published \/ (result = Zero /\ consumed)
    BY Zenon, <1>a, <1>g DEF RaceInv, ResultInv, Before, Unready
  <2>2. Published' = Published
    BY Zenon, <1>b DEF Published, ResultOf
  <2> QED BY Zenon, <1>a, <1>c, <1>g, <1>h, <2>1, <2>2 DEF SawInv, DeliversWinner
<1>5. NodeInv' /\ GetterInv' /\ ContInv'
  <2>1. NodeInv!(g)'
    BY Zenon, <1>b, <1>c, <1>e, <1>f, <1>g DEF BodyPCs
  <2>2. GetterInv!(g)'
    BY Zenon, <1>b, <1>c, <1>e, <1>f, <1>g
  <2> QED BY Zenon, <1>a, <1>b, <1>c, <1>d, <1>e, <1>f, <2>1, <2>2, ClientOthers
<1> QED BY Zenon, <1>1, <1>2, <1>3, <1>4, <1>5 DEF IInv

-----------------------------------------------------------------------------
(* UfsrvFutureRelease.  Whoever drops the last reference finds the future   *)
(* completed and drained, and nobody in a call on it.                       *)
LEMMA LastHolder ==
  ASSUME IInv, NEW h, holders \subseteq {h},
         h = "caller" \/ (h \in Procs /\ pc[h] = "release")
  PROVE  /\ \A p \in Procs : pc[p] \in {"idle", "done", "release"}
         /\ winner # "none" /\ pc[winner] # "publish"
         /\ conts = <<>> /\ waiters = <<>> /\ contsClosed /\ waitersClosed
<1>a. TypeOK /\ RaceInv /\ PromiseInv /\ RefInv /\ StackInv
  BY Zenon DEF IInv
<1>0. /\ Owner # "caller" /\ \A p \in Clients : p # "caller"
  BY Zenon, Kinds DEF Completers
<1>1. pc[Owner] \in {"done", "release"}
  BY Zenon, <1>a, <1>0 DEF RefInv
<1>2. \A v \in Values : pc[v] \in {"idle", "done"}
  BY Zenon, <1>a, <1>1 DEF PromiseInv
<1>3. ASSUME NEW p \in Clients PROVE pc[p] \in {"idle", "done", "release"}
  <2>1. p \in holders <=> pc[p] \notin {"idle", "done"}
    BY Zenon, <1>a DEF RefInv
  <2> QED BY Zenon, <1>0, <2>1
<1>4. \A p \in Procs : pc[p] \in {"idle", "done", "release"}
  <2>1. \A p \in Procs : p \in Clients \/ p \in Values \/ p = Owner
    BY Zenon, Kinds DEF Completers
  <2> QED BY Zenon, <1>1, <1>2, <1>3, <2>1
<1>5. completed
  <2>1. fulfilled
    BY Zenon, <1>a, <1>1 DEF PromiseInv
  <2> QED BY Zenon, <1>a, <1>1, <1>2, <2>1 DEF PromiseInv
<1>6. winner # "none" /\ winner \in Procs
  BY Zenon, <1>a, <1>5 DEF RaceInv, TypeOK, Procs
<1>7. pc[winner] \notin {"publish"} \cup Unready \cup Unwoken \cup Unstolen
  BY Zenon, <1>4, <1>6 DEF Unready, Unwoken, Unstolen, WakePCs
<1>8. contsClosed /\ waitersClosed
  BY Zenon, <1>a, <1>6, <1>7 DEF RaceInv, Before
<1> QED BY Zenon, <1>a, <1>4, <1>6, <1>7, <1>8 DEF StackInv

LEMMA Dropped ==
  ASSUME IInv, NEW h \in holders, h = "caller" \/ (h \in Procs /\ pc[h] = "release"),
         DropFuture(h)
  PROVE  /\ holders' = holders \ {h} /\ refs' \in Nat
         /\ ExistsBijection(1..refs', holders') /\ ~freed
         /\ UNCHANGED <<stackVars, nodeRefs, nodeFreed>>
         /\ holders # {h} => freed' = FALSE /\ disposed' = disposed
         /\ holders = {h} => freed' = TRUE /\ Dispose(result)
<1>a. TypeOK /\ RefInv
  BY Zenon DEF IInv
<1>1. ExistsBijection(1..refs, holders) /\ refs \in Nat
  BY Zenon, <1>a DEF RefInv, TypeOK
<1>2. refs > 0 /\ ExistsBijection(1..(refs-1), holders \ {h})
  BY Zenon, <1>1, CountRemove
<1>3. refs = 1 <=> holders = {h}
  <2>1. refs = 1 => holders = {h}
    BY Zenon, <1>1, CountOne
  <2>2. ASSUME holders = {h}, refs - 1 > 0 PROVE FALSE
    <3>0. {h} \ {h} = {}
      OBVIOUS
    <3>1. ExistsBijection(1..(refs-1), {})
      BY Zenon, <1>2, <2>2, <3>0
    <3>2. PICK m \in Nat : m = refs - 1 /\ m > 0
      BY <1>1, <2>2
    <3>3. PICK f \in [1..m -> {}] : TRUE
      BY Zenon, <3>1, <3>2, Enumeration
    <3>4. 1 \in 1..m
      BY <3>2
    <3> QED BY Zenon, <3>3, <3>4
  <2>3. refs - 1 > 0 \/ refs = 1
    BY <1>1, <1>2
  <2> QED BY Zenon, <2>1, <2>2, <2>3
<1>4. refs - 1 \in Nat
  BY <1>1, <1>2
<1>5. holders' = holders \ {h} /\ refs' = refs - 1
  BY Zenon DEF DropFuture
<1>6. freed = FALSE
  BY Zenon, <1>a DEF RefInv, TypeOK
<1>7. CASE holders # {h}
  BY Zenon, <1>2, <1>3, <1>4, <1>5, <1>6, <1>7 DEF DropFuture
<1>8. CASE holders = {h}
  <2>1. conts = <<>> /\ waiters = <<>> /\ contsClosed = TRUE /\ waitersClosed = TRUE
    <3>1. conts = <<>> /\ waiters = <<>> /\ contsClosed /\ waitersClosed
      BY Zenon, <1>8, LastHolder
    <3> QED BY Zenon, <1>a, <3>1 DEF TypeOK
  <2>2. Range(conts) \cup Range(waiters) = {}
    BY Zenon, <2>1, EmptyElements
  <2>3. /\ freed' = TRUE /\ Dispose(result) /\ conts' = <<>> /\ waiters' = <<>>
        /\ contsClosed' = TRUE /\ waitersClosed' = TRUE
        /\ nodeRefs' = [n \in Nodes |-> nodeRefs[n] - (IF n \in {} THEN 1 ELSE 0)]
        /\ nodeFreed' = nodeFreed \cup {n \in {} : nodeRefs[n] = 1}
    BY Zenon, <1>3, <1>8, <2>2 DEF DropFuture
  <2>4. nodeRefs' = nodeRefs
    <3>1. nodeRefs \in [Nodes -> 0..2]
      BY Zenon, <1>a DEF TypeOK
    <3>2. \A n \in Nodes : nodeRefs[n] - (IF n \in {} THEN 1 ELSE 0) = nodeRefs[n]
      BY <3>1
    <3> QED BY Zenon, <2>3, <3>1, <3>2
  <2>5. nodeFreed' = nodeFreed
    BY Zenon, <2>3
  <2> QED BY Zenon, <1>2, <1>4, <1>5, <1>6, <1>8, <2>1, <2>3, <2>4, <2>5 DEF stackVars
<1> QED BY Zenon, <1>7, <1>8

LEMMA DropFutureInv ==
  ASSUME IInv, NEW h \in holders, DropFuture(h),
         UNCHANGED <<flagVars, claimed, signals, envVars, chain, cur, winner, ran, saw>>,
         \/ h = "caller" /\ pc' = pc
         \/ h \in Procs /\ pc[h] = "release" /\ Goto(h, "done")
  PROVE  IInv'
<1>a. /\ TypeOK /\ RaceInv /\ PromiseInv /\ RefInv /\ StackInv /\ ChainInv /\ NodeInv
      /\ GetterInv /\ ContInv /\ ResultInv /\ ValueInv /\ SawInv
  BY Zenon DEF IInv
<1>b. /\ holders' = holders \ {h} /\ refs' \in Nat
      /\ ExistsBijection(1..refs', holders') /\ ~freed
      /\ UNCHANGED <<stackVars, nodeRefs, nodeFreed>>
      /\ holders # {h} => freed' = FALSE /\ disposed' = disposed
      /\ holders = {h} => freed' = TRUE /\ Dispose(result)
  BY Zenon, Dropped
<1>c. /\ fulfilled' = fulfilled /\ completed' = completed /\ consumed' = consumed
      /\ ready' = ready /\ result' = result
      /\ conts' = conts /\ waiters' = waiters /\ contsClosed' = contsClosed
      /\ waitersClosed' = waitersClosed
  BY Zenon, <1>b DEF flagVars, stackVars
<1>d. h = "caller" \/ h \in Clients \/ h = Owner
  BY Zenon, <1>a DEF TypeOK
<1>e. h \notin Values /\ "caller" \notin Procs
  BY Zenon, <1>d, Kinds DEF Completers
<1>f. /\ Only(h) /\ DOMAIN pc' = Procs /\ \A q \in Procs : pc'[q] \in PCs(q)
      /\ h \in Procs => pc[h] = "release" /\ pc'[h] = "done"
  <2>1. CASE h = "caller" /\ pc' = pc
    BY Zenon, <1>a, <1>e, <2>1 DEF Only, TypeOK
  <2>2. CASE h \in Procs /\ pc[h] = "release" /\ Goto(h, "done")
    BY Zenon, <1>a, <2>2, Goes DEF PCs
  <2> QED BY Zenon, <2>1, <2>2
<1>g. \A q \in Procs : \/ pc'[q] = pc[q] /\ q # h
                       \/ pc'[q] = "done" /\ pc[q] = "release" /\ q = h
  BY Zenon, <1>f DEF Only
<1>h. Placed' = Placed
  BY Zenon, <1>c, PlacedSame
<1>i. disposed' \in [Values -> Nat]
  BY Zenon, <1>a, <1>b, Disposal DEF TypeOK
<1>j. Completers \subseteq Procs /\ Nodes \subseteq Procs /\ Values \subseteq Procs
      /\ Clients \subseteq Procs /\ Owner \in Procs
  BY Zenon DEF Procs, Nodes, Completers, Clients
<1>1. TypeOK'
  <2>1. RefsOK' /\ ProcsOK' /\ NodesOK' /\ HistoryOK'
    BY Zenon, <1>a, <1>b, <1>f, <1>i DEF TypeOK, RefsOK, ProcsOK, NodesOK, HistoryOK
  <2> QED BY Zenon, <1>a, <1>b, <2>1, Types, SameTypes
<1>2. RaceInv'
  BY Zenon, <1>a, <1>c, <1>f, <1>j, RaceFrame
  DEF DrainPCs, WakePCs, RunPCs, BodyPCs, Unready, Unwoken, Unstolen
<1>3. PromiseInv'
  BY Zenon, <1>a, <1>c, <1>f, <1>j, PromiseFrame
<1>4. RefInv'
  <2>1. \A p \in Clients : p \in holders' <=> pc'[p] \notin {"idle", "done"}
    BY Zenon, <1>a, <1>b, <1>g, <1>j DEF RefInv
  <2>2. Owner \in holders' <=> pc'[Owner] # "done"
    BY Zenon, <1>a, <1>b, <1>g, <1>j DEF RefInv
  <2>3. holders' = {} <=> holders = {h}
    BY <1>b
  <2>4. freed' <=> holders' = {}
    BY Zenon, <1>b, <2>3
  <2> QED BY Zenon, <1>b, <2>1, <2>2, <2>4 DEF RefInv
<1>5. StackInv'
  BY Zenon, <1>a, <1>c, StackFrame
<1>6. ChainInv'
  BY Zenon, <1>a, <1>f, <1>j, ChainFrame DEF WakePCs, RunPCs, BodyPCs
<1>7. NodeInv'
  <2> SUFFICES ASSUME NEW n \in Nodes PROVE NodeInv!(n)'
    BY Zenon DEF NodeInv
  <2>1. NodeInv!(n) /\ n \in Procs
    BY Zenon, <1>a, <1>j DEF NodeInv
  <2>2. CASE pc'[n] = pc[n]
    BY Zenon, <1>b, <1>h, <2>1, <2>2
  <2>3. CASE pc'[n] = "done" /\ pc[n] = "release"
    BY Zenon, <1>b, <1>h, <2>1, <2>3 DEF BodyPCs
  <2> QED BY Zenon, <1>g, <2>1, <2>2, <2>3
<1>8. GetterInv'
  BY Zenon, <1>a, <1>c, <1>g, <1>h, <1>j DEF GetterInv, Nodes
<1>9. ContInv'
  <2> SUFFICES ASSUME NEW k \in Conts PROVE ContInv!(k)'
    BY Zenon DEF ContInv
  <2>1. ContInv!(k) /\ k \in Procs
    BY Zenon, <1>a, <1>j DEF ContInv, Nodes
  <2>2. CASE pc'[k] = pc[k]
    BY Zenon, <1>b, <1>h, <2>1, <2>2
  <2>3. CASE pc'[k] = "done" /\ pc[k] = "release"
    BY Zenon, <1>b, <1>h, <2>1, <2>3 DEF BodyPCs
  <2> QED BY Zenon, <1>g, <2>1, <2>2, <2>3
<1>10. ResultInv'
  <2>1. \A q \in Procs : Moving(q)' <=> Moving(q)
    BY Zenon, <1>g DEF Moving
  <2>2. \A q \in Procs : pc'[q] \in BodyPCs => pc[q] \in BodyPCs
    BY Zenon, <1>g DEF BodyPCs
  <2>3. Before({"publish"})' <=> Before({"publish"})
    BY Zenon, <1>a, <1>g, <1>j DEF Before, TypeOK
  <2>4. Published' = Published
    BY Zenon DEF Published, ResultOf
  <2> QED BY Zenon, <1>a, <1>c, <2>1, <2>2, <2>3, <2>4 DEF ResultInv
<1>11. SawInv'
  BY Zenon, <1>a, <1>c, SawFrame
<1>12. ValueInv'
  <2> SUFFICES ASSUME NEW v \in Owned PROVE ValueInv!(v)'
    BY Zenon DEF ValueInv
  <2>1. ValueInv!(v) /\ v \in Procs /\ v \in Values /\ pc'[v] = pc[v]
    BY Zenon, <1>a, <1>e, <1>g, <1>j DEF ValueInv, Owned
  <2>2. (\A q \in Procs : pc'[q] # "move") <=> (\A q \in Procs : pc[q] # "move")
    BY Zenon, <1>g
  <2>3. CASE holders # {h}
    BY Zenon, <1>b, <1>c, <2>1, <2>2, <2>3
  <2>4. CASE holders = {h}
    <3>1. /\ \A p \in Procs : pc[p] \in {"idle", "done", "release"}
          /\ winner # "none" /\ pc[winner] # "publish"
      BY Zenon, <1>f, <2>4, LastHolder
    <3>2. result = IF consumed THEN Zero ELSE Published
      BY Zenon, <1>a, <3>1 DEF ResultInv, Before, Moving
    <3>3. winner = v <=> Published = v
      BY Zenon, <1>a, <2>1, PublishedValue
    <3>4. v # Zero
      BY Zenon, <2>1, FutureAssumption
    <3>5. /\ v # result => disposed'[v] = disposed[v]
          /\ v = result => disposed'[v] = disposed[v] + 1
      BY Zenon, <1>a, <1>b, <2>1, <2>4, Disposal
    <3>6. CASE winner # v
      BY Zenon, <2>1, <3>2, <3>3, <3>4, <3>5, <3>6
    <3>7. CASE winner = v
      <4>1. disposed[v] = IF consumed THEN 1 ELSE 0
        BY Zenon, <1>b, <2>1, <3>1, <3>7
      <4>2. disposed'[v] = 1
        BY <3>2, <3>3, <3>4, <3>5, <3>7, <4>1
      <4>3. pc[v] \notin {"idle", "claim"}
        BY Zenon, <1>a, <2>1, <3>7 DEF RaceInv, Completers
      <4> QED BY Zenon, <1>b, <2>1, <2>4, <3>7, <4>2, <4>3
    <3> QED BY Zenon, <3>6, <3>7
  <2> QED BY Zenon, <2>3, <2>4
<1> QED BY Zenon, <1>1, <1>2, <1>3, <1>4, <1>5, <1>6, <1>7, <1>8, <1>9, <1>10, <1>11, <1>12
    DEF IInv

-----------------------------------------------------------------------------
(* StopScheduler, the exit of its worker, and a step that changes nothing.  *)
LEMMA EnvInv ==
  ASSUME IInv, UNCHANGED <<flagVars, stackVars, refVars, nodeVars, aborted, procVars, history>>,
         scheduler' \in {"up", "stopped", "gone"}, inserted' = inserted
  PROVE  IInv'
<1>a. /\ TypeOK /\ RaceInv /\ PromiseInv /\ RefInv /\ StackInv /\ ChainInv /\ NodeInv
      /\ GetterInv /\ ContInv /\ ResultInv /\ ValueInv /\ SawInv
  BY Zenon DEF IInv
<1>b. /\ fulfilled' = fulfilled /\ completed' = completed /\ consumed' = consumed
      /\ ready' = ready /\ result' = result
      /\ conts' = conts /\ waiters' = waiters /\ contsClosed' = contsClosed
      /\ waitersClosed' = waitersClosed
  BY Zenon DEF flagVars, stackVars
<1>c. /\ refs' = refs /\ holders' = holders /\ freed' = freed
      /\ nodeRefs' = nodeRefs /\ nodeFreed' = nodeFreed /\ claimed' = claimed
      /\ signals' = signals /\ pc' = pc /\ chain' = chain /\ cur' = cur
      /\ winner' = winner /\ ran' = ran /\ saw' = saw /\ disposed' = disposed
  BY Zenon DEF refVars, nodeVars, procVars, history
<1>d. Placed' = Placed
  BY Zenon, <1>b, <1>c, PlacedSame
<1>e. Published' = Published
  BY Zenon, <1>c DEF Published, ResultOf
<1>1. TypeOK'
  <2>1. EnvOK' /\ ProcsOK'
    BY Zenon, <1>a, <1>c DEF TypeOK, EnvOK, ProcsOK
  <2> QED BY Zenon, <1>a, <2>1, Types, SameTypes
<1>2. RaceInv' /\ PromiseInv' /\ RefInv'
  BY Zenon, <1>a, <1>b, <1>c DEF RaceInv, PromiseInv, RefInv, Before
<1>3. StackInv' /\ ChainInv'
  BY Zenon, <1>a, <1>b, <1>c DEF StackInv, ChainInv
<1>4. NodeInv'
  BY Zenon, <1>a, <1>c, <1>d DEF NodeInv
<1>5. GetterInv' /\ ContInv'
  BY Zenon, <1>a, <1>b, <1>c, <1>d DEF GetterInv, ContInv
<1>6. ResultInv'
  BY Zenon, <1>a, <1>b, <1>c, <1>e DEF ResultInv, Before, Moving
<1>7. ValueInv' /\ SawInv'
  BY Zenon, <1>a, <1>b, <1>c, <1>e DEF ValueInv, SawInv, DeliversWinner
<1> QED BY Zenon, <1>1, <1>2, <1>3, <1>4, <1>5, <1>6, <1>7 DEF IInv

LEMMA CallInv == IInv /\ Call => IInv'
<1>1. ASSUME IInv, NEW v \in Values, SetResult(v) PROVE IInv'
  BY Zenon, <1>1, SetResultInv
<1>2. ASSUME IInv, PromiseDestroy PROVE IInv'
  BY Zenon, <1>2, PromiseDestroyInv
<1>3. ASSUME IInv, NEW p \in Clients, Retain(p) PROVE IInv'
  BY Zenon, <1>3, RetainInv
<1>4. ASSUME IInv, CallerRelease PROVE IInv'
  <2>1. /\ "caller" \in holders /\ DropFuture("caller") /\ pc' = pc
        /\ UNCHANGED <<flagVars, claimed, signals, envVars, chain, cur, winner, ran, saw>>
    BY Zenon, <1>4 DEF CallerRelease, procVars
  <2> QED BY Zenon, <1>4, <2>1, DropFutureInv
<1>5. ASSUME IInv, StopScheduler \/ SchedulerExit PROVE IInv'
  BY Zenon, <1>5, EnvInv DEF StopScheduler, SchedulerExit
<1> QED BY Zenon, <1>1, <1>2, <1>3, <1>4, <1>5 DEF Call

(* A Set call holds no reference.                                           *)
LEMMA SetLabels == \A v \in Values : "release" \notin PCs(v)
  BY Labels DEF DrainPCs, WakePCs, RunPCs, BodyPCs

LEMMA StepInv ==
  ASSUME IInv, NEW p \in Procs, Step(p)
  PROVE  IInv'
<1>1. ASSUME p \in Completers, Complete(p) PROVE IInv'
  BY Zenon, <1>1, ClaimInv, PublishInv, SetReadyInv, StealWaitersInv, WakeWaiterInv,
     InsertResumeInv, StealContsInv, TakeContInv, DrainUnrefInv DEF Complete
<1>2. ASSUME p \in Conts, ThenCheck(p) \/ ThenPush(p) \/ Discard(p) PROVE IInv'
  BY Zenon, <1>2, ThenCheckInv, ThenPushInv, DiscardInv
<1>3. ASSUME p \in Getters, GetCheck(p) \/ GetPush(p) \/ GetWake(p) \/ GetRead(p) PROVE IInv'
  BY Zenon, <1>3, GetCheckInv, GetPushInv, GetWakeInv, GetReadInv
<1>4. ASSUME p \in Nodes, Unref(p) PROVE IInv'
  BY Zenon, <1>4, UnrefInv
<1>5. ASSUME Run(p) PROVE IInv'
  BY Zenon, <1>5, RunContInv, ConsumeOnceInv, MoveInv, ZeroResultInv DEF Run
<1>6. ASSUME Release(p) PROVE IInv'
  <2>1. /\ pc[p] = "release" /\ DropFuture(p) /\ Goto(p, "done")
        /\ UNCHANGED <<flagVars, claimed, signals, envVars, chain, cur, winner, ran, saw>>
    BY Zenon, <1>6 DEF Release
  <2>2. p \in holders
    <3>1. TypeOK /\ RefInv
      BY Zenon DEF IInv
    <3>2. p \notin Values
      BY Zenon, <2>1, <3>1, SetLabels DEF TypeOK
    <3>3. p \in Clients \/ p = Owner
      BY Zenon, <3>2, Kinds DEF Completers
    <3> QED BY Zenon, <2>1, <3>1, <3>3 DEF RefInv
  <2> QED BY Zenon, <2>1, <2>2, DropFutureInv
<1> QED BY Zenon, <1>1, <1>2, <1>3, <1>4, <1>5, <1>6 DEF Step

LEMMA NextInv == IInv /\ [Next]_vars => IInv'
<1>1. ASSUME IInv, UNCHANGED vars PROVE IInv'
  <2>1. /\ UNCHANGED <<flagVars, stackVars, refVars, nodeVars, aborted, procVars, history>>
        /\ scheduler' = scheduler /\ inserted' = inserted
    BY Zenon, <1>1 DEF vars, envVars
  <2>2. scheduler' \in {"up", "stopped", "gone"}
    BY Zenon, <1>1, <2>1 DEF IInv, TypeOK
  <2> QED BY Zenon, <1>1, <2>1, <2>2, EnvInv
<1>2. ASSUME IInv, Next PROVE IInv'
  BY Zenon, <1>1, <1>2, CallInv, StepInv DEF Next, Finished
<1> QED BY Zenon, <1>1, <1>2

(* The inductive invariant holds for any sets of Set calls, continuations   *)
(* and getters.                                                             *)
THEOREM Invariance == Spec => []IInv
  BY InitInv, NextInv, PTL DEF Spec

-----------------------------------------------------------------------------
(* A resume being submitted is that of a coroutine still waiting for it.    *)
LEMMA Moves ==
  ASSUME TypeOK, NEW p \in Procs, NEW l, Goto(p, l)
  PROVE  pc'[p] = l /\ Only(p)
  BY Zenon DEF TypeOK, Goto, Only

LEMMA SubmitFrame ==
  ASSUME SubmitInv, NEW p, Only(p), p \in Procs => pc'[p] # "submit",
         inserted' = inserted, claimed \subseteq claimed',
         \A q \in Completers : q # p => chain'[q] = chain[q],
         p \in Coroutines /\ pc[p] = "wait" => p \in inserted
  PROVE  SubmitInv'
<1>1. inserted' \subseteq claimed' \cap Coroutines
  BY Zenon DEF SubmitInv
<1>2. ASSUME NEW q \in Completers, pc'[q] = "submit"
      PROVE  /\ Head(chain'[q]) \in (claimed' \cap Coroutines) \ inserted'
             /\ pc'[Head(chain'[q])] = "wait"
  <2>1. q \in Procs /\ q # p /\ pc[q] = "submit"
    BY Zenon, <1>2 DEF Only, Procs
  <2>2. PICK h \in Coroutines : /\ h = Head(chain[q]) /\ h \in claimed /\ h \notin inserted
                                /\ pc[h] = "wait"
    BY Zenon, <2>1 DEF SubmitInv
  <2>3. h \in Procs /\ h # p
    BY Zenon, <2>2, FutureAssumption DEF Procs
  <2>4. pc'[h] = "wait" /\ Head(chain'[q]) = h
    BY Zenon, <2>1, <2>2, <2>3 DEF Only
  <2> QED BY Zenon, <2>2, <2>4
<1> QED BY Zenon, <1>1, <1>2 DEF SubmitInv

LEMMA SubmitCall ==
  ASSUME IInv, SubmitInv, Call
  PROVE  SubmitInv'
<1>a. TypeOK
  BY Zenon DEF IInv
<1>1. ASSUME NEW p \in Procs, pc[p] = "idle", NEW l \in {"done", "claim", "release", "check"},
             Goto(p, l), inserted' = inserted, claimed' = claimed, chain' = chain
      PROVE  SubmitInv'
  <2>1. pc'[p] = l /\ Only(p)
    BY Zenon, <1>a, <1>1, Moves
  <2> QED BY Zenon, <1>1, <2>1, SubmitFrame
<1>2. ASSUME NEW v \in Values, SetResult(v) PROVE SubmitInv'
  <2>1. /\ v \in Procs /\ pc[v] = "idle" /\ \E l \in {"done", "claim"} : Goto(v, l)
        /\ inserted' = inserted /\ claimed' = claimed /\ chain' = chain
    BY Zenon, <1>2 DEF SetResult, Procs, Completers, envVars, nodeVars
  <2> QED BY Zenon, <1>1, <2>1
<1>3. ASSUME PromiseDestroy PROVE SubmitInv'
  <2>1. /\ Owner \in Procs /\ pc[Owner] = "idle"
        /\ \E l \in {"release", "claim"} : Goto(Owner, l)
        /\ inserted' = inserted /\ claimed' = claimed /\ chain' = chain
    BY Zenon, <1>3 DEF PromiseDestroy, Procs, Completers, envVars, nodeVars
  <2> QED BY Zenon, <1>1, <2>1
<1>4. ASSUME NEW p \in Clients, Retain(p) PROVE SubmitInv'
  <2>1. /\ p \in Procs /\ pc[p] = "idle" /\ \E l \in {"claim", "check"} : Goto(p, l)
        /\ inserted' = inserted /\ claimed' = claimed /\ chain' = chain
    BY Zenon, <1>4, Kinds DEF Retain, Completers, envVars, nodeVars
  <2> QED BY Zenon, <1>1, <2>1
<1>5. ASSUME CallerRelease \/ StopScheduler \/ SchedulerExit PROVE SubmitInv'
  <2>1. pc' = pc /\ inserted' = inserted /\ claimed' = claimed /\ chain' = chain
    BY Zenon, <1>5 DEF CallerRelease, StopScheduler, SchedulerExit, procVars, envVars, nodeVars
  <2> QED BY Zenon, <2>1 DEF SubmitInv
<1> QED BY Zenon, <1>2, <1>3, <1>4, <1>5 DEF Call

LEMMA SubmitComplete ==
  ASSUME IInv, SubmitInv, NEW p \in Completers, Complete(p)
  PROVE  SubmitInv'
<1>a. TypeOK /\ ChainInv /\ GetterInv
  BY Zenon DEF IInv
<1>b. p \in Procs /\ p \notin Coroutines
  BY Zenon, Kinds, FutureAssumption DEF Nodes
<1>1. ASSUME NEW l, Goto(p, l), l # "submit", inserted' = inserted, claimed \subseteq claimed',
             chain' = chain \/ \E s : chain' = [chain EXCEPT ![p] = s]
      PROVE  SubmitInv'
  <2>1. pc'[p] = l /\ Only(p)
    BY Zenon, <1>a, <1>b, <1>1, Moves
  <2>2. \A q \in Completers : q # p => chain'[q] = chain[q]
    BY Zenon, <1>a, <1>1 DEF TypeOK
  <2> QED BY Zenon, <1>b, <1>1, <2>1, <2>2, SubmitFrame
<1>2. ASSUME Claim(p) \/ Publish(p) \/ SetReady(p) \/ StealWaiters(p) \/ StealConts(p)
             \/ TakeCont(p)
      PROVE  SubmitInv'
  <2>1. \E l \in {"publish", "ready", "steal_waiters", "wake", "steal_conts", "take_cont",
                  "run", "unref_cont", "done", "release"} : Goto(p, l)
    BY Zenon, <1>2 DEF Claim, Publish, SetReady, StealWaiters, StealConts, TakeCont, AfterComplete
  <2>2. inserted' = inserted /\ claimed \subseteq claimed'
    BY Zenon, <1>2 DEF Claim, Publish, SetReady, StealWaiters, StealConts, TakeCont, envVars,
       nodeVars
  <2>3. chain' = chain \/ \E s : chain' = [chain EXCEPT ![p] = s]
    BY Zenon, <1>2 DEF Claim, Publish, SetReady, StealWaiters, StealConts, TakeCont
  <2> QED BY Zenon, <1>1, <2>1, <2>2, <2>3
<1>3. ASSUME UnrefWaiter(p) \/ UnrefCont(p) PROVE SubmitInv'
  <2>1. \E l \in {"steal_conts", "wake", "take_cont", "done", "release"} : Goto(p, l)
    BY Zenon, <1>3 DEF UnrefWaiter, UnrefCont, AfterComplete
  <2>2. inserted' = inserted /\ claimed' = claimed
    BY Zenon, <1>3 DEF UnrefWaiter, UnrefCont, envVars
  <2>3. chain' = [chain EXCEPT ![p] = Tail(chain[p])]
    BY Zenon, <1>3 DEF UnrefWaiter, UnrefCont
  <2> QED BY Zenon, <1>1, <2>1, <2>2, <2>3
<1>4. ASSUME WakeWaiter(p) \/ InsertResume(p) PROVE SubmitInv'
  <2>1. /\ pc[p] \in WakePCs /\ chain' = chain
        /\ \E l \in {"submit", "unref_waiter"} : Goto(p, l)
    BY Zenon, <1>4 DEF WakeWaiter, InsertResume, WakePCs
  <2>2. Only(p)
    BY Zenon, <1>a, <1>b, <2>1, Moves
  <2>3. PICK g \in Getters : g = Head(chain[p]) /\ g \in Placed
    BY Zenon, <2>1, AtHead
  <2>4. \A q \in Completers : q # p => pc'[q] # "submit"
    <3>1. \A q \in Completers : q # p => pc[q] \notin DrainPCs
      BY Zenon, <2>1, Winner DEF DrainPCs
    <3> QED BY Zenon, <2>2, <3>1 DEF Only, Procs, DrainPCs, WakePCs
  <2>5. g \in Procs /\ g # p
    BY Zenon, <1>b, Kinds DEF Procs, Nodes
  <2>6. CASE WakeWaiter(p)
    <3>1. pc[p] = "wake" /\ claimed' = claimed \cup {g} /\ inserted' = inserted
      BY Zenon, <2>3, <2>6 DEF WakeWaiter
    <3>2. g \notin claimed
      BY Zenon, <1>a, <2>3, <3>1 DEF ChainInv
    <3>3. pc'[g] = "wait"
      BY Zenon, <1>a, <2>2, <2>3, <2>5, <3>2 DEF GetterInv, Only
    <3>4. g \notin inserted
      BY Zenon, <3>2 DEF SubmitInv
    <3>5. pc'[p] = "submit" => g \in Coroutines
      <4>1. ASSUME g \notin Coroutines PROVE Goto(p, "unref_waiter")
        BY Zenon, <2>3, <2>6, <4>1 DEF WakeWaiter
      <4>2. ASSUME g \notin Coroutines PROVE pc'[p] = "unref_waiter"
        BY Zenon, <1>a, <1>b, <4>1, <4>2, Moves
      <4> QED BY Zenon, <4>2
    <3> QED BY Zenon, <2>1, <2>3, <2>4, <3>1, <3>3, <3>4, <3>5 DEF SubmitInv
  <2>7. CASE InsertResume(p)
    <3>1. /\ pc[p] = "submit" /\ claimed' = claimed /\ inserted' = inserted \cup {g}
          /\ Goto(p, "unref_waiter")
      BY Zenon, <2>3, <2>7 DEF InsertResume, nodeVars
    <3>2. pc'[p] # "submit"
      <4>1. pc'[p] = "unref_waiter"
        BY Zenon, <1>a, <1>b, <3>1, Moves
      <4> QED BY <4>1
    <3>3. g \in claimed \cap Coroutines
      BY Zenon, <2>3, <3>1 DEF SubmitInv
    <3> QED BY Zenon, <2>4, <3>1, <3>2, <3>3 DEF SubmitInv
  <2> QED BY Zenon, <1>4, <2>6, <2>7
<1> QED BY Zenon, <1>2, <1>3, <1>4 DEF Complete

LEMMA SubmitStep ==
  ASSUME IInv, SubmitInv, NEW p \in Procs, Step(p)
  PROVE  SubmitInv'
<1>a. TypeOK
  BY Zenon DEF IInv
<1>1. ASSUME NEW l, Goto(p, l), l # "submit", inserted' = inserted, claimed' = claimed,
             chain' = chain, p \in Coroutines /\ pc[p] = "wait" => p \in inserted
      PROVE  SubmitInv'
  <2>1. pc'[p] = l /\ Only(p)
    BY Zenon, <1>a, <1>1, Moves
  <2> QED BY Zenon, <1>1, <2>1, SubmitFrame
<1>2. ASSUME ThenCheck(p) \/ ThenPush(p) \/ Discard(p) \/ GetCheck(p) \/ GetPush(p)
             \/ GetWake(p) \/ GetRead(p) \/ Unref(p)
      PROVE  SubmitInv'
  <2>1. \E l \in {"run", "push", "unref", "release", "read", "wait"} : Goto(p, l)
    BY Zenon, <1>2 DEF ThenCheck, ThenPush, Discard, GetCheck, GetPush, GetWake, GetRead, Unref
  <2>2. inserted' = inserted /\ claimed' = claimed /\ chain' = chain
    BY Zenon, <1>2 DEF ThenCheck, ThenPush, Discard, GetCheck, GetPush, GetWake, GetRead, Unref,
       envVars, nodeVars
  <2>3. p \in Coroutines /\ pc[p] = "wait" => p \in inserted
    BY Zenon, <1>2 DEF ThenCheck, ThenPush, Discard, GetCheck, GetPush, GetWake, GetRead, Unref
  <2> QED BY Zenon, <1>1, <2>1, <2>2, <2>3
<1>3. ASSUME Run(p) PROVE SubmitInv'
  <2>1. \E l \in {"consume", "move", "zero", "unref_cont", "discard"} : Goto(p, l)
    BY Zenon, <1>3 DEF Run, RunCont, ConsumeOnce, Move, ZeroResult, AfterRun
  <2>2. inserted' = inserted /\ claimed' = claimed /\ chain' = chain
    BY Zenon, <1>3 DEF Run, RunCont, ConsumeOnce, Move, ZeroResult, envVars, nodeVars
  <2>3. pc[p] # "wait"
    BY Zenon, <1>3 DEF Run, RunCont, ConsumeOnce, Move, ZeroResult
  <2> QED BY Zenon, <1>1, <2>1, <2>2, <2>3
<1>4. ASSUME Release(p) PROVE SubmitInv'
  <2>1. /\ Goto(p, "done") /\ pc[p] # "wait"
        /\ inserted' = inserted /\ claimed' = claimed /\ chain' = chain
    BY Zenon, <1>4 DEF Release, envVars
  <2> QED BY Zenon, <1>1, <2>1
<1> QED BY Zenon, <1>2, <1>3, <1>4, SubmitComplete DEF Step

(* While sDrainWaiters submits a resume, its coroutine stays where it       *)
(* waited and its resume is in no queue, whatever happens to the scheduler. *)
THEOREM Submission == Spec => []SubmitInv
<1>1. Init => SubmitInv
  <2> SUFFICES ASSUME Init PROVE SubmitInv
    BY Zenon
  <2>1. inserted = {} /\ \A p \in Completers : pc[p] # "submit"
    BY Zenon DEF Init, Procs
  <2> QED BY Zenon, <2>1 DEF SubmitInv
<1>2. IInv /\ SubmitInv /\ [Next]_vars => SubmitInv'
  <2>1. ASSUME SubmitInv, UNCHANGED vars PROVE SubmitInv'
    BY Zenon, <2>1 DEF vars, envVars, nodeVars, procVars, SubmitInv
  <2> QED BY Zenon, <2>1, SubmitCall, SubmitStep DEF Next, Finished
<1> QED BY <1>1, <1>2, Invariance, PTL DEF Spec

(* When the future is gone, no call is under way and no node is left.       *)
LEMMA Gone ==
  ASSUME IInv, freed
  PROVE  /\ holders = {} /\ Placed = {}
         /\ \A p \in Procs : pc[p] \in {"idle", "done"}
         /\ \A n \in Nodes : nodeRefs[n] = 0
<1>a. TypeOK /\ RefInv /\ ChainInv /\ NodeInv
  BY Zenon DEF IInv
<1>1. holders = {}
  BY Zenon, <1>a DEF RefInv
<1>2. /\ \A p \in Procs : pc[p] \in {"idle", "done", "release"}
      /\ conts = <<>> /\ waiters = <<>>
  BY Zenon, <1>1, LastHolder
<1>3. ASSUME NEW p \in Procs PROVE pc[p] \in {"idle", "done"}
  <2>1. p \in Clients \/ p = Owner \/ p \in Values
    BY Zenon, Kinds DEF Completers
  <2>2. p \in Values => pc[p] # "release"
    BY Zenon, <1>a, SetLabels DEF TypeOK
  <2>3. p \in Clients \/ p = Owner => pc[p] # "release"
    BY Zenon, <1>a, <1>1 DEF RefInv
  <2> QED BY Zenon, <1>2, <2>1, <2>2, <2>3
<1>4. \A p \in Completers : chain[p] = <<>>
  BY Zenon, <1>a, <1>3 DEF ChainInv, WakePCs, RunPCs, BodyPCs, Procs
<1>5. Placed = {}
  <2>1. \A p \in Completers : Range(chain[p]) = {}
    BY Zenon, <1>4, EmptyElements
  <2>2. UNION {Range(chain[p]) : p \in Completers} = {}
    BY <2>1
  <2> QED BY Zenon, <1>2, <2>2, EmptyElements DEF Placed
<1>6. \A n \in Nodes : nodeRefs[n] = 0
  BY Zenon, <1>a, <1>3, <1>5 DEF NodeInv, Procs, Nodes
<1> QED BY Zenon, <1>1, <1>3, <1>5, <1>6

(* Everyone whom sRunContinuation or Get hands a result is handed the one   *)
(* that the winner of sFutureComplete's exchange published, or the zero a   *)
(* mover left.                                                              *)
THEOREM DeliversWinnerHolds == Spec => []DeliversWinner
<1>1. IInv => DeliversWinner
  BY Zenon DEF IInv, SawInv
<1> QED BY <1>1, Invariance, PTL

(* sFutureThen against sDrainContinuations: no continuation is called       *)
(* twice, and once the future is freed each accepted one has been called    *)
(* and its node is gone.                                                    *)
THEOREM RunsOnceHolds == Spec => []RunsOnce
<1>1. ASSUME IInv PROVE RunsOnce
  <2>1. TypeOK /\ ContInv
    BY Zenon, <1>1 DEF IInv
  <2>2. \A k \in Conts : ran[k] <= 1
    <3>1. \A k \in Conts : ran[k] \in {0, 1}
      BY Zenon, <2>1 DEF ContInv
    <3> QED BY <3>1
  <2> QED BY Zenon, <1>1, <2>1, <2>2, Gone DEF ContInv, RunsOnce
<1> QED BY <1>1, Invariance, PTL

(* No node that a stack, a drain or a call can reach and no future in use   *)
(* has been freed, and sDrainWaiters wakes a getter at most once and while  *)
(* it waits, for any number of calls.                                       *)
THEOREM NoDanglingHolds == Spec => []NoDangling
<1>1. ASSUME IInv, SubmitInv PROVE NoDangling
  <2>a. TypeOK /\ ChainInv /\ NodeInv /\ GetterInv
    BY Zenon, <1>1 DEF IInv
  <2>b. Reachable = Placed \cup {n \in Nodes : pc[n] \in {"push", "wait", "unref"}}
    BY Zenon DEF Reachable
  <2>1. ASSUME NEW n \in nodeFreed PROVE n \notin Reachable
    <3>1. n \in Nodes
      BY Zenon, <2>a DEF TypeOK
    <3>2. NodeInv!(n)
      BY Zenon, <2>a, <3>1 DEF NodeInv
    <3>3. n \notin Placed
      BY <2>1, <3>2
    <3> QED BY Zenon, <2>1, <2>b, <3>2, <3>3
  <2>2. ASSUME freed
        PROVE  Reachable = {} /\ holders = {} /\ \A p \in Procs : pc[p] \in {"idle", "done"}
    <3>1. \A n \in Nodes : pc[n] \notin {"push", "wait", "unref"}
      BY Zenon, <1>1, <2>2, Gone DEF Procs, Nodes
    <3> QED BY Zenon, <1>1, <2>2, <2>b, <3>1, Gone
  <2>3. ASSUME NEW p \in Completers, pc[p] = "wake"
        PROVE  LET g == Head(chain[p]) IN
               pc[g] = "wait" /\ signals[g] = 0 /\ g \notin nodeFreed \cup inserted
    <3>1. pc[p] \in WakePCs
      BY Zenon, <2>3 DEF WakePCs
    <3>2. PICK g \in Getters : g = Head(chain[p])
      BY Zenon, <1>1, <3>1, AtHead
    <3>3. g \in Placed /\ g \notin claimed
      BY Zenon, <1>1, <2>a, <2>3, <3>1, <3>2, AtHead DEF ChainInv
    <3>4. pc[g] = "wait" /\ signals[g] = 0
      BY Zenon, <2>a, <3>3 DEF GetterInv
    <3>5. g \notin nodeFreed /\ g \notin inserted
      BY Zenon, <1>1, <2>a, <3>3, <3>4 DEF NodeInv, Nodes, SubmitInv
    <3> QED BY Zenon, <3>2, <3>4, <3>5
  <2>4. ASSUME NEW p \in Completers, pc[p] = "submit"
        PROVE  LET g == Head(chain[p]) IN pc[g] = "wait" /\ g \notin nodeFreed \cup inserted
    <3>1. PICK g \in Coroutines : g = Head(chain[p]) /\ pc[g] = "wait" /\ g \notin inserted
      BY Zenon, <1>1, <2>4 DEF SubmitInv
    <3>2. g \notin nodeFreed
      BY Zenon, <2>a, <3>1, FutureAssumption DEF NodeInv, Nodes
    <3> QED BY Zenon, <3>1, <3>2
  <2> QED BY Zenon, <2>1, <2>2, <2>3, <2>4 DEF NoDangling
<1> QED BY <1>1, Invariance, Submission, PTL

(* A value is released, or handed on, once on whichever path it takes: a    *)
(* second Set, a lost race, a move, or the last UfsrvFutureRelease.         *)
THEOREM ValueReleasedOnceHolds == Spec => []ValueReleasedOnce
<1>1. ASSUME IInv PROVE ValueReleasedOnce
  <2> SUFFICES ASSUME NEW v \in Owned
               PROVE  disposed[v] <= 1 /\ (freed /\ pc[v] = "done" => disposed[v] = 1)
    BY Zenon DEF ValueReleasedOnce
  <2>1. ValueInv!(v)
    BY Zenon, <1>1 DEF IInv, ValueInv
  <2>2. disposed[v] = 0 \/ disposed[v] = 1
    BY Zenon, <2>1
  <2>3. disposed[v] <= 1
    BY <2>2
  <2> QED BY Zenon, <2>1, <2>3
<1> QED BY <1>1, Invariance, PTL

-----------------------------------------------------------------------------
(* Without movers the future implements the one-shot cell.                  *)
NoMovers == Movers = {} /\ OkMovers = {}

(* What the cell's users see of a step.                                     *)
SameAsked == \A n \in Nodes : pc'[n] = "idle" <=> pc[n] = "idle"
SameWorker == (scheduler' = "gone" <=> scheduler = "gone") /\ inserted' = inserted

LEMMA CellStutters ==
  ASSUME winner' = winner, aborted' = aborted, SameAsked,
         scheduler' = "gone" <=> scheduler = "gone", \A n \in Nodes : Told(n)' = Told(n)
  PROVE  UNCHANGED Cell!cellVars
<1>1. Content' = Content
  BY Zenon DEF Content, ResultOf
<1>2. {n \in Nodes : pc[n] # "idle"}' = {n \in Nodes : pc[n] # "idle"}
  BY Zenon DEF SameAsked
<1>3. [n \in Nodes |-> Told(n)]' = [n \in Nodes |-> Told(n)]
  BY Zenon
<1>4. (scheduler' = "gone") = (scheduler = "gone")
  OBVIOUS
<1> QED BY Zenon, <1>1, <1>2, <1>3, <1>4 DEF Cell!cellVars

LEMMA CellAnswers ==
  ASSUME winner' = winner, aborted' = aborted, SameAsked, SameWorker, NEW n \in Nodes,
         pc[n] # "idle", Told(n) = "none", \A m \in Nodes : m # n => Told(m)' = Told(m)
  PROVE  /\ Told(n)' = Failed => Cell!Refuse(n)
         /\ winner # "none" /\ ~aborted /\ Told(n)' = ResultOf(winner) => Cell!Tell(n)
<1>1. Content' = Content
  BY Zenon DEF Content, ResultOf
<1>2. /\ {m \in Nodes : pc[m] # "idle"}' = {m \in Nodes : pc[m] # "idle"}
      /\ n \in {m \in Nodes : pc[m] # "idle"}
  BY Zenon DEF SameAsked
<1>3. [m \in Nodes |-> Told(m)]' = [[m \in Nodes |-> Told(m)] EXCEPT ![n] = Told(n)']
  <2>1. \A m \in Nodes : Told(m)' = IF m = n THEN Told(n)' ELSE Told(m)
    BY Zenon
  <2> QED BY Zenon, <2>1
<1>4. [m \in Nodes |-> Told(m)][n] = "none"
  BY Zenon
<1>g. (scheduler' = "gone") = (scheduler = "gone")
  BY DEF SameWorker
<1>5. Told(n)' = Failed => Cell!Refuse(n)
  BY Zenon, <1>g, <1>1, <1>2, <1>3, <1>4 DEF Cell!Refuse
<1>6. ASSUME winner # "none", ~aborted, Told(n)' = ResultOf(winner) PROVE Cell!Tell(n)
  <2>1. "none" \notin Values /\ EPIPE # "none" /\ ECANCELED # "none"
    BY FutureAssumption DEF EPIPE, ECANCELED
  <2>2. Content = ResultOf(winner) /\ Content # "none"
    BY Zenon, <1>6, <2>1 DEF Content, ResultOf
  <2> QED BY Zenon, <1>g, <1>1, <1>2, <1>3, <1>4, <1>6, <2>2 DEF Cell!Tell
<1> QED BY Zenon, <1>5, <1>6

LEMMA Registered ==
  ASSUME NEW p, Only(p), ran' = ran,
         \A k \in Conts : k # p => /\ nodeRefs'[k] = nodeRefs[k]
                                   /\ k \in nodeFreed' <=> k \in nodeFreed,
         p \in Conts => (NotRegistered(p)' <=> NotRegistered(p))
  PROVE  \A k \in Conts : NotRegistered(k)' <=> NotRegistered(k)
<1> SUFFICES ASSUME NEW k \in Conts, k # p PROVE NotRegistered(k)' <=> NotRegistered(k)
  BY Zenon
<1>1. pc'[k] = pc[k]
  BY Zenon DEF Only, Procs
<1> QED BY Zenon, <1>1 DEF NotRegistered

LEMMA Resumed ==
  ASSUME NEW p, Only(p), SameWorker, p \in Nodes => (Unresumed(p)' <=> Unresumed(p))
  PROVE  \A n \in Nodes : Unresumed(n)' <=> Unresumed(n)
<1> SUFFICES ASSUME NEW n \in Nodes, n # p PROVE Unresumed(n)' <=> Unresumed(n)
  BY Zenon
<1>1. pc'[n] = pc[n]
  BY Zenon DEF Only, Procs, Nodes
<1> QED BY Zenon, <1>1 DEF Unresumed, SameWorker

(* Steps the users do not notice.                                           *)
LEMMA Silent ==
  ASSUME CellInv, NEW p, Only(p), winner' = winner, aborted' = aborted, SameWorker,
         p \in Nodes => (Unresumed(p)' <=> Unresumed(p)), consumed' = consumed, saw' = saw, ran' = ran, p \in Procs => pc'[p] # "consume",
         p \in Nodes => /\ pc[p] # "idle" /\ pc'[p] # "idle"
                        /\ pc[p] \in {"release", "done"} => pc'[p] \in {"release", "done"},
         \A k \in Conts : NotRegistered(k)' <=> NotRegistered(k)
  PROVE  CellInv' /\ UNCHANGED Cell!cellVars
<1>1. \A n \in Nodes : n \in Procs
  BY Zenon DEF Nodes, Procs
<1>2. CellInv'
  <2>1. \A q \in Procs : pc'[q] # "consume"
    BY Zenon DEF Only, CellInv
  <2>2. ~consumed'
    BY Zenon DEF CellInv
  <2>3. ASSUME NEW g \in Getters, pc'[g] \notin {"release", "done"} PROVE saw'[g] = "none"
    BY Zenon, <1>1, <2>3 DEF Only, CellInv, Nodes
  <2> QED BY Zenon, <2>1, <2>2, <2>3 DEF CellInv
<1>3. SameAsked
  BY Zenon, <1>1 DEF SameAsked, Only
<1>4. \A n \in Nodes : Told(n)' = Told(n)
  <2>1. \A n \in Nodes : Unresumed(n)' <=> Unresumed(n)
    BY Zenon, Resumed
  <2> QED BY Zenon, <2>1 DEF Told
<1> QED BY Zenon, <1>2, <1>3, <1>4, CellStutters DEF SameWorker

(* ... the producer's and the environment's among them.                     *)
LEMMA Unseen ==
  ASSUME CellInv, NEW p, Only(p), p \notin Nodes, p \in Procs => pc'[p] # "consume",
         winner' = winner, aborted' = aborted, SameWorker, consumed' = consumed,
         saw' = saw, ran' = ran, nodeRefs' = nodeRefs, nodeFreed' = nodeFreed
  PROVE  CellInv' /\ UNCHANGED Cell!cellVars
<1>1. p \notin Conts
  BY Zenon DEF Nodes
<1> QED BY Zenon, <1>1, Registered, Silent

CellStep == CellInv' /\ [Cell!Act]_(Cell!cellVars)

LEMMA CallSteps ==
  ASSUME IInv, SubmitInv, CellInv, Call
  PROVE  CellStep
<1>a. TypeOK
  BY Zenon DEF IInv
<1>b. /\ Owner \in Procs /\ Owner \notin Nodes /\ Values \subseteq Procs
      /\ \A v \in Values : v \notin Nodes
  BY Zenon, Kinds DEF Procs, Completers
<1>1. ASSUME NEW v \in Values, SetResult(v) PROVE CellStep
  <2>0. PICK l \in {"done", "claim"} : Goto(v, l)
    BY Zenon, <1>1 DEF SetResult
  <2>1. Only(v) /\ pc'[v] # "consume"
    BY Zenon, <1>a, <1>b, <2>0, Moves
  <2>2. /\ winner' = winner /\ aborted' = aborted /\ SameWorker
        /\ consumed' = consumed /\ saw' = saw
        /\ ran' = ran /\ nodeRefs' = nodeRefs /\ nodeFreed' = nodeFreed
    BY Zenon, <1>1 DEF SameWorker, SetResult, nodeVars, envVars
  <2> QED BY Zenon, <1>b, <2>1, <2>2, Unseen DEF CellStep
<1>2. ASSUME PromiseDestroy PROVE CellStep
  <2>0. PICK l \in {"release", "claim"} : Goto(Owner, l)
    BY Zenon, <1>2 DEF PromiseDestroy
  <2>1. Only(Owner) /\ pc'[Owner] # "consume"
    BY Zenon, <1>a, <1>b, <2>0, Moves
  <2>2. /\ winner' = winner /\ aborted' = aborted /\ SameWorker
        /\ consumed' = consumed /\ saw' = saw
        /\ ran' = ran /\ nodeRefs' = nodeRefs /\ nodeFreed' = nodeFreed
    BY Zenon, <1>2 DEF SameWorker, PromiseDestroy, nodeVars, envVars, history
  <2> QED BY Zenon, <1>b, <2>1, <2>2, Unseen DEF CellStep
<1>3. ASSUME NEW p \in Clients, Retain(p) PROVE CellStep
  <2>1. /\ Only(p) /\ pc'[p] # "consume" /\ pc'[p] # "idle" /\ pc[p] = "idle" /\ p \in Procs
        /\ p \in Nodes => pc'[p] = "check"
    <3>1. PICK l \in {IF p = Canceller THEN "claim" ELSE "check"} : Goto(p, l)
      BY Zenon, <1>3 DEF Retain
    <3>2. p \in Procs /\ pc[p] = "idle"
      BY Zenon, <1>3, Kinds DEF Retain, Completers
    <3>3. pc'[p] = l /\ Only(p)
      BY Zenon, <1>a, <3>1, <3>2, Moves
    <3> QED BY Zenon, <3>1, <3>2, <3>3, Kinds
  <2>2. /\ winner' = winner /\ aborted' = aborted /\ SameWorker
        /\ consumed' = consumed /\ saw' = saw
        /\ ran' = ran /\ nodeRefs' = nodeRefs /\ nodeFreed' = nodeFreed
    BY Zenon, <1>3 DEF SameWorker, Retain, flagVars, nodeVars, envVars, history
  <2>3. CASE p \notin Nodes
    BY Zenon, <2>1, <2>2, <2>3, Unseen DEF CellStep
  <2>4. CASE p \in Nodes
    <3>1. \A n \in Nodes : n # p => pc'[n] = pc[n]
      BY Zenon, <2>1 DEF Only, Nodes, Procs
    <3>2. \A n \in Nodes : Told(n)' = Told(n)
      <4>1. \A k \in Conts : NotRegistered(k)' <=> NotRegistered(k)
        BY Zenon, <2>1, <2>2, <2>4, Registered DEF NotRegistered
      <4>2. \A n \in Nodes : Unresumed(n)' <=> Unresumed(n)
        BY Zenon, <2>1, <2>2, <2>4, Resumed DEF Unresumed
      <4> QED BY Zenon, <2>2, <4>1, <4>2 DEF Told
    <3>3. [n \in Nodes |-> Told(n)]' = [n \in Nodes |-> Told(n)]
      BY Zenon, <3>2
    <3>4. {n \in Nodes : pc[n] # "idle"}' = {n \in Nodes : pc[n] # "idle"} \cup {p}
      BY <2>1, <2>4, <3>1
    <3>5. Content' = Content
      BY Zenon, <2>2 DEF Content, ResultOf
    <3>a. (scheduler' = "gone") = (scheduler = "gone")
      BY <2>2 DEF SameWorker
    <3>6. Cell!Ask(p)
      BY Zenon, <2>2, <3>a, <3>3, <3>4, <3>5 DEF Cell!Ask
    <3>7. CellInv'
      BY Zenon, <2>1, <2>2, <3>1 DEF CellInv, Only, Nodes
    <3> QED BY Zenon, <2>4, <3>6, <3>7 DEF Cell!Act, CellStep
  <2> QED BY Zenon, <2>3, <2>4
<1>4. ASSUME CallerRelease PROVE CellStep
  <2>1. /\ "caller" \in holders /\ DropFuture("caller") /\ pc' = pc
        /\ winner' = winner /\ aborted' = aborted /\ SameWorker
        /\ consumed' = consumed /\ saw' = saw
        /\ ran' = ran
    BY Zenon, <1>4 DEF SameWorker, CallerRelease, procVars, flagVars, envVars
  <2>2. nodeRefs' = nodeRefs /\ nodeFreed' = nodeFreed
    BY Zenon, <2>1, Dropped
  <2>3. Only("caller") /\ "caller" \notin Procs /\ "caller" \notin Nodes
    BY Zenon, <2>1, Kinds DEF Only
  <2> QED BY Zenon, <2>1, <2>2, <2>3, Unseen DEF CellStep
<1>5. ASSUME StopScheduler PROVE CellStep
  <2>1. /\ pc' = pc /\ winner' = winner /\ aborted' = aborted /\ SameWorker
        /\ consumed' = consumed /\ saw' = saw /\ ran' = ran /\ nodeRefs' = nodeRefs /\ nodeFreed' = nodeFreed
    BY Zenon, <1>5 DEF SameWorker, StopScheduler, procVars, flagVars, nodeVars, history
  <2>2. Only("caller") /\ "caller" \notin Procs /\ "caller" \notin Nodes
    BY Zenon, <2>1, Kinds DEF Only
  <2> QED BY Zenon, <2>1, <2>2, Unseen DEF CellStep
<1>6. ASSUME SchedulerExit PROVE CellStep
  <2>1. /\ pc' = pc /\ winner' = winner /\ aborted' = aborted /\ inserted' = inserted
        /\ consumed' = consumed /\ saw' = saw /\ ran' = ran /\ nodeRefs' = nodeRefs
        /\ nodeFreed' = nodeFreed
    BY Zenon, <1>6 DEF SchedulerExit, procVars, flagVars, nodeVars, history
  <2>2. CellInv'
    BY Zenon, <2>1 DEF CellInv
  <2>3. scheduler' = "gone" /\ scheduler # "gone"
    BY Zenon, <1>6 DEF SchedulerExit
  <2>4. \A n \in Nodes : ~Unresumed(n) /\ ~Unresumed(n)'
    BY Zenon, <1>6, <2>1, <2>3 DEF Unresumed, SchedulerExit, SubmitInv
  <2>5. \A n \in Nodes : Told(n)' = Told(n)
    BY Zenon, <2>1, <2>4 DEF Told, NotRegistered
  <2>6. [n \in Nodes |-> Told(n)]' = [n \in Nodes |-> Told(n)]
    BY Zenon, <2>5
  <2>7. /\ Content' = Content
        /\ {n \in Nodes : pc[n] # "idle"}' = {n \in Nodes : pc[n] # "idle"}
    BY Zenon, <2>1 DEF Content, ResultOf
  <2>8. (scheduler' = "gone") = TRUE
    BY <2>3
  <2>9. Cell!Leave
    BY Zenon, <2>1, <2>6, <2>7, <2>8 DEF Cell!Leave
  <2> QED BY Zenon, <2>2, <2>9 DEF Cell!Act, CellStep
<1> QED BY Zenon, <1>1, <1>2, <1>3, <1>4, <1>5, <1>6 DEF Call

(* The exchange on is_completed fills the cell; the rest of the winner's    *)
(* steps, but for the continuations it calls and the abort, are silent.     *)
LEMMA CompleteSteps ==
  ASSUME IInv, SubmitInv, CellInv, NEW p \in Completers, ~aborted, Complete(p)
  PROVE  CellStep
<1>a. TypeOK /\ RaceInv /\ NodeInv /\ ChainInv
  BY Zenon DEF IInv
<1>b. p \in Procs /\ p \notin Nodes /\ p \notin Conts /\ p # "none"
  BY Zenon, Kinds DEF Nodes
<1>1. ASSUME Publish(p) \/ SetReady(p) \/ StealWaiters(p) \/ StealConts(p) \/ TakeCont(p)
      PROVE  CellStep
  <2>0. PICK l \in {"ready", "steal_waiters", "wake", "steal_conts", "take_cont", "run",
                    "unref_cont", "done", "release"} : Goto(p, l)
    BY Zenon, <1>1 DEF Publish, SetReady, StealWaiters, StealConts, TakeCont, AfterComplete
  <2>1. Only(p) /\ pc'[p] # "consume"
    BY Zenon, <1>a, <1>b, <2>0, Moves
  <2>2. /\ winner' = winner /\ aborted' = aborted /\ SameWorker
        /\ consumed' = consumed /\ saw' = saw
        /\ ran' = ran /\ nodeRefs' = nodeRefs /\ nodeFreed' = nodeFreed
    BY Zenon, <1>1 DEF SameWorker, Publish, SetReady, StealWaiters, StealConts, TakeCont,
       flagVars, nodeVars, envVars, history
  <2> QED BY Zenon, <1>b, <2>1, <2>2, Unseen DEF CellStep
<1>2. ASSUME Claim(p) PROVE CellStep
  <2>0. PICK l \in {"publish", "done", "release"} : Goto(p, l)
    BY Zenon, <1>2 DEF Claim, AfterComplete
  <2>1. Only(p) /\ pc'[p] # "consume"
    BY Zenon, <1>a, <1>b, <2>0, Moves
  <2>2. /\ aborted' = aborted /\ SameWorker /\ consumed' = consumed /\ saw' = saw
        /\ ran' = ran /\ nodeRefs' = nodeRefs /\ nodeFreed' = nodeFreed
    BY Zenon, <1>2 DEF SameWorker, Claim, nodeVars, envVars
  <2>3. CASE completed
    <3>1. winner' = winner
      BY Zenon, <1>2, <2>3 DEF Claim
    <3> QED BY Zenon, <1>b, <2>1, <2>2, <3>1, Unseen DEF CellStep
  <2>4. CASE ~completed
    <3>1. winner = "none" /\ winner' = p
      BY Zenon, <1>a, <1>2, <2>4 DEF Claim, RaceInv
    <3>2. Content = "none" /\ Content' = ResultOf(p) /\ ResultOf(p) \in Results
      BY Zenon, <1>b, <3>1 DEF Content, ResultOf, Results
    <3>3. \A n \in Nodes : pc'[n] = pc[n]
      BY Zenon, <1>b, <2>1 DEF Only, Nodes, Procs
    <3>4. \A n \in Nodes : Told(n)' = Told(n)
      <4>1. \A n \in Nodes : Unresumed(n)' <=> Unresumed(n)
        BY Zenon, <1>b, <2>1, <2>2, Resumed
      <4> QED BY Zenon, <2>2, <3>3, <4>1 DEF Told, NotRegistered, Nodes
    <3>5. [n \in Nodes |-> Told(n)]' = [n \in Nodes |-> Told(n)]
      BY Zenon, <3>4
    <3>6. {n \in Nodes : pc[n] # "idle"}' = {n \in Nodes : pc[n] # "idle"}
      BY Zenon, <3>3
    <3>a. (scheduler' = "gone") = (scheduler = "gone")
      BY <2>2 DEF SameWorker
    <3>7. Cell!Fill
      BY Zenon, <2>2, <3>a, <3>2, <3>5, <3>6 DEF Cell!Fill
    <3>8. CellInv'
      BY Zenon, <2>1, <2>2, <3>3 DEF CellInv, Only, Nodes
    <3> QED BY Zenon, <3>7, <3>8 DEF Cell!Act, CellStep
  <2> QED BY Zenon, <2>3, <2>4
<1>3. ASSUME WakeWaiter(p) PROVE CellStep
  <2>0. PICK l \in {"submit", "unref_waiter"} : Goto(p, l)
    BY Zenon, <1>3 DEF WakeWaiter
  <2>1. Only(p) /\ pc'[p] # "consume"
    BY Zenon, <1>a, <1>b, <2>0, Moves
  <2>2. /\ winner' = winner /\ consumed' = consumed /\ saw' = saw /\ SameWorker
        /\ ran' = ran /\ nodeRefs' = nodeRefs /\ nodeFreed' = nodeFreed
    BY Zenon, <1>3 DEF SameWorker, WakeWaiter, flagVars, history
  <2>3. aborted' \in BOOLEAN /\ aborted = FALSE
    BY Zenon, <1>a, <1>3 DEF WakeWaiter, TypeOK
  <2>4. CASE aborted' = FALSE
    BY Zenon, <1>b, <2>1, <2>2, <2>3, <2>4, Unseen DEF CellStep
  <2>5. CASE aborted' = TRUE
    <3>1. \A n \in Nodes : pc'[n] = pc[n]
      BY Zenon, <1>b, <2>1 DEF Only, Nodes, Procs
    <3>2. \A n \in Nodes : Told(n)' = Told(n)
      <4>1. \A n \in Nodes : Unresumed(n)' <=> Unresumed(n)
        BY Zenon, <1>b, <2>1, <2>2, Resumed
      <4> QED BY Zenon, <2>2, <3>1, <4>1 DEF Told, NotRegistered, Nodes
    <3>3. [n \in Nodes |-> Told(n)]' = [n \in Nodes |-> Told(n)]
      BY Zenon, <3>2
    <3>4. {n \in Nodes : pc[n] # "idle"}' = {n \in Nodes : pc[n] # "idle"}
      BY Zenon, <3>1
    <3>5. winner = p
      BY Zenon, <1>a, <1>3 DEF RaceInv, WakeWaiter, DrainPCs, WakePCs
    <3>6. "none" \notin Values /\ EPIPE # "none" /\ ECANCELED # "none"
      BY FutureAssumption DEF EPIPE, ECANCELED
    <3>7. Content # "none" /\ Content' = Content
      BY Zenon, <1>b, <2>2, <3>5, <3>6 DEF Content, ResultOf
    <3>a. (scheduler' = "gone") = (scheduler = "gone")
      BY <2>2 DEF SameWorker
    <3>8. Cell!Abort
      BY Zenon, <2>5, <3>a, <3>3, <3>4, <3>7 DEF Cell!Abort
    <3>9. CellInv'
      BY Zenon, <2>1, <2>2, <3>1 DEF CellInv, Only, Nodes
    <3> QED BY Zenon, <3>8, <3>9 DEF Cell!Act, CellStep
  <2> QED BY Zenon, <2>3, <2>4, <2>5
<1>4. ASSUME UnrefWaiter(p) \/ UnrefCont(p) PROVE CellStep
  <2>0. PICK l \in {"steal_conts", "wake", "take_cont", "done", "release"} : Goto(p, l)
    BY Zenon, <1>4 DEF UnrefWaiter, UnrefCont, AfterComplete
  <2>1. Only(p) /\ pc'[p] # "consume"
    BY Zenon, <1>a, <1>b, <2>0, Moves
  <2>2. /\ winner' = winner /\ aborted' = aborted /\ SameWorker
        /\ consumed' = consumed /\ saw' = saw
        /\ ran' = ran /\ DropNode(Head(chain[p]), 1)
        /\ pc[p] \in {"unref_waiter", "unref_cont"} /\ pc[p] \in WakePCs \cup RunPCs
    BY Zenon, <1>4 DEF SameWorker, UnrefWaiter, UnrefCont, flagVars, envVars, history,
       WakePCs, RunPCs
  <2>3. PICK h \in Nodes : h = Head(chain[p]) /\ h \in Placed
    BY Zenon, <2>2, AtHead DEF Nodes
  <2>4. nodeRefs[h] \in {1, 2}
    BY Zenon, <1>a, <2>3 DEF NodeInv
  <2>5. \A m \in Nodes : m # h => /\ nodeRefs'[m] = nodeRefs[m]
                                  /\ m \in nodeFreed' <=> m \in nodeFreed
    <3>1. 1 <= nodeRefs[h] /\ 1 \in {1, 2}
      BY <2>4
    <3>2. DropNode(h, 1)
      BY Zenon, <2>2, <2>3
    <3>3. /\ \A m \in Nodes : m # h => nodeRefs'[m] = nodeRefs[m]
          /\ nodeFreed' = nodeFreed \cup {h} \/ nodeFreed' = nodeFreed
      BY Zenon, <1>a, <3>1, <3>2, Drop
    <3> QED BY Zenon, <3>3
  <2>6. h \in Conts => ran[h] = 1
    <3>1. pc[p] \in WakePCs => h \notin Conts
      BY Zenon, <2>2, <2>3, AtHead, Kinds
    <3>2. pc[p] = "unref_waiter" => pc[p] \in WakePCs
      BY Zenon DEF WakePCs
    <3> QED BY Zenon, <1>a, <2>2, <2>3, <3>1, <3>2 DEF ChainInv
  <2>7. \A k \in Conts : NotRegistered(k)' <=> NotRegistered(k)
    <3> SUFFICES ASSUME NEW k \in Conts PROVE NotRegistered(k)' <=> NotRegistered(k)
      BY Zenon
    <3>1. k \in Nodes /\ pc'[k] = pc[k]
      BY Zenon, <1>b, <2>1 DEF Only, Nodes, Procs
    <3>2. CASE k = h
      <4>1. ran[k] # 0
        BY <2>6, <3>2
      <4> QED BY Zenon, <2>2, <4>1 DEF NotRegistered
    <3>3. CASE k # h
      BY Zenon, <2>2, <2>5, <3>1, <3>3 DEF NotRegistered
    <3> QED BY Zenon, <3>2, <3>3
  <2> QED BY Zenon, <1>b, <2>1, <2>2, <2>7, Silent DEF CellStep
<1>5. ASSUME InsertResume(p) PROVE CellStep
  <2>1. /\ winner' = winner /\ consumed' = consumed /\ saw' = saw /\ aborted' = aborted
        /\ scheduler' = scheduler /\ ran' = ran /\ nodeRefs' = nodeRefs
        /\ nodeFreed' = nodeFreed
    BY Zenon, <1>5 DEF InsertResume, flagVars, nodeVars, history
  <2>2. PICK h \in Coroutines : /\ h = Head(chain[p]) /\ h \notin inserted /\ pc[h] = "wait"
                                /\ inserted' = inserted \cup {h}
    BY Zenon, <1>5 DEF InsertResume, SubmitInv
  <2>3. Only(p) /\ pc'[p] # "consume"
    <3>1. PICK l \in {"unref_waiter"} : Goto(p, l)
      BY Zenon, <1>5 DEF InsertResume
    <3> QED BY Zenon, <1>a, <1>b, <3>1, Moves
  <2>4. h \in Getters /\ h \in Nodes /\ h \notin Conts
    BY Zenon, <2>2, FutureAssumption DEF Nodes
  <2>5. \A n \in Nodes : pc'[n] = pc[n]
    BY Zenon, <1>b, <2>3 DEF Only, Nodes, Procs
  <2>6. CellInv'
    BY Zenon, <2>1, <2>3, <2>5 DEF CellInv, Only, Nodes
  <2>7. SameAsked
    BY Zenon, <2>5 DEF SameAsked
  <2>8. \A n \in Nodes : n # h => Told(n)' = Told(n)
    <3>1. \A n \in Nodes : n # h => (Unresumed(n)' <=> Unresumed(n))
      BY Zenon, <2>1, <2>2, <2>5 DEF Unresumed
    <3> QED BY Zenon, <2>1, <2>5, <3>1 DEF Told, NotRegistered
  <2>9. Told(h) = "none"
    BY Zenon, <2>2, <2>4 DEF Told, Unresumed, CellInv
  <2>10. CASE scheduler # "gone"
    <3>1. Told(h)' = "none"
      BY Zenon, <2>1, <2>2, <2>4, <2>10 DEF Told, Unresumed, CellInv
    <3>2. \A n \in Nodes : Told(n)' = Told(n)
      BY Zenon, <2>8, <2>9, <3>1
    <3> QED BY Zenon, <2>1, <2>6, <2>7, <3>2, CellStutters DEF CellStep
  <2>11. CASE scheduler = "gone"
    <3>1. Told(h)' = "stranded"
      BY Zenon, <2>1, <2>2, <2>4, <2>5, <2>11 DEF Told, Unresumed
    <3>2. [n \in Nodes |-> Told(n)]' = [[n \in Nodes |-> Told(n)] EXCEPT ![h] = "stranded"]
      <4>1. \A n \in Nodes : Told(n)' = IF n = h THEN "stranded" ELSE Told(n)
        BY Zenon, <2>8, <3>1
      <4> QED BY Zenon, <2>4, <4>1
    <3>3. [n \in Nodes |-> Told(n)][h] = "none"
      BY Zenon, <2>4, <2>9
    <3>4. /\ {n \in Nodes : pc[n] # "idle"}' = {n \in Nodes : pc[n] # "idle"}
          /\ h \in {n \in Nodes : pc[n] # "idle"}
      BY Zenon, <2>2, <2>4, <2>5
    <3>5. winner = p
      BY Zenon, <1>a, <1>5 DEF RaceInv, InsertResume, DrainPCs, WakePCs
    <3>6. "none" \notin Values /\ EPIPE # "none" /\ ECANCELED # "none"
      BY FutureAssumption DEF EPIPE, ECANCELED
    <3>7. Content # "none" /\ Content' = Content
      BY Zenon, <1>b, <2>1, <3>5, <3>6 DEF Content, ResultOf
    <3>8. (scheduler' = "gone") = (scheduler = "gone")
      BY Zenon, <2>1
    <3>9. Cell!Strand(h)
      BY Zenon, <2>1, <2>2, <2>11, <3>2, <3>3, <3>4, <3>7, <3>8 DEF Cell!Strand
    <3> QED BY Zenon, <2>4, <2>6, <3>9 DEF Cell!Act, CellStep
  <2> QED BY Zenon, <2>10, <2>11
<1> QED BY Zenon, <1>1, <1>2, <1>3, <1>4, <1>5 DEF Complete

(* A result is read whole, and nobody takes it.                             *)
LEMMA Reads ==
  ASSUME IInv, CellInv, ready
  PROVE  winner # "none" /\ result = ResultOf(winner)
<1>1. RaceInv /\ ResultInv
  BY Zenon DEF IInv
<1>2. ~Before(Unready)
  BY Zenon, <1>1 DEF RaceInv
<1>3. ~Before({"publish"}) /\ winner # "none"
  BY Zenon, <1>2 DEF Before, Unready
<1> QED BY Zenon, <1>1, <1>3 DEF ResultInv, CellInv, Published

(* A continuation is told when it is called.                                *)
LEMMA RunSteps ==
  ASSUME NoMovers, IInv, CellInv, NEW p \in Procs, ~aborted, Run(p)
  PROVE  CellStep
<1>a. TypeOK /\ NodeInv /\ ResultInv
  BY Zenon DEF IInv
<1>0. ~ConsumeOnce(p) /\ ~Move(p) /\ ~ZeroResult(p)
  <2>1. ~Moving(p) /\ pc[p] # "consume"
    BY Zenon, <1>a DEF ResultInv, CellInv
  <2> QED BY Zenon, <2>1 DEF Moving, ConsumeOnce, Move, ZeroResult
<1>b. RunCont(p) /\ pc[p] = "run" /\ pc[p] \in BodyPCs
  BY Zenon, <1>0 DEF Run, RunCont, BodyPCs
<1>c. PICK k \in Conts : k = cur[p]
  BY Zenon, <1>b, Body
<1>d. /\ ready /\ ran[k] = 0 /\ k \in Nodes /\ k \in Procs
      /\ p \in Completers => k \in Placed /\ p \notin Nodes
      /\ p \in Conts => k = p
      /\ p \in Completers \/ p \in Conts
  BY Zenon, <1>b, <1>c, Body, Kinds DEF Nodes
<1>e. /\ winner' = winner /\ aborted' = aborted /\ SameWorker /\ consumed' = consumed
      /\ nodeRefs' = nodeRefs /\ nodeFreed' = nodeFreed
      /\ ran' = [ran EXCEPT ![k] = @ + 1] /\ saw' = [saw EXCEPT ![k] = result]
  BY Zenon, <1>b, <1>c DEF SameWorker, RunCont, flagVars, nodeVars, envVars
<1>f. /\ pc'[p] = AfterRun(p) /\ Only(p)
  <2>1. Goto(p, AfterRun(p))
    BY Zenon, <1>b, <1>c DEF RunCont, NoMovers
  <2> QED BY Zenon, <1>a, <2>1, Moves
<1>g. pc'[p] \in {"unref_cont", "discard"}
  BY Zenon, <1>f DEF AfterRun
<1>h. /\ ran'[k] = 1 /\ \A j \in Conts : j # k => ran'[j] = ran[j]
  BY <1>a, <1>d, <1>e DEF TypeOK
<1>i. /\ saw'[k] = result /\ \A n \in Nodes : n # k => saw'[n] = saw[n]
  BY Zenon, <1>a, <1>d, <1>e DEF TypeOK
<1>j. \A n \in Nodes : n # p => pc'[n] = pc[n]
  BY Zenon, <1>f DEF Only, Nodes, Procs
<1>1. CellInv'
  <2>1. \A q \in Procs : pc'[q] # "consume"
    BY Zenon, <1>f, <1>g DEF Only, CellInv
  <2>2. \A j \in Conts : ran'[j] = 0 => saw'[j] = "none"
    <3>1. ran'[k] # 0
      BY <1>h
    <3> QED BY Zenon, <1>h, <1>i, <3>1 DEF CellInv, Nodes
  <2>3. \A g \in Getters : g # k /\ g # p /\ g \in Nodes
    BY Zenon, <1>c, <1>d, Kinds DEF Nodes
  <2> QED BY Zenon, <1>e, <1>i, <1>j, <2>1, <2>2, <2>3 DEF CellInv
<1>2. SameAsked
  BY Zenon, <1>b, <1>g, <1>j DEF SameAsked
<1>3. pc[k] # "idle" /\ ~NotRegistered(k)
  <2>1. CASE p \in Conts
    BY Zenon, <1>b, <1>d, <2>1 DEF NotRegistered
  <2>2. CASE p \in Completers
    <3>1. pc[k] # "idle" /\ nodeRefs[k] \in {1, 2}
      BY Zenon, <1>a, <1>d, <2>2 DEF NodeInv
    <3>2. nodeRefs[k] # 0
      BY <3>1
    <3> QED BY Zenon, <3>1, <3>2 DEF NotRegistered
  <2> QED BY Zenon, <1>d, <2>1, <2>2
<1>k. \A n \in Conts : ~Unresumed(n) /\ ~Unresumed(n)'
  BY Zenon, <1>a, <1>e, Kinds DEF TypeOK, Unresumed, SameWorker
<1>4. Told(k) = "none"
  BY Zenon, <1>d, <1>k, <1>3 DEF Told, CellInv
<1>5. Told(k)' = ResultOf(winner) /\ winner # "none"
  <2>1. ran'[k] # 0
    BY <1>h
  <2>2. ~NotRegistered(k)'
    BY Zenon, <2>1 DEF NotRegistered
  <2> QED BY Zenon, <1>d, <1>i, <1>k, <2>2, Reads DEF Told
<1>6. \A n \in Nodes : n # k => Told(n)' = Told(n)
  <2>1. ASSUME NEW n \in Nodes, n # k, n \in Conts PROVE NotRegistered(n)' <=> NotRegistered(n)
    <3>1. n # p
      BY Zenon, <1>d, <2>1, Kinds
    <3> QED BY Zenon, <1>e, <1>h, <1>j, <2>1, <3>1 DEF NotRegistered
  <2>2. \A n \in Nodes : Unresumed(n)' <=> Unresumed(n)
    BY Zenon, <1>d, <1>e, <1>f, <1>k, Resumed
  <2> QED BY Zenon, <1>i, <2>1, <2>2 DEF Told
<1>7. Cell!Tell(k)
  BY Zenon, <1>d, <1>e, <1>2, <1>3, <1>4, <1>5, <1>6, CellAnswers
<1> QED BY Zenon, <1>d, <1>1, <1>7 DEF Cell!Act, CellStep

(* A getter is told when it reads; a call that has no memory is refused.    *)
LEMMA AnswerSteps ==
  ASSUME IInv, CellInv, NEW n \in Nodes, ~aborted,
         \/ n \in Getters /\ GetRead(n)
         \/ n \in Getters /\ GetCheck(n) /\ Goto(n, "release")
         \/ n \in Conts /\ ThenCheck(n) /\ Goto(n, "release")
  PROVE  CellStep
<1>a. TypeOK /\ NodeInv /\ GetterInv /\ ContInv
  BY Zenon DEF IInv
<1>b. n \in Procs /\ (n \in Getters => n \notin Conts)
  BY Zenon, Kinds
<1>c. pc'[n] = "release" /\ Only(n) /\ pc[n] \in {"read", "check"}
  <2>1. Goto(n, "release") /\ pc[n] \in {"read", "check"}
    BY Zenon DEF GetRead, GetCheck, ThenCheck
  <2> QED BY Zenon, <1>a, <1>b, <2>1, Moves
<1>d. /\ winner' = winner /\ aborted' = aborted /\ SameWorker
      /\ consumed' = consumed /\ ran' = ran
      /\ nodeFreed' = nodeFreed
  BY Zenon DEF SameWorker, GetRead, GetCheck, ThenCheck, flagVars, nodeVars, envVars, history
<1>e. nodeRefs' = nodeRefs
  <2>1. pc' # [pc EXCEPT ![n] = "run"] /\ pc' # [pc EXCEPT ![n] = "push"]
        /\ pc' # [pc EXCEPT ![n] = "read"]
    BY Zenon, <1>a, <1>b, <1>c DEF TypeOK
  <2> QED BY Zenon, <2>1 DEF GetRead, GetCheck, ThenCheck, Goto, nodeVars
<1>f. \A m \in Nodes : m # n => pc'[m] = pc[m]
  BY Zenon, <1>c DEF Only, Nodes, Procs
<1>g. /\ \A m \in Nodes : m # n => saw'[m] = saw[m]
      /\ n \in Conts => saw' = saw
  <2>1. \/ saw' = saw
        \/ n \in Getters /\ (saw' = [saw EXCEPT ![n] = result] \/ saw' = [saw EXCEPT ![n] = Failed])
    BY Zenon DEF GetRead, GetCheck, ThenCheck, history
  <2> QED BY Zenon, <1>a, <1>b, <2>1 DEF TypeOK
<1>1. CellInv'
  <2>1. \A q \in Procs : pc'[q] # "consume"
    BY Zenon, <1>c DEF Only, CellInv
  <2>2. \A j \in Conts : saw'[j] = saw[j]
    BY Zenon, <1>b, <1>g DEF Nodes
  <2>3. \A g \in Getters : pc'[g] \notin {"release", "done"} => saw'[g] = "none"
    BY Zenon, <1>c, <1>f, <1>g DEF CellInv, Nodes
  <2> QED BY Zenon, <1>d, <2>1, <2>2, <2>3 DEF CellInv
<1>2. SameAsked
  BY Zenon, <1>c, <1>f DEF SameAsked
<1>h. ~Unresumed(n) /\ ~Unresumed(n)'
  BY Zenon, <1>c DEF Unresumed
<1>3. Told(n) = "none"
  <2>1. CASE n \in Getters
    BY Zenon, <1>b, <1>c, <1>h, <2>1 DEF Told, CellInv
  <2>2. CASE n \in Conts
    <3>1. pc[n] = "check"
      BY Zenon, <1>b, <2>2 DEF ThenCheck
    <3> QED BY Zenon, <1>a, <1>h, <2>2, <3>1 DEF Told, CellInv, ContInv, NotRegistered
  <2> QED BY Zenon, <2>1, <2>2 DEF Nodes
<1>4. \A m \in Nodes : m # n => Told(m)' = Told(m)
  <2>1. \A m \in Nodes : Unresumed(m)' <=> Unresumed(m)
    BY Zenon, <1>c, <1>d, <1>h, Resumed
  <2> QED BY Zenon, <1>d, <1>e, <1>f, <1>g, <2>1 DEF Told, NotRegistered
<1>5. CASE n \in Conts
  <2>1. pc[n] = "check"
    BY Zenon, <1>b, <1>5 DEF ThenCheck
  <2>2. ran[n] = 0 /\ nodeRefs[n] = 0 /\ n \notin nodeFreed
    BY Zenon, <1>a, <1>5, <2>1 DEF NodeInv, ContInv
  <2>3. Told(n)' = Failed
    BY Zenon, <1>c, <1>d, <1>e, <1>5, <2>2 DEF Told, NotRegistered
  <2> QED BY Zenon, <1>c, <1>d, <1>1, <1>2, <1>3, <1>4, <2>3, CellAnswers DEF Cell!Act, CellStep
<1>6. CASE n \in Getters /\ GetRead(n)
  <2>1. ready
    BY Zenon, <1>a, <1>6 DEF GetterInv, GetRead
  <2>2. saw'[n] = result
    BY Zenon, <1>a, <1>6 DEF GetRead, TypeOK
  <2>3. winner # "none" /\ Told(n)' = ResultOf(winner)
    BY Zenon, <1>b, <1>h, <1>6, <2>1, <2>2, Reads DEF Told
  <2> QED BY Zenon, <1>c, <1>d, <1>1, <1>2, <1>3, <1>4, <2>3, CellAnswers DEF Cell!Act, CellStep
<1>7. CASE n \in Getters /\ GetCheck(n)
  <2>1. saw' = [saw EXCEPT ![n] = Failed]
    <3>1. pc' # [pc EXCEPT ![n] = "push"] /\ pc' # [pc EXCEPT ![n] = "read"]
      BY Zenon, <1>a, <1>b, <1>c DEF TypeOK
    <3> QED BY Zenon, <1>7, <3>1 DEF GetCheck, Goto
  <2>2. Told(n)' = Failed
    BY Zenon, <1>a, <1>b, <1>h, <1>7, <2>1 DEF Told, TypeOK
  <2> QED BY Zenon, <1>c, <1>d, <1>1, <1>2, <1>3, <1>4, <2>2, CellAnswers DEF Cell!Act, CellStep
<1> QED BY Zenon, <1>b, <1>5, <1>6, <1>7

(* The other steps of a call are silent: they move its node about.          *)
LEMMA QuietSteps ==
  ASSUME IInv, SubmitInv, CellInv, NEW n \in Nodes, ~aborted,
         \/ n \in Conts /\ ThenCheck(n) /\ pc'[n] # "release"
         \/ n \in Conts /\ (ThenPush(n) \/ Discard(n))
         \/ n \in Getters /\ GetCheck(n) /\ pc'[n] # "release"
         \/ n \in Getters /\ (GetPush(n) \/ GetWake(n))
         \/ Unref(n)
  PROVE  CellStep
<1>a. TypeOK /\ NodeInv /\ ContInv
  BY Zenon DEF IInv
<1>b. n \in Procs /\ (n \in Getters => n \notin Conts)
  BY Zenon, Kinds
<1>c. /\ Only(n) /\ pc'[n] \in {"run", "push", "unref", "release", "read", "wait"}
      /\ pc[n] \in {"check", "push", "discard", "wait", "unref"}
  <2>0. PICK l \in {"run", "push", "unref", "release", "read", "wait"} : Goto(n, l)
    BY Zenon DEF ThenCheck, ThenPush, Discard, GetCheck, GetPush, GetWake, Unref
  <2>1. pc[n] \in {"check", "push", "discard", "wait", "unref"}
    BY Zenon DEF ThenCheck, ThenPush, Discard, GetCheck, GetPush, GetWake, Unref
  <2> QED BY Zenon, <1>a, <1>b, <2>0, <2>1, Moves
<1>d. /\ winner' = winner /\ aborted' = aborted /\ SameWorker
      /\ consumed' = consumed /\ ran' = ran
  BY Zenon DEF SameWorker, ThenCheck, ThenPush, Discard, GetCheck, GetPush, GetWake, Unref,
     flagVars, envVars, history
<1>e. saw' = saw
  <2>1. CASE GetCheck(n) /\ pc'[n] # "release"
    <3>1. pc' # [pc EXCEPT ![n] = "release"]
      BY Zenon, <1>a, <1>b, <2>1 DEF TypeOK
    <3> QED BY Zenon, <2>1, <3>1 DEF GetCheck, Goto
  <2> QED BY Zenon, <2>1 DEF ThenCheck, ThenPush, Discard, GetPush, GetWake, Unref, history
<1>f. \A k \in Conts : k # n => /\ nodeRefs'[k] = nodeRefs[k]
                                /\ k \in nodeFreed' <=> k \in nodeFreed
  <2>1. \/ nodeRefs' = nodeRefs /\ nodeFreed' = nodeFreed
        \/ nodeRefs' = [nodeRefs EXCEPT ![n] = 2] /\ nodeFreed' = nodeFreed
        \/ DropNode(n, 1) \/ DropNode(n, 2)
    BY Zenon DEF ThenCheck, ThenPush, Discard, GetCheck, GetPush, GetWake, Unref, nodeVars
  <2>2. \A k \in Conts : k \in Nodes
    BY Zenon DEF Nodes
  <2>3. \A k \in Nodes : k # n => nodeRefs'[k] = nodeRefs[k]
    <3>1. \/ nodeRefs' = nodeRefs
          \/ \E c : nodeRefs' = [nodeRefs EXCEPT ![n] = c]
      BY Zenon, <2>1 DEF DropNode
    <3> QED BY Zenon, <1>a, <3>1 DEF TypeOK
  <2>4. nodeFreed' = nodeFreed \/ nodeFreed' = nodeFreed \cup {n}
    BY Zenon, <2>1 DEF DropNode
  <2> QED BY Zenon, <2>2, <2>3, <2>4
<1>g. n \in Conts => ~NotRegistered(n) /\ ~NotRegistered(n)'
  <2>1. ASSUME n \in Conts, pc'[n] = "release" PROVE Discard(n) \/ Unref(n)
    <3>1. CASE ThenPush(n)
      <4>0. PICK l \in {"run", "unref"} : Goto(n, l)
        BY Zenon, <3>1 DEF ThenPush
      <4> QED BY Zenon, <1>a, <1>b, <2>1, <4>0, Moves
    <3> QED BY Zenon, <1>b, <2>1, <3>1
  <2>2. ASSUME n \in Conts, Discard(n) PROVE ran'[n] # 0
    <3>1. ran[n] = 1
      BY Zenon, <1>a, <2>2 DEF Discard, ContInv
    <3> QED BY <1>d, <3>1
  <2>3. ASSUME n \in Conts, Unref(n) PROVE ran'[n] # 0 \/ nodeRefs'[n] # 0
    <3>1. CASE n \in Placed
      <4>1. nodeRefs[n] = 2 /\ nodeRefs' = [nodeRefs EXCEPT ![n] = @ - 1]
        BY Zenon, <1>a, <2>3, <3>1 DEF Unref, NodeInv, DropNode
      <4>2. 2 - 1 = 1 /\ 1 # 0
        OBVIOUS
      <4>3. nodeRefs' = [nodeRefs EXCEPT ![n] = 1]
        BY Zenon, <4>1, <4>2
      <4> QED BY Zenon, <1>a, <4>2, <4>3 DEF TypeOK
    <3>2. CASE n \notin Placed
      <4>1. ran[n] = 1
        BY Zenon, <1>a, <2>3, <3>2 DEF Unref, ContInv
      <4> QED BY <1>d, <4>1
    <3> QED BY ZenonT(30), <3>1, <3>2
  <2> QED BY Zenon, <1>c, <2>1, <2>2, <2>3 DEF NotRegistered
<1>1. \A k \in Conts : NotRegistered(k)' <=> NotRegistered(k)
  BY Zenon, <1>c, <1>d, <1>f, <1>g, Registered
<1>h. ~Unresumed(n) /\ ~Unresumed(n)'
  <2>1. CASE pc[n] = "wait"
    <3>1. GetWake(n) /\ pc'[n] # "wait"
      <4>1. GetWake(n) /\ \E l \in {"unref"} : Goto(n, l)
        BY Zenon, <2>1 DEF ThenCheck, ThenPush, Discard, GetCheck, GetPush, GetWake, Unref
      <4> QED BY Zenon, <1>a, <1>b, <4>1, Moves
    <3> QED BY Zenon, <3>1 DEF Unresumed, GetWake, SubmitInv
  <2>2. CASE pc[n] # "wait" /\ pc'[n] # "wait"
    BY Zenon, <2>2 DEF Unresumed
  <2>3. CASE pc[n] # "wait" /\ pc'[n] = "wait"
    <3>1. pc[n] = "push"
      <4>1. ASSUME ~GetPush(n) PROVE \E l \in {"run", "push", "unref", "release", "read"} : Goto(n, l)
        BY Zenon, <4>1 DEF ThenCheck, ThenPush, Discard, GetCheck, GetWake, Unref
      <4>2. GetPush(n)
        BY Zenon, <1>a, <1>b, <2>3, <4>1, Moves
      <4> QED BY Zenon, <4>2 DEF GetPush
    <3> QED BY Zenon, <1>a, <1>d, <2>3, <3>1 DEF Unresumed, NodeInv, SubmitInv, SameWorker
  <2> QED BY Zenon, <2>1, <2>2, <2>3
<1>2. CellInv' /\ UNCHANGED Cell!cellVars
  BY Zenon, <1>c, <1>d, <1>e, <1>h, <1>1, Silent
<1> QED BY Zenon, <1>2 DEF CellStep

LEMMA ReleaseSteps ==
  ASSUME IInv, CellInv, NEW p \in Procs, ~aborted, Release(p)
  PROVE  CellStep
<1>a. TypeOK /\ RefInv
  BY Zenon DEF IInv
<1>b. /\ pc[p] = "release" /\ DropFuture(p) /\ Goto(p, "done")
      /\ winner' = winner /\ aborted' = aborted /\ SameWorker /\ consumed' = consumed
      /\ ran' = ran /\ saw' = saw
  BY Zenon DEF SameWorker, Release, flagVars, envVars
<1>c. pc'[p] = "done" /\ Only(p)
  BY Zenon, <1>a, <1>b, Moves
<1>d. p \in holders
  <2>1. p \notin Values
    BY Zenon, <1>a, <1>b, SetLabels DEF TypeOK
  <2>2. p \in Clients \/ p = Owner
    BY Zenon, <2>1, Kinds DEF Completers
  <2> QED BY Zenon, <1>a, <1>b, <2>2 DEF RefInv
<1>e. nodeRefs' = nodeRefs /\ nodeFreed' = nodeFreed
  BY Zenon, <1>b, <1>d, Dropped
<1>1. \A k \in Conts : NotRegistered(k)' <=> NotRegistered(k)
  <2>1. NotRegistered(p)' <=> NotRegistered(p)
    BY Zenon, <1>b, <1>c, <1>e DEF NotRegistered
  <2> QED BY Zenon, <1>b, <1>c, <1>e, <2>1, Registered
<1>2. ~Unresumed(p) /\ ~Unresumed(p)'
  BY Zenon, <1>b, <1>c DEF Unresumed
<1>3. CellInv' /\ UNCHANGED Cell!cellVars
  BY Zenon, <1>b, <1>c, <1>1, <1>2, Silent
<1> QED BY Zenon, <1>3 DEF CellStep

LEMMA CellNext == NoMovers /\ IInv /\ SubmitInv /\ CellInv /\ [Next]_vars => CellStep
<1> SUFFICES ASSUME NoMovers, IInv, SubmitInv, CellInv, [Next]_vars PROVE CellStep
  BY Zenon
<1>1. ASSUME UNCHANGED vars PROVE CellStep
  <2>1. /\ winner' = winner /\ aborted' = aborted /\ SameWorker
        /\ consumed' = consumed /\ saw' = saw
        /\ ran' = ran /\ nodeRefs' = nodeRefs /\ nodeFreed' = nodeFreed /\ pc' = pc
    BY Zenon, <1>1 DEF SameWorker, vars, envVars, nodeVars, procVars, flagVars, history
  <2>2. Only("caller") /\ "caller" \notin Procs /\ "caller" \notin Nodes
    BY Zenon, <2>1, Kinds DEF Only
  <2> QED BY Zenon, <2>1, <2>2, Unseen DEF CellStep
<1>2. ASSUME NEW p \in Procs, Step(p) PROVE CellStep
  <2>1. ~aborted
    BY Zenon, <1>2 DEF Step
  <2>2. ASSUME p \in Nodes, (p \in Conts /\ ThenCheck(p)) \/ (p \in Getters /\ GetCheck(p))
        PROVE  CellStep
    <3>1. PICK l \in {"run", "push", "read", "release"} : Goto(p, l)
      BY Zenon, <2>2 DEF ThenCheck, GetCheck
    <3>2. pc'[p] = l
      BY Zenon, <3>1, Moves DEF IInv
    <3> QED BY Zenon, <2>1, <2>2, <3>1, <3>2, AnswerSteps, QuietSteps
  <2>3. p \in Conts \/ p \in Getters => p \in Nodes
    BY Zenon DEF Nodes
  <2> QED BY Zenon, <1>2, <2>1, <2>2, <2>3, CompleteSteps, AnswerSteps, QuietSteps, RunSteps,
          ReleaseSteps DEF Step
<1> QED BY Zenon, <1>1, <1>2, CallSteps DEF Next, Finished

LEMMA CellStart == Init => CellInv /\ Cell!Start
<1> SUFFICES ASSUME Init PROVE CellInv /\ Cell!Start
  BY Zenon
<1>1. \A p \in Procs : pc[p] = "idle"
  BY Zenon DEF Init
<1>2. \A n \in Nodes : saw[n] = "none" /\ Told(n) = "none" /\ pc[n] = "idle" /\ n \in Procs
  BY Zenon, <1>1 DEF Init, Told, NotRegistered, Unresumed, Nodes, Procs
<1>3. CellInv
  BY Zenon, <1>1, <1>2 DEF Init, CellInv, Nodes
<1>4. Content = "none" /\ aborted = FALSE /\ (scheduler = "gone") = FALSE
  BY DEF Init, Content
<1>5. {n \in Nodes : pc[n] # "idle"} = {}
  BY Zenon, <1>2
<1>6. [n \in Nodes |-> Told(n)] = [n \in Nodes |-> "none"]
  BY Zenon, <1>2
<1> QED BY Zenon, <1>3, <1>4, <1>5, <1>6 DEF Cell!Start

(* Without movers the future implements the one-shot cell, for any sets of  *)
(* Set calls, continuations and getters: the exchange on is_completed is    *)
(* the fill, a continuation's call and a getter's read are the only steps   *)
(* that hand the content out, each once, a refused Then or Get was handed   *)
(* nothing, and only a coroutine whose resume is inserted after the worker  *)
(* left can be stranded.                                                    *)
THEOREM RefinesCell == NoMovers => (Spec => Cell!CellSafety)
<1> SUFFICES ASSUME NoMovers PROVE Spec => Cell!CellSafety
  OBVIOUS
<1>1. IInv /\ SubmitInv /\ CellInv /\ [Next]_vars => CellInv' /\ [Cell!Act]_(Cell!cellVars)
  BY CellNext DEF CellStep
<1> QED BY <1>1, CellStart, Invariance, Submission, PTL DEF Spec, Cell!CellSafety
=============================================================================
