------------------------- MODULE CombinatorsProofs --------------------------
(***************************************************************************)
(* Proofs about module Combinators: the counter protocol of all, any and   *)
(* zip, for any number of inputs and of entries of the array.              *)
(***************************************************************************)
EXTENDS Combinators, Chains

Still(p) == \A q \in Procs : q # p => at'[q] = at[q]
Kept == kind' = kind /\ slots' = slots

Words == HolderPCs \cup CallerPCs \cup InputPCs

(* at is well typed in the next state.                                      *)
AtTyped ==
  /\ at' \in [Procs -> [pc : Words, slot : 0..Count, give : Gives]]
  /\ \A p \in Procs : at'[p].pc \in PCs(p)

LEMMA Numbers ==
  /\ Caller \in Procs /\ Caller \notin Inputs /\ Caller = 0 /\ Null = 0
  /\ \A f \in Inputs : f \in Procs /\ f # Caller /\ f # Null /\ f \in Nat /\ f # 0
  /\ \A p \in Procs : p = Caller \/ p \in Inputs
  BY CombinatorsAssumption DEF Procs, Caller, Null, Inputs

(* The labels, which are strings, and who is where.                         *)
LEMMA Labels ==
  ASSUME NEW p \in Procs
  PROVE  /\ HolderPCs \subseteq PCs(p)
         /\ p = Caller => {"start", "register", "returned"} \subseteq PCs(p)
         /\ p \in Inputs => {"idle", "drain", "done"} \subseteq PCs(p)
         /\ p = Caller => "idle" \notin PCs(p) /\ "drain" \notin PCs(p) /\ "done" \notin PCs(p)
         /\ p \in Inputs => "start" \notin PCs(p) /\ "register" \notin PCs(p)
                              /\ "returned" \notin PCs(p)
<1>1. p \in Inputs => p # Caller
  BY Zenon, Numbers
<1> QED BY Zenon, <1>1 DEF PCs, HolderPCs, CallerPCs, InputPCs

LEMMA Known ==
  ASSUME NEW p
  PROVE  \A l \in PCs(p) : l \in Words
  BY Zenon DEF PCs, Words

LEMMA Arrays ==
  ASSUME ShapeInv
  PROVE  /\ Count \in Nat /\ DOMAIN slots = 1..Count
         /\ \A i \in 1..Count : slots[i] \in Inputs \cup {Null}
         /\ 0 \notin 1..Count /\ 0 \in 0..Count /\ \A i \in 1..Count : i \in 0..Count
  BY DEF ShapeInv, Count

(* A process goes on to something else ...                                  *)
LEMMA Becomes ==
  ASSUME TypeOK, NEW p \in Procs, NEW l \in PCs(p), NEW i \in 0..Count, NEW r \in Gives,
         Become(p, l, i, r)
  PROVE  /\ at'[p].pc = l /\ at'[p].slot = i /\ at'[p].give = r
         /\ Still(p) /\ AtTyped
<1>1. at \in [Procs -> [pc : Words, slot : 0..Count, give : Gives]]
  BY Zenon DEF TypeOK, Words
<1>2. at' = [at EXCEPT ![p] = [pc |-> l, slot |-> i, give |-> r]]
  BY Zenon DEF Become
<1>3. l \in Words
  BY Zenon, Known
<1>4. at' \in [Procs -> [pc : Words, slot : 0..Count, give : Gives]]
  BY <1>1, <1>2, <1>3
<1>5. at'[p].pc = l /\ at'[p].slot = i /\ at'[p].give = r
  BY <1>1, <1>2
<1>6. Still(p)
  BY Zenon, <1>1, <1>2 DEF Still
<1>7. \A q \in Procs : at'[q].pc \in PCs(q)
  BY Zenon, <1>5, <1>6 DEF Still, TypeOK
<1> QED BY Zenon, <1>4, <1>5, <1>6, <1>7 DEF AtTyped

(* ... or to its next step for the same entry.                              *)
LEMMA Goes ==
  ASSUME TypeOK, NEW p \in Procs, NEW l \in PCs(p), Goto(p, l)
  PROVE  /\ at'[p].pc = l /\ at'[p].slot = at[p].slot /\ at'[p].give = at[p].give
         /\ Still(p) /\ AtTyped
<1>1. at \in [Procs -> [pc : Words, slot : 0..Count, give : Gives]]
  BY Zenon DEF TypeOK, Words
<1>2. at' = [at EXCEPT ![p].pc = l]
  BY Zenon DEF Goto
<1>3. l \in Words
  BY Zenon, Known
<1>4. at' \in [Procs -> [pc : Words, slot : 0..Count, give : Gives]]
  BY <1>1, <1>2, <1>3
<1>5. at'[p].pc = l /\ at'[p].slot = at[p].slot /\ at'[p].give = at[p].give
  BY <1>1, <1>2
<1>6. Still(p)
  BY Zenon, <1>1, <1>2 DEF Still
<1>7. \A q \in Procs : at'[q].pc \in PCs(q)
  BY Zenon, <1>5, <1>6 DEF Still, TypeOK
<1> QED BY Zenon, <1>4, <1>5, <1>6, <1>7 DEF AtTyped

LEMMA SlotType ==
  ASSUME TypeOK, ShapeInv, NEW p \in Procs
  PROVE  /\ Slot(p) \in 0..Count /\ Slot(p) \in Int /\ at[p].give \in Gives
         /\ Holds(p) \/ At(p, "register") => Slot(p) \in 1..Count
<1>1. Slot(p) \in 0..Count /\ at[p].give \in Gives
  BY DEF TypeOK, Slot
<1>2. Slot(p) # 0 => Slot(p) \in 1..Count
  BY <1>1, Arrays
<1>3. Slot(p) \in Int
  BY <1>1
<1> QED BY Zenon, <1>1, <1>2, <1>3 DEF ShapeInv

-----------------------------------------------------------------------------
(* What a step leaves of the caller's loop: the entries not registered yet  *)
(* stay so, the registered ones too.                                        *)
SameLoop ==
  \A i \in 1..Count : /\ Unregistered(i)' <=> Unregistered(i)
                      /\ Registered(i) => Registered(i)'

LEMMA LoopSame ==
  ASSUME Kept, refused' = refused, at'[Caller] = at[Caller]
  PROVE  SameLoop
<1>1. \A i : Abandoned(i)' <=> Abandoned(i)
  BY Zenon DEF Abandoned, Kept
<1> QED BY Zenon, <1>1 DEF SameLoop, Unregistered, Registered, At, Slot

LEMMA LoopHolds ==
  ASSUME Kept, refused' = refused, NEW p \in Procs, Still(p), Holds(p), Holds(p)',
         at'[p].slot = at[p].slot
  PROVE  SameLoop
<1>1. \A i : Abandoned(i)' <=> Abandoned(i)
  BY Zenon DEF Abandoned, Kept
<1>2. CASE p # Caller
  BY Zenon, <1>2, LoopSame, Numbers DEF Still
<1>3. CASE p = Caller
  <2>1. /\ at[p].pc \notin {"register", "returned", "start"}
        /\ at'[p].pc \notin {"register", "returned", "start"}
    BY Zenon DEF Holds, HolderPCs
  <2> QED BY Zenon, <1>1, <1>3, <2>1 DEF SameLoop, Unregistered, Registered, At, Slot
<1> QED BY Zenon, <1>2, <1>3

(* A process that is through with an entry.                                 *)
LEMMA Resumes ==
  ASSUME TypeOK, ShapeInv, NEW p \in Procs, Holds(p) \/ At(p, "register"), Resume(p), Kept,
         refused' = refused
  PROVE  /\ Still(p) /\ AtTyped /\ ~Holds(p)'
         /\ p \in Inputs => at'[p].pc = "drain"
         /\ p = Caller => \/ at'[p].pc = "register" /\ at'[p].slot \in 1..Count
                          \/ at'[p].pc = "returned" /\ Slot(p) = Count
         /\ \A i \in 1..Count : /\ Unregistered(i)' <=> Unregistered(i) /\ ~(p = Caller /\ i = Slot(p))
                                /\ Registered(i) => Registered(i)'
                                /\ p = Caller /\ i = Slot(p) /\ ~Abandoned(i) => Registered(i)'
<1>0. \A i : Abandoned(i)' <=> Abandoned(i)
  BY Zenon DEF Abandoned, Kept
<1>a. None \in Gives /\ 0 \in 0..Count /\ Slot(p) \in 1..Count /\ Count \in Nat
  BY Zenon, Arrays, SlotType DEF Gives
<1>1. CASE p # Caller
  <2>1. p \in Inputs /\ "drain" \in PCs(p)
    BY Zenon, <1>1, Numbers, Labels
  <2>2. Become(p, "drain", 0, None)
    BY Zenon, <1>1 DEF Resume
  <2>3. at'[p].pc = "drain" /\ Still(p) /\ AtTyped
    BY Zenon, <1>a, <2>1, <2>2, Becomes
  <2>4. SameLoop
    BY Zenon, <1>1, <2>3, LoopSame, Numbers DEF Still
  <2>5. ~Holds(p)'
    BY Zenon, <2>3 DEF Holds, HolderPCs
  <2> QED BY Zenon, <1>1, <2>1, <2>3, <2>4, <2>5 DEF SameLoop
<1>2. CASE p = Caller /\ Slot(p) < Count
  <2>0. Slot(p) + 1 \in 0..Count /\ Slot(p) + 1 \in 1..Count
    BY <1>a, <1>2
  <2>1. "register" \in PCs(p) /\ p \notin Inputs
    BY Zenon, <1>2, Numbers, Labels
  <2>2. Become(p, "register", Slot(p) + 1, None)
    BY Zenon, <1>2 DEF Resume
  <2>3. at'[p].pc = "register" /\ at'[p].slot = Slot(p) + 1 /\ Still(p) /\ AtTyped
    BY Zenon, <1>a, <2>0, <2>1, <2>2, Becomes
  <2>4. ~Holds(p)'
    BY Zenon, <2>3 DEF Holds, HolderPCs
  <2>5. at[p].pc \notin {"returned", "start"}
    BY Zenon DEF Holds, HolderPCs, At
  <2>6. \A i \in 1..Count : /\ i >= Slot(p) + 1 <=> i > Slot(p)
                            /\ i < Slot(p) => i < Slot(p) + 1
                            /\ i >= Slot(p) /\ i # Slot(p) => i > Slot(p)
                            /\ i > Slot(p) + 1 => i >= Slot(p) + 1
                            /\ i > Slot(p) => i >= Slot(p) /\ i # Slot(p)
    BY <1>a
  <2>7. Slot(p) < Slot(p) + 1
    BY <1>a
  <2>8. \A i \in 1..Count : /\ Unregistered(i)' <=> i > Slot(p)
                            /\ Unregistered(i) /\ i # Slot(p) <=> i > Slot(p)
    BY Zenon, <1>2, <2>3, <2>5, <2>6 DEF Unregistered, At, Slot
  <2>9. \A i \in 1..Count : Registered(i) => Registered(i)'
    BY Zenon, <1>0, <1>2, <2>3, <2>5, <2>6 DEF Registered, At, Slot
  <2>10. \A i \in 1..Count : i = Slot(p) /\ ~Abandoned(i) => Registered(i)'
    BY Zenon, <1>0, <1>2, <2>3, <2>7 DEF Registered, At, Slot
  <2> QED BY Zenon, <1>2, <2>0, <2>1, <2>3, <2>4, <2>8, <2>9, <2>10
<1>3. CASE p = Caller /\ ~(Slot(p) < Count)
  <2>0. Slot(p) = Count
    BY <1>a, <1>3
  <2>1. "returned" \in PCs(p) /\ p \notin Inputs
    BY Zenon, <1>3, Numbers, Labels
  <2>2. Become(p, "returned", 0, None)
    BY Zenon, <1>3, Numbers DEF Resume
  <2>3. at'[p].pc = "returned" /\ Still(p) /\ AtTyped
    BY Zenon, <1>a, <2>1, <2>2, Becomes
  <2>4. ~Holds(p)'
    BY Zenon, <2>3 DEF Holds, HolderPCs
  <2>5. \A i \in 1..Count : ~(i > Slot(p)) /\ (i >= Slot(p) => i = Slot(p))
    BY <1>a, <2>0
  <2>6. \A i \in 1..Count : ~Unregistered(i)' /\ (Unregistered(i) => i = Slot(p))
    BY Zenon, <1>3, <2>3, <2>5 DEF Unregistered, At, Slot
  <2>7. \A i : ~Abandoned(i) => Registered(i)'
    BY Zenon, <1>0, <1>3, <2>3 DEF Registered, At
  <2> QED BY Zenon, <1>3, <2>0, <2>1, <2>3, <2>4, <2>6, <2>7 DEF Registered
<1> QED BY Zenon, <1>1, <1>2, <1>3

-----------------------------------------------------------------------------
(* What a step that changes nothing of an invariant's state leaves of it.   *)
LEMMA PendingSame ==
  ASSUME Kept, refused' = refused, stack' = stack, chain' = chain, SameLoop,
         NEW p, Still(p), p \in Procs => /\ Working(p)' <=> Working(p)
                                         /\ Working(p) => at'[p].slot = at[p].slot
  PROVE  Pending' = Pending /\ \A i : Waiting(i)' <=> Waiting(i)
<1>1. \A i : (Abandoned(i)' <=> Abandoned(i)) /\ (Waiting(i)' <=> Waiting(i))
  BY Zenon DEF Abandoned, Waiting, Kept
<1>2. \A q \in Procs : (Working(q)' <=> Working(q)) /\ (Working(q) => at'[q].slot = at[q].slot)
  BY Zenon DEF Still, Working
<1>3. \A i : Due(i)' <=> Due(i)
  BY Zenon, <1>1, <1>2 DEF Due, Slot
<1>4. Count' = Count
  BY Zenon DEF Kept, Count
<1>5. \A i : i \in Pending' <=> i \in Pending
  BY Zenon, <1>1, <1>3, <1>4 DEF Pending, SameLoop
<1> QED BY Zenon, <1>1, <1>5

LEMMA InputFrame ==
  ASSUME InputInv, Kept, NEW f \in Inputs, stack'[f] = stack[f], chain'[f] = chain[f],
         was'[f] = was[f], consumed \subseteq consumed', \A i \in 1..Count : Registered(i) => Registered(i)',
         Ready(f)' <=> Ready(f), result'[f] = Moved => f \in consumed',
         result'[f] \in {OK, ERR} => result'[f] = result[f],
         at'[f].pc = "idle" <=> at[f].pc = "idle",
         at'[f].pc = "done" => at[f].pc = "done" \/ chain[f] = <<>>,
         Holds(f)' => Holds(f) /\ at'[f].slot = at[f].slot /\ Slot(f) \in 1..Count
  PROVE  InputInv!(f)'
<1>0. InputInv!(f) /\ slots' = slots /\ Count' = Count
  BY Zenon DEF InputInv, Kept, Count
<1>1. /\ Ready(f)' <=> ~(at'[f].pc = "idle")
      /\ Ready(f)' => stack'[f] = <<>>
      /\ ~Ready(f)' => was'[f] = None
      /\ result'[f] = Moved => f \in consumed'
      /\ result'[f] \in {OK, ERR} => was'[f] = result'[f]
  BY Zenon, <1>0 DEF At
<1>2. at'[f].pc \in {"idle", "done"} => chain'[f] = <<>>
  BY Zenon, <1>0 DEF At
<1>3. ASSUME NEW s \in {stack[f], chain[f]}
      PROVE  /\ s \in Seq(1..Count) /\ IsInjective(s)
             /\ \A i \in Range(s) : slots[i] = f /\ Registered(i)'
  <2>1. /\ s \in Seq(1..Count) /\ IsInjective(s)
        /\ \A i \in Range(s) : slots[i] = f /\ Registered(i)
    BY Zenon, <1>0, <1>3
  <2>2. \A i \in Range(s) : i \in 1..Count
    BY Zenon, <2>1, Within
  <2> QED BY Zenon, <2>1, <2>2
<1>4. Holds(f)' => /\ slots'[at'[f].slot] = f /\ Registered(at[f].slot)
                   /\ at'[f].slot = at[f].slot /\ at[f].slot \in 1..Count
                   /\ at'[f].slot \notin Range(chain'[f])
  BY Zenon, <1>0 DEF Input, Slot
<1>5. ASSUME Holds(f)' PROVE Registered(Slot(f))'
  <2>1. \A i : i = at'[f].slot /\ i \in 1..Count /\ Registered(i) => Registered(Slot(f))'
    BY Zenon DEF Registered, Slot, Abandoned
  <2> QED BY Zenon, <1>4, <1>5, <2>1
<1> QED BY Zenon, <1>0, <1>1, <1>2, <1>3, <1>4, <1>5 DEF At, Input, Slot

LEMMA RefFrame ==
  ASSUME RefInv, Kept, refs' = refs, callerHolds' = callerHolds, Held' <=> Held,
         \A f \in Inputs : at'[f].pc = "done" <=> at[f].pc = "done"
  PROVE  RefInv'
<1>1. \A f \in Inputs : Retained(f)' = Retained(f)
  BY Zenon DEF Retained, Kept
<1> QED BY Zenon, <1>1 DEF RefInv, At

(* What was right stays right: results are not taken back, and nothing is   *)
(* refused once everybody has reported.                                     *)
Grows ==
  /\ consumed \subseteq consumed' /\ refused \subseteq refused'
  /\ \A f \in Inputs : was[f] # None => was'[f] = was[f]
  /\ context # "none" => context' # "none"
  /\ context = "none" \/ remaining # 0 \/ (remaining' = remaining /\ refused' = refused)

LEMMA EntriesGrow ==
  ASSUME ShapeInv, Kept, Grows, NEW i \in 1..Count
  PROVE  /\ Succeeded(i) => Succeeded(i)'
         /\ Failed(i) => Failed(i)'
<1>1. slots[i] # Null => slots[i] \in Inputs
  BY Zenon, Arrays
<1>2. OK # None /\ ERR # None
  BY DEF OK, ERR, None
<1> QED BY Zenon, <1>1, <1>2 DEF Succeeded, Failed, Kept, Grows

LEMMA RightFrame ==
  ASSUME ShapeInv, Kept, Grows, NEW r, Right(r)
  PROVE  Right(r)'
<1>0. Count' = Count /\ Count \in Nat
  BY Zenon, Arrays DEF Kept, Count
<1>1. \A i \in 1..Count : /\ Succeeded(i) => Succeeded(i)'
                          /\ Failed(i) => Failed(i)'
                          /\ slots[i] \in consumed => slots'[i] \in consumed'
  BY Zenon, EntriesGrow DEF Kept, Grows
<1>2. r = ERR => \E i \in 1..Count : Failed(i)'
  BY Zenon, <1>1 DEF Right
<1>3. r = EINVAL => refused' # {} \/ \E i \in 1..Count : slots'[i] \in consumed'
  BY Zenon, <1>1 DEF Right, Grows
<1>4. ASSUME r = OK, Count > 0, kind = "any" PROVE \E i \in 1..Count : Succeeded(i)'
  BY Zenon, <1>1, <1>4 DEF Right
<1>5. ASSUME r = OK, Count > 0, kind # "any"
      PROVE  AllTaken' /\ remaining' = 0 /\ context' # "none"
  <2>1. AllTaken /\ remaining = 0 /\ context # "none"
    BY Zenon, <1>5 DEF Right
  <2>2. remaining' = remaining /\ refused' = refused /\ context' # "none"
    BY Zenon, <2>1 DEF Grows
  <2> QED BY Zenon, <1>0, <1>1, <2>1, <2>2 DEF AllTaken
<1>6. r = Moved => kind' = "all" /\ \E i \in 1..Count : Failed(i)' /\ slots'[i] \in consumed'
  BY Zenon, <1>1 DEF Right, Kept
<1> QED BY Zenon, <1>0, <1>2, <1>3, <1>4, <1>5, <1>6 DEF Right, Kept

(* An entry that has reported stays fine.                                   *)
LEMMA FineFrame ==
  ASSUME ShapeInv, Kept, Grows, flag => flag', NEW i \in 1..Count, Fine(i),
         first'[i] = first[i], refused' = refused \/ kind # "all" \/ flag'
  PROVE  Fine(i)'
<1>1. /\ Succeeded(i) => Succeeded(i)'
      /\ Failed(i) => Failed(i)'
      /\ slots[i] \in consumed => slots'[i] \in consumed'
      /\ kind' = kind /\ (i \in refused => i \in refused')
      /\ Abandoned(i) => Abandoned(i)'
  BY Zenon, EntriesGrow DEF Kept, Grows, Abandoned
<1> QED BY Zenon, <1>1 DEF Fine

LEMMA RightOf ==
  ASSUME NEW q, NEW r, at'[q].give = r, Right(r)'
  PROVE  Right(at[q].give)'
  BY Zenon DEF Right

(* Nothing that reported is undone, and nothing new is reported but i.      *)
LEMMA OutcomeFrame ==
  ASSUME IInv, Kept, Grows, flag => flag', refused' = refused \/ kind # "all" \/ flag',
         outcome' = outcome, NEW p, Still(p),
         \A r \in Gives : p \in Procs /\ at'[p].pc \in {"settle", "last_settle"} /\ at'[p].give = r
                            => Right(r)' /\ Rereads(p)',
         context' # "none" => \A i \in 1..Count :
           Reported(i)' => \/ context # "none" /\ Reported(i) /\ first'[i] = first[i]
                           \/ Fine(i)'
  PROVE  OutcomeInv'
<1>a. TypeOK /\ ShapeInv /\ OutcomeInv /\ Count' = Count
  BY Zenon DEF IInv, Kept, Count
<1>1. Right(outcome)'
  <2>1. PICK r : r = outcome
    OBVIOUS
  <2>2. Right(r)
    BY Zenon, <1>a, <2>1 DEF OutcomeInv
  <2>3. Right(r)'
    BY Zenon, <1>a, <2>2, RightFrame
  <2> QED BY Zenon, <2>1, <2>3 DEF Right
<1>2. ASSUME NEW q \in Procs, at'[q].pc \in {"settle", "last_settle"}
      PROVE  Right(at[q].give)' /\ Rereads(q)'
  <2>1. CASE q # p
    <3>1. PICK r : r = at[q].give
      OBVIOUS
    <3>2. at'[q].give = r /\ at[q].pc \in {"settle", "last_settle"}
      BY Zenon, <1>2, <2>1, <3>1 DEF Still
    <3>3. Right(r) /\ Rereads(q)
      BY Zenon, <1>a, <3>1, <3>2 DEF OutcomeInv
    <3>4. Rereads(q)'
      <4>1. ASSUME kind = "all", r = ERR PROVE Failed(Slot(q))'
        <5>1. PICK i : i = Slot(q)
          OBVIOUS
        <5>2. Failed(i) /\ i \in 1..Count /\ at'[q].slot = i
          <6>1. Holds(q)
            BY Zenon, <3>2 DEF Holds, HolderPCs
          <6> QED BY Zenon, <1>a, <2>1, <3>1, <3>3, <4>1, <5>1, <6>1, SlotType DEF Rereads, Still, Slot
        <5>3. Failed(i)'
          BY Zenon, <1>a, <5>2, EntriesGrow
        <5> QED BY Zenon, <5>2, <5>3 DEF Slot, Failed
      <4> QED BY Zenon, <3>2, <4>1 DEF Rereads, Kept
    <3> QED BY Zenon, <1>a, <3>2, <3>3, <3>4, RightFrame, RightOf
  <2>2. CASE q = p
    <3>1. PICK r : r = at'[q].give
      OBVIOUS
    <3>2. CASE r \in Gives
      BY Zenon, <1>2, <2>2, <3>1, <3>2, RightOf
    <3>3. CASE r \notin Gives
      <4>1. r # OK /\ r # ERR /\ r # EINVAL /\ r # Moved
        BY Zenon, <3>3 DEF Gives
      <4> QED BY Zenon, <3>1, <4>1 DEF Right, Rereads
    <3> QED BY Zenon, <3>2, <3>3
  <2> QED BY Zenon, <2>1, <2>2
<1>3. ASSUME context' # "none", NEW i \in 1..Count, Reported(i)' PROVE Fine(i)'
  BY Zenon, <1>a, <1>3, FineFrame DEF OutcomeInv
<1> QED BY Zenon, <1>a, <1>1, <1>2, <1>3 DEF OutcomeInv

LEMMA ReportedSame ==
  ASSUME Kept, SameLoop, \A i : Waiting(i)' <=> Waiting(i), NEW p, Still(p)
  PROVE  /\ \A i \in 1..Count : Reported(i)' => Reported(i) \/ (p \in Procs /\ At(p, "run") /\ i = Slot(p))
         /\ (p \in Procs /\ At(p, "run") => at'[p].pc = "run" /\ at'[p].slot = at[p].slot)
              => \A i \in 1..Count : Reported(i)' => Reported(i)
  BY Zenon DEF Reported, SameLoop, Still, At, Slot

-----------------------------------------------------------------------------
(* A process at work keeps the context alive ...                            *)
LEMMA AtWork ==
  ASSUME IInv, NEW p \in Procs, Working(p)
  PROVE  /\ context = "live" /\ remaining # 0 /\ remaining \in Nat
         /\ ExistsBijection(1..remaining, Pending) /\ Slot(p) \in Pending /\ Slot(p) \in 1..Count
         /\ \A q \in Procs : ~Ending(q) /\ ~At(q, "release")
         /\ ~Abandoned(Slot(p)) /\ (~flag => settles = 0)
<1>a. TypeOK /\ ShapeInv /\ InputInv /\ CallerInv /\ CountInv /\ SettleInv
  BY Zenon DEF IInv
<1>b. Holds(p) /\ Slot(p) \in 1..Count
  <2>1. Holds(p)
    BY Zenon DEF Holds, Working, HolderPCs
  <2> QED BY Zenon, <1>a, <2>1, SlotType
<1>c. context # "none"
  <2>1. CASE p = Caller
    <3>1. at[Caller].pc \notin {"start", "returned"}
      BY Zenon, <2>1 DEF Working
    <3> QED BY Zenon, <1>a, <3>1 DEF CountInv
  <2>2. CASE p \in Inputs
    BY Zenon, <1>a, <1>b, <2>2 DEF CountInv
  <2> QED BY Zenon, <2>1, <2>2, Numbers
<1>d. Slot(p) \in Pending
  <2>1. Due(Slot(p))
    BY Zenon DEF Due
  <2> QED BY Zenon, <1>b, <2>1 DEF Pending
<1>e. remaining \in Nat
  BY <1>a DEF TypeOK
<1>f. ExistsBijection(1..remaining, Pending)
  BY Zenon, <1>a, <1>c DEF CountInv
<1>g. remaining # 0
  <2>1. remaining > 0
    BY Zenon, <1>d, <1>e, <1>f, CountRemove
  <2> QED BY <1>e, <2>1
<1>h. context = "live" /\ \A q \in Procs : ~Ending(q) /\ ~At(q, "release")
  <2>1. context # "freed"
    BY Zenon, <1>a, <1>g DEF CountInv
  <2> QED BY Zenon, <1>a, <1>c, <1>g, <2>1 DEF CountInv, TypeOK
<1>i. ~Abandoned(Slot(p))
  <2>1. CASE p = Caller
    <3>1. ~At(Caller, "returned")
      BY Zenon, <2>1 DEF Working, At
    <3> QED BY Zenon, <1>a, <3>1 DEF CallerInv, Abandoned
  <2>2. CASE p \in Inputs
    BY Zenon, <1>a, <1>b, <2>2 DEF InputInv, Registered
  <2> QED BY Zenon, <2>1, <2>2, Numbers
<1>j. ~flag => settles = 0
  <2>1. Count # 0
    BY <1>a, <1>b, Arrays
  <2>2. \A q \in Procs : ~At(q, "free")
    BY Zenon, <1>h DEF Ending, At
  <2>3. context # "freed"
    BY Zenon, <1>h
  <2> QED BY Zenon, <1>a, <2>1, <2>2, <2>3 DEF SettleInv
<1> QED BY Zenon, <1>b, <1>d, <1>e, <1>f, <1>g, <1>h, <1>i, <1>j

(* ... and so does whoever ends, and whoever then releases.                  *)
LEMMA AtEnd ==
  ASSUME IInv, NEW p \in Procs, Ending(p) \/ At(p, "release")
  PROVE  /\ Ending(p) => context = "live"
         /\ At(p, "release") => context = "freed" /\ kind = "zip"
         /\ context # "none" /\ remaining = 0 /\ Pending = {} /\ (kind = "zip" => refused = {})
         /\ \A i \in 1..Count : Reported(i) /\ ~Unregistered(i) /\ ~Abandoned(i)
         /\ \A q \in Procs : ~Working(q) /\ (q # p => ~Ending(q) /\ ~At(q, "release"))
         /\ Slot(p) \in 1..Count
<1>a. TypeOK /\ ShapeInv /\ CountInv
  BY Zenon DEF IInv
<1>0. Slot(p) \in 1..Count
  <2>1. Holds(p)
    BY Zenon DEF Holds, Ending, HolderPCs, At
  <2> QED BY Zenon, <1>a, <2>1, SlotType
<1>1. /\ Ending(p) => context = "live" /\ remaining = 0
      /\ At(p, "release") => context = "freed" /\ kind = "zip" /\ remaining = 0
      /\ \A q \in Procs : q # p => ~Ending(q) /\ ~At(q, "release")
  BY Zenon, <1>a DEF CountInv
<1>2. remaining = 0 /\ context # "none"
  BY Zenon, <1>1
<1>3. Pending = {}
  BY Zenon, <1>a, <1>2, CountNone DEF CountInv
<1>4. \A q \in Procs : ~Working(q)
  BY Zenon, <1>2, AtWork
<1>5. \A i \in 1..Count : ~Due(i) /\ ~Unregistered(i) /\ ~Abandoned(i)
  BY Zenon, <1>3 DEF Pending
<1>6. \A i \in 1..Count : Reported(i)
  BY Zenon, <1>4, <1>5 DEF Reported, Due, Working, At
<1>7. kind = "zip" => refused = {}
  <2>1. \A j \in refused : j \in 1..Count /\ j >= j
    BY <1>a, Arrays DEF ShapeInv
  <2> QED BY Zenon, <1>5, <2>1 DEF Abandoned
<1> QED BY Zenon, <1>0, <1>1, <1>2, <1>3, <1>4, <1>5, <1>6, <1>7

(* What a holder's step for its entry leaves of the rest.                   *)
LEMMA HolderFrame ==
  ASSUME IInv, NEW p \in Procs, Holds(p), Holds(p)', at'[p].slot = at[p].slot, Still(p),
         at'[p].pc \in {"run", "consume"} => at[p].pc \in {"run", "consume"},
         Kept, refused' = refused, stack' = stack, chain' = chain, was' = was,
         consumed \subseteq consumed', consumed' \subseteq Inputs,
         \A f \in Inputs : /\ Ready(f)' <=> Ready(f)
                           /\ result'[f] = Moved => f \in consumed'
                           /\ result'[f] \in {OK, ERR} => result'[f] = result[f],
         first' \in [1..Count -> {None, OK, ERR, Moved}], flag => flag',
         refs' = refs, callerHolds' = callerHolds, Held' <=> Held
  PROVE  ShapeInv' /\ InputInv' /\ CallerInv' /\ RefInv' /\ SameLoop
<1>a. TypeOK /\ ShapeInv /\ InputInv /\ CallerInv /\ RefInv
  BY Zenon DEF IInv
<1>b. Count' = Count
  BY Zenon DEF Kept, Count
<1>1. SameLoop
  BY Zenon, LoopHolds
<1>2. ShapeInv'
  <2>1. \A q \in Procs : Holds(q)' \/ At(q, "register")' => at'[q].slot # 0
    <3>1. at[p].slot # 0
      BY Zenon, <1>a DEF ShapeInv, Slot
    <3> QED BY Zenon, <1>a, <3>1 DEF ShapeInv, Still, Holds, At, Slot
  <2>2. was' \in [Inputs -> {None, OK, ERR}]
    BY Zenon, <1>a DEF ShapeInv
  <2> QED BY Zenon, <1>a, <1>b, <2>1, <2>2 DEF ShapeInv, Kept, Slot
<1>3. ASSUME NEW f \in Inputs
      PROVE  /\ at'[f].pc = "idle" <=> at[f].pc = "idle"
             /\ at'[f].pc = "done" <=> at[f].pc = "done"
             /\ Holds(f)' => Holds(f) /\ at'[f].slot = at[f].slot /\ Slot(f) \in 1..Count
  <2>1. CASE f # p
    <3>1. at'[f] = at[f] /\ f \in Procs
      BY Zenon, <2>1, Numbers DEF Still
    <3> QED BY Zenon, <1>a, <3>1, SlotType DEF Holds
  <2>2. CASE f = p
    <3>1. at[p].pc \notin {"idle", "done"} /\ at'[p].pc \notin {"idle", "done"}
      BY Zenon DEF Holds, HolderPCs
    <3> QED BY Zenon, <1>a, <2>2, <3>1, SlotType
  <2> QED BY Zenon, <2>1, <2>2
<1>4. InputInv'
  <2> SUFFICES ASSUME NEW f \in Inputs PROVE InputInv!(f)'
    BY Zenon DEF InputInv
  <2>1. \A i \in 1..Count : Registered(i) => Registered(i)'
    BY Zenon, <1>1 DEF SameLoop
  <2> QED BY Zenon, <1>a, <1>3, <2>1, InputFrame
<1>5. RefInv'
  BY Zenon, <1>a, <1>3, RefFrame
<1>6. CallerInv'
  <2>1. ASSUME at'[Caller].pc \in {"run", "consume"}
        PROVE  at[Caller].pc \in {"run", "consume"} /\ at'[Caller].slot = at[Caller].slot
    BY Zenon, <2>1, Numbers DEF Still
  <2>2. at'[Caller].pc \in {"run", "consume"} => Input(Caller)' # Null /\ Ready(Input(Caller))'
    <3>1. ASSUME at'[Caller].pc \in {"run", "consume"} PROVE Input(Caller)' # Null /\ Ready(Input(Caller))'
      <4>1. PICK f : f = Input(Caller)
        OBVIOUS
      <4>2. f # Null /\ Ready(f)
        BY Zenon, <1>a, <2>1, <3>1, <4>1 DEF CallerInv
      <4>3. Input(Caller)' = f
        BY Zenon, <2>1, <3>1, <4>1 DEF Input, Slot, Kept
      <4>4. f \in Inputs
        <5>1. Holds(Caller)
          BY Zenon, <2>1, <3>1 DEF Holds, HolderPCs
        <5> QED BY Zenon, <1>a, <4>1, <4>2, <5>1, Arrays, SlotType, Numbers DEF Input
      <4> QED BY Zenon, <4>2, <4>3, <4>4 DEF Ready
    <3> QED BY Zenon, <3>1
  <2>3. At(Caller, "returned") => at'[Caller].pc = "returned"
    <3>1. ASSUME at[Caller].pc = "returned" PROVE at'[Caller] = at[Caller]
      <4>1. p # Caller
        BY Zenon, <3>1 DEF Holds, HolderPCs
      <4> QED BY Zenon, <4>1, Numbers DEF Still
    <3> QED BY Zenon, <3>1 DEF At
  <2> QED BY Zenon, <1>a, <2>2, <2>3 DEF CallerInv, Kept, At
<1> QED BY Zenon, <1>1, <1>2, <1>4, <1>5, <1>6

(* ... of the counter, while it works ...                                   *)
LEMMA WorkFrame ==
  ASSUME IInv, NEW p \in Procs, Working(p), Working(p)', at'[p].slot = at[p].slot, Still(p),
         Kept, refused' = refused, stack' = stack, chain' = chain, context' = context,
         remaining' = remaining
  PROVE  CountInv' /\ (Held' <=> Held)
<1>a. CountInv
  BY Zenon DEF IInv
<1>b. /\ context = "live" /\ remaining # 0
      /\ \A q \in Procs : ~Ending(q) /\ ~At(q, "release")
  BY Zenon, AtWork
<1>c. Holds(p) /\ Holds(p)'
  BY Zenon DEF Holds, Working, HolderPCs
<1>d. \A q \in Procs : ~Ending(q)' /\ ~At(q, "release")'
  BY Zenon, <1>b DEF Still, Working, Ending, At
<1>e. SameLoop
  BY Zenon, <1>c, LoopHolds
<1>f. Pending' = Pending
  BY Zenon, <1>e, PendingSame
<1>g. ~At(Caller, "start")'
  BY Zenon, <1>a, <1>b, Numbers DEF CountInv, Still, At, Working
<1> QED BY Zenon, <1>a, <1>b, <1>d, <1>f, <1>g DEF CountInv, Held, Kept

(* ... and while it ends.                                                   *)
LEMMA EndFrame ==
  ASSUME IInv, NEW p \in Procs, Ending(p), Ending(p)', at'[p].slot = at[p].slot, Still(p),
         Kept, refused' = refused, stack' = stack, chain' = chain, context' = context,
         remaining' = remaining
  PROVE  CountInv' /\ (Held' <=> Held)
<1>a. CountInv
  BY Zenon DEF IInv
<1>b. /\ context = "live" /\ remaining = 0
      /\ \A q \in Procs : q # p => ~Ending(q) /\ ~At(q, "release")
  BY Zenon, AtEnd
<1>c. Holds(p) /\ Holds(p)' /\ ~Working(p) /\ ~Working(p)'
  BY Zenon DEF Holds, Ending, Working, HolderPCs
<1>d. \A q \in Procs : q # p => ~Ending(q)' /\ ~At(q, "release")'
  BY Zenon, <1>b DEF Still, Ending, At
<1>e. SameLoop
  BY Zenon, <1>c, LoopHolds
<1>f. Pending' = Pending
  BY Zenon, <1>c, <1>e, PendingSame
<1>g. ~At(Caller, "start")' /\ ~At(p, "release")' /\ ~At(p, "release")
  BY Zenon, <1>a, <1>b, Numbers DEF CountInv, Still, At, Ending
<1>h. \A q \in Procs : ~At(q, "release")' /\ ~At(q, "release")
  BY Zenon, <1>b, <1>d, <1>g
<1> QED BY Zenon, <1>a, <1>b, <1>d, <1>f, <1>g, <1>h DEF CountInv, Held, Kept

-----------------------------------------------------------------------------
(* The input a continuation runs on is ready.                               *)
LEMMA RunsOn ==
  ASSUME IInv, NEW p \in Procs, at[p].pc \in {"run", "consume"}
  PROVE  /\ Input(p) \in Inputs /\ Ready(Input(p)) /\ Input(p) = slots[Slot(p)]
         /\ Slot(p) \in 1..Count /\ Working(p)
         /\ result[Input(p)] \in {OK, ERR, Moved}
         /\ result[Input(p)] = Moved => slots[Slot(p)] \in consumed
         /\ result[Input(p)] = OK => Succeeded(Slot(p))
         /\ result[Input(p)] = ERR => Failed(Slot(p))
<1>a. TypeOK /\ ShapeInv /\ InputInv /\ CallerInv
  BY Zenon DEF IInv
<1>b. Holds(p) /\ Working(p)
  BY Zenon DEF Holds, Working, HolderPCs
<1>c. Slot(p) \in 1..Count /\ Input(p) = slots[Slot(p)]
  BY Zenon, <1>b, AtWork DEF Input
<1>d. Input(p) \in Inputs /\ Ready(Input(p))
  <2>1. CASE p = Caller
    BY Zenon, <1>a, <1>c, <2>1, Arrays DEF CallerInv
  <2>2. CASE p \in Inputs
    <3>1. at[p].pc # "idle"
      BY Zenon
    <3>2. InputInv!(p)
      BY Zenon, <1>a, <2>2 DEF InputInv
    <3> QED BY Zenon, <1>b, <2>2, <3>1, <3>2 DEF At
  <2> QED BY Zenon, <2>1, <2>2, Numbers
<1>e. PICK f \in Inputs : f = Input(p)
  BY Zenon, <1>d
<1>f. result[f] \in {OK, ERR, Moved}
  BY Zenon, <1>a, <1>d, <1>e DEF TypeOK, Ready
<1>g. f # Null /\ OK # Moved /\ ERR # Moved
  <2>1. OK # Moved /\ ERR # Moved
    BY DEF OK, ERR, Moved
  <2> QED BY Zenon, <2>1, Numbers
<1>h. InputInv!(f)
  BY Zenon, <1>a DEF InputInv
<1> QED BY Zenon, <1>b, <1>c, <1>d, <1>e, <1>f, <1>g, <1>h DEF Succeeded, Failed

(* A continuation decides what to do about the output.                      *)
LEMMA RunInv ==
  ASSUME IInv, NEW p \in Procs, Run(p)
  PROVE  IInv'
<1>a. TypeOK /\ ShapeInv /\ SettleInv /\ OutcomeInv
  BY Zenon DEF IInv
<1>b. /\ at[p].pc = "run" /\ Working(p) /\ Holds(p) /\ Slot(p) \in 1..Count
      /\ at[p].pc \in {"run", "consume"}
  BY Zenon, RunsOn DEF Run, At, Holds, HolderPCs
<1>c. /\ Kept /\ result' = result /\ consumed' = consumed /\ stack' = stack /\ chain' = chain
      /\ was' = was /\ refs' = refs /\ callerHolds' = callerHolds /\ context' = context
      /\ remaining' = remaining /\ outcome' = outcome /\ settles' = settles /\ null' = null
      /\ refused' = refused
  BY Zenon DEF Run, Kept, inputVars, refVars, outVars
<1>d. context = "live" /\ remaining # 0 /\ (~flag => settles = 0) /\ ~Abandoned(Slot(p))
  BY Zenon, <1>b, AtWork
<1>e. HolderPCs \subseteq PCs(p) /\ 0 \in 0..Count /\ ERR \in Gives /\ Slot(p) \in 0..Count
  BY Zenon, <1>a, Labels, Arrays, SlotType DEF Gives
<1>f. PICK i \in 1..Count : i = Slot(p)
  BY Zenon, <1>b
<1>1. /\ at'[p].pc \in {"sub", "settle", "consume"} /\ at'[p].slot = at[p].slot /\ Still(p)
      /\ AtTyped /\ (flag => flag') /\ flag' \in BOOLEAN
      /\ first' \in [1..Count -> {None, OK, ERR, Moved}]
      /\ \A j \in 1..Count : j # i => first'[j] = first[j]
      /\ at'[p].pc \in {"settle", "consume"} => ~flag /\ flag' /\ kind # "zip"
      /\ at'[p].pc = "consume" => kind = "any"
      /\ at'[p].pc = "settle" => at'[p].give = ERR /\ result[Input(p)] = ERR
      /\ at'[p].pc = "sub" => (flag' => flag)
      /\ kind = "all" /\ ~flag' => result[Input(p)] # ERR
      /\ kind = "any" => flag'
      /\ kind = "zip" => first'[i] = result[Input(p)]
  <2>1. CASE RunAll(p) /\ result[Input(p)] = ERR /\ ~flag
    <3>1. Become(p, "settle", Slot(p), ERR) /\ flag' = TRUE /\ first' = first /\ kind = "all"
      BY Zenon, <2>1 DEF RunAll
    <3>2. "settle" \in PCs(p)
      BY Zenon, <1>e DEF HolderPCs
    <3>3. at'[p].pc = "settle" /\ at'[p].slot = at[p].slot /\ at'[p].give = ERR /\ Still(p) /\ AtTyped
      BY Zenon, <1>a, <1>e, <3>1, <3>2, Becomes DEF Slot
    <3> QED BY Zenon, <1>a, <2>1, <3>1, <3>3 DEF ShapeInv
  <2>2. CASE RunAll(p) /\ ~(result[Input(p)] = ERR /\ ~flag)
    <3>1. Goto(p, "sub") /\ flag' = flag /\ first' = first /\ kind = "all"
      BY Zenon, <2>2 DEF RunAll
    <3>2. "sub" \in PCs(p)
      BY Zenon, <1>e DEF HolderPCs
    <3>3. at'[p].pc = "sub" /\ at'[p].slot = at[p].slot /\ Still(p) /\ AtTyped
      BY Zenon, <1>a, <3>1, <3>2, Goes
    <3> QED BY Zenon, <1>a, <2>2, <3>1, <3>3 DEF ShapeInv, TypeOK
  <2>3. CASE RunAny(p)
    <3>1. Goto(p, IF flag THEN "sub" ELSE "consume") /\ flag' = TRUE /\ first' = first /\ kind = "any"
      BY Zenon, <2>3 DEF RunAny
    <3>2. PICK l \in {"sub", "consume"} : Goto(p, l) /\ (flag => l = "sub") /\ (~flag => l = "consume")
      BY Zenon, <3>1
    <3>3. l \in PCs(p)
      BY Zenon, <1>e DEF HolderPCs
    <3>4. at'[p].pc = l /\ at'[p].slot = at[p].slot /\ Still(p) /\ AtTyped
      BY Zenon, <1>a, <3>2, <3>3, Goes
    <3> QED BY Zenon, <1>a, <3>1, <3>2, <3>4 DEF ShapeInv
  <2>4. CASE RunZip(p)
    <3>1. /\ Goto(p, "sub") /\ flag' = flag /\ kind = "zip"
          /\ first' = [first EXCEPT ![i] = result[Input(p)]]
      BY Zenon, <1>f, <2>4 DEF RunZip
    <3>2. "sub" \in PCs(p) /\ result[Input(p)] \in {None, OK, ERR, Moved}
      BY Zenon, <1>b, <1>e, RunsOn DEF HolderPCs
    <3>3. at'[p].pc = "sub" /\ at'[p].slot = at[p].slot /\ Still(p) /\ AtTyped
      BY Zenon, <1>a, <3>1, <3>2, Goes
    <3>4. /\ first' \in [1..Count -> {None, OK, ERR, Moved}] /\ first'[i] = result[Input(p)]
          /\ \A j \in 1..Count : j # i => first'[j] = first[j]
      BY Zenon, <1>a, <3>1, <3>2 DEF ShapeInv
    <3> QED BY Zenon, <1>a, <3>1, <3>3, <3>4 DEF TypeOK
  <2> QED BY Zenon, <2>1, <2>2, <2>3, <2>4 DEF Run
<1>2. Working(p)' /\ Holds(p)' /\ at'[p].pc \notin {"run", "last_settle", "free"}
  BY Zenon, <1>1 DEF Working, Holds, HolderPCs
<1>3. CountInv' /\ (Held' <=> Held)
  BY Zenon, <1>b, <1>c, <1>1, <1>2, WorkFrame
<1>4. ShapeInv' /\ InputInv' /\ CallerInv' /\ RefInv' /\ SameLoop
  <2>1. \A f \in Inputs : /\ Ready(f)' <=> Ready(f)
                          /\ result'[f] = Moved => f \in consumed'
                          /\ result'[f] \in {OK, ERR} => result'[f] = result[f]
    BY Zenon, <1>c DEF Ready, IInv, InputInv
  <2>2. consumed \subseteq consumed' /\ consumed' \subseteq Inputs
    BY Zenon, <1>a, <1>c DEF ShapeInv
  <2> QED BY Zenon, <1>b, <1>c, <1>1, <1>2, <1>3, <2>1, <2>2, HolderFrame
<1>5. TypeOK'
  BY Zenon, <1>a, <1>c, <1>1 DEF TypeOK, AtTyped, Words, Kept, Count
<1>6. SettleInv'
  <2>1. at'[p].pc \in {"settle", "consume"} => \A q \in Procs : ~Settling(q)
    <3>1. \A q \in Procs : ~Ending(q)
      BY Zenon, <1>b, AtWork
    <3> QED BY Zenon, <1>a, <1>1, <3>1 DEF SettleInv, Settling, Ending
  <2>2. \A q \in Procs : Settling(q)' => q = p \/ (Settling(q) /\ at'[q] = at[q])
    BY Zenon, <1>1 DEF Settling, Still
  <2>3. \A q, r \in Procs : Settling(q)' /\ Settling(r)' => q = r
    BY Zenon, <1>a, <1>1, <2>1, <2>2 DEF SettleInv, Settling
  <2>4. ASSUME NEW q \in Procs
        PROVE  /\ Settling(q)' => settles' = 0
               /\ at'[q].pc \in {"consume", "settle"} => flag'
               /\ at'[q].pc = "consume" => kind = "any"
               /\ at'[q].pc # "last_settle" /\ at'[q].pc # "free"
    <3>1. CASE q = p
      BY Zenon, <1>c, <1>d, <1>1, <1>2, <3>1 DEF Settling
    <3>2. CASE q # p
      <4>1. at'[q] = at[q] /\ ~Ending(q)
        BY Zenon, <1>b, <1>1, <3>2, AtWork DEF Still
      <4> QED BY Zenon, <1>a, <1>c, <1>1, <4>1 DEF SettleInv, Settling, Ending, At
    <3> QED BY Zenon, <3>1, <3>2
  <2>5. flag' => /\ kind # "zip"
                 /\ settles = 0 => \E q \in Procs : at'[q].pc \in {"consume", "settle"}
    <3>1. CASE at'[p].pc \in {"consume", "settle"}
      BY Zenon, <1>1, <3>1
    <3>2. CASE at'[p].pc = "sub"
      <4>1. ASSUME flag PROVE /\ kind # "zip"
                              /\ settles = 0 => \E q \in Procs : at[q].pc \in {"consume", "settle"}
        BY Zenon, <1>a, <4>1 DEF SettleInv
      <4>2. \A q \in Procs : at[q].pc \in {"consume", "settle"} => at'[q] = at[q]
        BY Zenon, <1>b, <1>1 DEF Still
      <4> QED BY Zenon, <1>1, <3>2, <4>1, <4>2
    <3> QED BY Zenon, <1>1, <3>1, <3>2
  <2>6. settles' = 1 => flag'
    <3>1. settles = 0 => settles # 1
      OBVIOUS
    <3> QED BY Zenon, <1>c, <1>d, <1>1, <3>1
  <2> QED BY Zenon, <1>a, <1>c, <1>d, <1>1, <2>3, <2>4, <2>5, <2>6 DEF SettleInv, Kept, Count, At
<1>7. OutcomeInv'
  <2>1. Grows
    BY Zenon, <1>c DEF Grows
  <2>2. at'[p].pc = "settle" => Right(ERR)' /\ Rereads(p)'
    <3>1. at'[p].pc = "settle" => Failed(i)'
      BY Zenon, <1>b, <1>c, <1>f, <1>1, RunsOn DEF Failed, Kept
    <3>2. ERR # OK /\ ERR # EINVAL /\ ERR # Moved /\ Count' = Count
      BY <1>c DEF ERR, OK, EINVAL, Moved, Kept, Count
    <3>3. at'[p].pc = "settle" => Rereads(p)'
      BY Zenon, <1>f, <1>1, <3>1 DEF Rereads, Slot, Failed
    <3> QED BY Zenon, <3>1, <3>2, <3>3 DEF Right
  <2>3. \A j \in 1..Count : Reported(j)' => Reported(j) \/ j = i
    <3>1. \A j : Waiting(j)' <=> Waiting(j)
      BY Zenon, <1>c DEF Waiting
    <3> QED BY Zenon, <1>c, <1>f, <1>1, <1>4, <3>1, ReportedSame
  <2>4. Fine(i)'
    <3>1. /\ result[Input(p)] \in {OK, ERR, Moved}
          /\ result[Input(p)] = Moved => slots[i] \in consumed
          /\ result[Input(p)] = OK => Succeeded(i)
          /\ result[Input(p)] = ERR => Failed(i)
      BY Zenon, <1>b, <1>f, RunsOn
    <3>2. OK # None /\ ERR # None /\ Moved # None
      BY DEF OK, ERR, Moved, None
    <3>3. /\ Succeeded(i)' <=> Succeeded(i)
          /\ Failed(i)' <=> Failed(i)
          /\ slots'[i] \in consumed' <=> slots[i] \in consumed
      BY Zenon, <1>c DEF Succeeded, Failed, Kept
    <3>4. kind = "all" /\ ~flag' => i \notin refused'
      <4>1. kind = "all" /\ refused # {} => flag
        BY Zenon DEF IInv, CallerInv
      <4> QED BY Zenon, <1>c, <1>1, <4>1
    <3> QED BY Zenon, <1>c, <1>1, <3>1, <3>2, <3>3, <3>4 DEF Fine, Kept
  <2>5. context # "none" /\ p \in Procs
    BY Zenon, <1>d
  <2> QED BY Zenon, <1>c, <1>1, <1>2, <2>1, <2>2, <2>3, <2>4, <2>5, OutcomeFrame
<1> QED BY Zenon, <1>3, <1>4, <1>5, <1>6, <1>7 DEF IInv

(* Any's winner takes the result.                                           *)
LEMMA ConsumeInv ==
  ASSUME IInv, NEW p \in Procs, Consume(p)
  PROVE  IInv'
<1>a. TypeOK /\ ShapeInv /\ InputInv /\ SettleInv /\ OutcomeInv
  BY Zenon DEF IInv
<1>b. /\ at[p].pc = "consume" /\ Working(p) /\ Holds(p) /\ Slot(p) \in 1..Count
      /\ at[p].pc \in {"run", "consume"} /\ Settling(p)
  BY Zenon, RunsOn DEF Consume, At, Holds, HolderPCs, Settling
<1>c. /\ Kept /\ stack' = stack /\ chain' = chain
      /\ was' = was /\ refs' = refs /\ callerHolds' = callerHolds /\ context' = context
      /\ remaining' = remaining /\ outcome' = outcome /\ settles' = settles /\ null' = null
      /\ refused' = refused /\ flag' = flag /\ first' = first
  BY Zenon DEF Consume, Kept, inputVars, refVars, outVars, ctxVars
<1>d. context = "live" /\ remaining # 0 /\ kind = "any" /\ flag /\ settles = 0
  BY Zenon, <1>a, <1>b, AtWork DEF SettleInv, At
<1>f. PICK i \in 1..Count : i = Slot(p)
  BY Zenon, <1>b
<1>g. PICK f \in Inputs : f = Input(p) /\ f = slots[i]
  BY Zenon, <1>b, <1>f, RunsOn
<1>h. /\ consumed' = consumed \cup {f} /\ result' = [result EXCEPT ![f] = Moved]
      /\ Become(p, "settle", Slot(p), IF f \in consumed THEN EINVAL ELSE result[f])
  BY Zenon, <1>g DEF Consume
<1>i. /\ result[f] \in {OK, ERR, Moved} /\ (result[f] = Moved => f \in consumed)
      /\ (result[f] = OK => Succeeded(i)) /\ (result[f] = ERR => Failed(i))
  BY Zenon, <1>b, <1>f, <1>g, RunsOn
<1>j. PICK r \in Gives : /\ r = IF f \in consumed THEN EINVAL ELSE result[f]
                         /\ r = OK => Succeeded(i)
                         /\ r = ERR => Failed(i)
                         /\ r = EINVAL => f \in consumed
                         /\ r # Moved
  <2>1. OK \in Gives /\ ERR \in Gives /\ Moved \in Gives /\ EINVAL \in Gives
    BY Zenon DEF Gives
  <2>2. OK # EINVAL /\ ERR # EINVAL /\ Moved # EINVAL /\ Moved # OK /\ Moved # ERR
    BY DEF OK, ERR, Moved, EINVAL
  <2> QED BY Zenon, <1>i, <2>1, <2>2
<1>1. at'[p].pc = "settle" /\ at'[p].slot = at[p].slot /\ at'[p].give = r /\ Still(p) /\ AtTyped
  <2>1. "settle" \in PCs(p) /\ Slot(p) \in 0..Count
    BY Zenon, <1>a, Labels, SlotType DEF HolderPCs
  <2>2. Become(p, "settle", Slot(p), r)
    BY Zenon, <1>h, <1>j
  <2> QED BY Zenon, <1>a, <2>1, <2>2, Becomes DEF Slot
<1>2. Working(p)' /\ Holds(p)' /\ at'[p].pc \notin {"run", "last_settle", "free"}
  BY Zenon, <1>1 DEF Working, Holds, HolderPCs
<1>3. CountInv' /\ (Held' <=> Held)
  BY Zenon, <1>b, <1>c, <1>1, <1>2, WorkFrame
<1>4. /\ result' \in [Inputs -> {None, OK, ERR, Moved}]
      /\ \A g \in Inputs : /\ Ready(g)' <=> Ready(g)
                           /\ result'[g] = Moved => g \in consumed'
                           /\ result'[g] \in {OK, ERR} => result'[g] = result[g]
  <2>1. result \in [Inputs -> {None, OK, ERR, Moved}]
    BY Zenon, <1>a DEF TypeOK
  <2>2. /\ result'[f] = Moved /\ \A g \in Inputs : g # f => result'[g] = result[g]
        /\ result' \in [Inputs -> {None, OK, ERR, Moved}]
    BY Zenon, <1>h, <2>1
  <2>3. Moved # None /\ Moved # OK /\ Moved # ERR
    BY DEF Moved, OK, ERR, None
  <2>4. Ready(f) /\ Ready(f)'
    BY Zenon, <1>b, <1>g, <2>2, <2>3, RunsOn DEF Ready
  <2> QED BY Zenon, <1>a, <1>h, <2>2, <2>3, <2>4 DEF Ready, InputInv
<1>5. ShapeInv' /\ InputInv' /\ CallerInv' /\ RefInv' /\ SameLoop
  <2>1. consumed \subseteq consumed' /\ consumed' \subseteq Inputs
    BY Zenon, <1>a, <1>h DEF ShapeInv
  <2>2. first' \in [1..Count -> {None, OK, ERR, Moved}] /\ (flag => flag')
    BY Zenon, <1>a, <1>c, <1>d DEF ShapeInv
  <2>3. at'[p].pc \in {"run", "consume"} => at[p].pc \in {"run", "consume"}
    BY Zenon, <1>b
  <2> QED BY Zenon, <1>b, <1>c, <1>1, <1>2, <1>3, <1>4, <2>1, <2>2, <2>3, HolderFrame
<1>6. TypeOK'
  BY Zenon, <1>a, <1>c, <1>d, <1>1, <1>4 DEF TypeOK, AtTyped, Words, Kept, Count
<1>7. SettleInv'
  <2>1. \A q \in Procs : q # p => at'[q] = at[q] /\ ~Settling(q)
    BY Zenon, <1>a, <1>b, <1>1 DEF Still, SettleInv
  <2>2. \A q \in Procs : q # p => ~Settling(q)' /\ at'[q].pc \notin {"consume", "settle", "last_settle"}
    BY Zenon, <2>1 DEF Settling
  <2>3. \A q \in Procs : at'[q].pc # "free"
    BY Zenon, <1>b, <1>1, <2>1, AtWork DEF Ending
  <2>4. flag'
    BY Zenon, <1>c, <1>d
  <2> QED BY Zenon, <1>a, <1>c, <1>d, <1>1, <2>2, <2>3, <2>4 DEF SettleInv, Settling, Kept, Count, At
<1>8. OutcomeInv'
  <2>1. Grows
    BY Zenon, <1>c, <1>h DEF Grows
  <2>2. Right(r)' /\ Rereads(p)'
    <3>1. /\ Count' = Count /\ slots' = slots /\ (Succeeded(i) => Succeeded(i)')
          /\ (Failed(i) => Failed(i)') /\ kind' = "any" /\ f \in consumed' /\ slots'[i] = f
      BY Zenon, <1>a, <1>c, <1>d, <1>g, <1>h, <2>1, EntriesGrow DEF Kept, Count
    <3>2. Rereads(p)'
      BY Zenon, <3>1 DEF Rereads
    <3> QED BY Zenon, <1>j, <3>1, <3>2 DEF Right
  <2>3. \A j \in 1..Count : Reported(j)' => Reported(j)
    <3>1. \A j : Waiting(j)' <=> Waiting(j)
      BY Zenon, <1>c DEF Waiting
    <3>2. ~At(p, "run")
      BY Zenon, <1>b DEF At
    <3> QED BY Zenon, <1>c, <1>1, <1>5, <3>1, <3>2, ReportedSame
  <2>4. context # "none" /\ first' = first
    BY Zenon, <1>c, <1>d
  <2> QED BY Zenon, <1>c, <1>d, <1>1, <2>1, <2>2, <2>3, <2>4, OutcomeFrame
<1> QED BY Zenon, <1>3, <1>5, <1>6, <1>7, <1>8 DEF IInv

(* The output is settled, once.                                             *)
LEMMA SettleStepInv ==
  ASSUME IInv, NEW p \in Procs, Settle(p)
  PROVE  IInv'
<1>a. TypeOK /\ ShapeInv /\ InputInv /\ SettleInv /\ OutcomeInv
  BY Zenon DEF IInv
<1>b. at[p].pc \in {"settle", "last_settle"} /\ Settling(p) /\ Holds(p) /\ at[p].pc # "run"
  BY Zenon DEF Settle, At, Settling, Holds, HolderPCs
<1>c. /\ Kept /\ stack' = stack /\ chain' = chain /\ result' = result /\ consumed' = consumed
      /\ was' = was /\ refs' = refs /\ callerHolds' = callerHolds /\ context' = context
      /\ remaining' = remaining /\ null' = null
      /\ refused' = refused /\ flag' = flag /\ first' = first
  BY Zenon DEF Settle, Kept, inputVars, refVars, ctxVars
<1>d. settles = 0
  BY Zenon, <1>a, <1>b DEF SettleInv
<1>e. outcome' = Given(p) /\ settles' = 1
  <2>1. outcome' = Given(p) /\ settles' = settles + 1
    BY Zenon, <1>d DEF Settle
  <2> QED BY <1>d, <2>1
<1>g. Right(Given(p)) /\ Given(p) \in Gives
  <2>1. CASE kind = "all" /\ at[p].give = ERR
    <3>1. PICK i : i = Slot(p)
      OBVIOUS
    <3>2. Failed(i) /\ i \in 1..Count
      BY Zenon, <1>a, <1>b, <2>1, <3>1, SlotType DEF OutcomeInv, Rereads
    <3>3. PICK f \in Inputs : f = slots[i]
      BY Zenon, <1>a, <3>2, Arrays DEF Failed
    <3>4. InputInv!(f) /\ was[f] = ERR /\ ERR # None
      <4>1. ERR # None
        BY DEF ERR, None
      <4> QED BY Zenon, <1>a, <3>2, <3>3, <4>1 DEF InputInv, Failed
    <3>5. OK # ERR /\ OK # EINVAL /\ ERR # EINVAL /\ Moved \notin {OK, ERR, EINVAL}
      BY DEF OK, ERR, EINVAL, Moved
    <3>6. result[f] \in {ERR, Moved} /\ (result[f] = Moved => f \in consumed)
      BY Zenon, <1>a, <3>4, <3>5 DEF TypeOK, Ready
    <3>7. PICK r : r = Given(p) /\ r \in {ERR, Moved} /\ (r = Moved => slots[i] \in consumed)
      BY Zenon, <2>1, <3>1, <3>3, <3>6 DEF Given, Input
    <3>8. Right(r) /\ r \in Gives
      BY Zenon, <2>1, <3>2, <3>5, <3>7 DEF Right, Gives
    <3> QED BY Zenon, <3>7, <3>8
  <2>2. CASE ~(kind = "all" /\ at[p].give = ERR)
    <3>1. Given(p) = at[p].give
      BY Zenon, <2>2 DEF Given
    <3> QED BY Zenon, <1>a, <1>b, <3>1, SlotType DEF OutcomeInv
  <2> QED BY Zenon, <2>1, <2>2
<1>1. /\ at'[p].slot = at[p].slot /\ Still(p) /\ AtTyped
      /\ at[p].pc = "settle" => at'[p].pc = "sub"
      /\ at[p].pc = "last_settle" => at'[p].pc = "free"
  <2>1. PICK l \in {"sub", "free"} : /\ Goto(p, l) /\ (at[p].pc = "settle" => l = "sub")
                                     /\ (at[p].pc = "last_settle" => l = "free")
    BY Zenon, <1>b DEF Settle, At
  <2>2. l \in PCs(p)
    BY Zenon, Labels DEF HolderPCs
  <2> QED BY Zenon, <1>a, <2>1, <2>2, Goes
<1>2. at'[p].pc \in {"sub", "free"} /\ Holds(p)' /\ ~Settling(p)'
  BY Zenon, <1>b, <1>1 DEF Holds, HolderPCs, Settling
<1>3. CountInv' /\ (Held' <=> Held)
  <2>1. CASE at[p].pc = "settle"
    <3>1. Working(p) /\ Working(p)'
      BY Zenon, <1>1, <2>1 DEF Working
    <3> QED BY Zenon, <1>c, <1>1, <3>1, WorkFrame
  <2>2. CASE at[p].pc = "last_settle"
    <3>1. Ending(p) /\ Ending(p)'
      BY Zenon, <1>1, <2>2 DEF Ending
    <3> QED BY Zenon, <1>c, <1>1, <3>1, EndFrame
  <2> QED BY Zenon, <1>b, <2>1, <2>2
<1>4. ShapeInv' /\ InputInv' /\ CallerInv' /\ RefInv' /\ SameLoop
  <2>1. \A f \in Inputs : /\ Ready(f)' <=> Ready(f)
                          /\ result'[f] = Moved => f \in consumed'
                          /\ result'[f] \in {OK, ERR} => result'[f] = result[f]
    BY Zenon, <1>a, <1>c DEF Ready, InputInv
  <2>2. /\ consumed \subseteq consumed' /\ consumed' \subseteq Inputs /\ (flag => flag')
        /\ first' \in [1..Count -> {None, OK, ERR, Moved}]
        /\ at'[p].pc \notin {"run", "consume"}
    BY Zenon, <1>a, <1>c, <1>2 DEF ShapeInv
  <2> QED BY Zenon, <1>b, <1>c, <1>1, <1>2, <1>3, <2>1, <2>2, HolderFrame
<1>5. TypeOK'
  <2>1. outcome' \in Gives
    BY Zenon, <1>e, <1>g
  <2> QED BY Zenon, <1>a, <1>c, <1>1, <2>1 DEF TypeOK, AtTyped, Words, Kept, Count
<1>6. SettleInv'
  <2>0. settles' # 0
    BY <1>e
  <2>1. \A q \in Procs : ~Settling(q)'
    BY Zenon, <1>a, <1>b, <1>1, <1>2 DEF Still, SettleInv, Settling
  <2>2. \A q \in Procs : at'[q].pc \notin {"consume", "settle", "last_settle"}
    BY Zenon, <2>1 DEF Settling
  <2>3. ~flag' => \E q \in Procs : At(q, "free")'
    <3>1. ~flag => at[p].pc # "settle"
      BY Zenon, <1>a DEF SettleInv
    <3> QED BY Zenon, <1>b, <1>c, <1>1, <3>1 DEF At
  <2>4. context' = "none" => at'[Caller].pc # "start"
    <3>1. context' # "none"
      BY Zenon, <1>b, <1>c, AtWork, AtEnd DEF Working, Ending
    <3> QED BY Zenon, <3>1
  <2>5. flag' => kind' # "zip"
    BY Zenon, <1>a, <1>c DEF SettleInv, Kept
  <2> QED BY Zenon, <1>a, <1>c, <1>e, <2>0, <2>1, <2>2, <2>3, <2>4, <2>5 DEF SettleInv, Kept, Count, At
<1>7. OutcomeInv'
  <2>1. Grows
    BY Zenon, <1>c DEF Grows
  <2>2. Right(outcome)'
    <3>1. PICK r : r = Given(p)
      OBVIOUS
    <3>2. Right(r)
      BY Zenon, <1>g, <3>1
    <3>3. Right(r)' /\ outcome' = r
      BY Zenon, <1>a, <1>c, <1>e, <2>1, <3>1, <3>2, RightFrame
    <3> QED BY Zenon, <3>3 DEF Right
  <2>3. \A q \in Procs : at'[q].pc \notin {"settle", "last_settle"}
    BY Zenon, <1>a, <1>b, <1>1, <1>2 DEF Still, SettleInv, Settling
  <2>4. \A j \in 1..Count : Reported(j)' => Reported(j)
    <3>1. \A j : Waiting(j)' <=> Waiting(j)
      BY Zenon, <1>c DEF Waiting
    <3>2. ~At(p, "run")
      BY Zenon, <1>b DEF At
    <3> QED BY Zenon, <1>c, <1>1, <1>4, <3>1, <3>2, ReportedSame
  <2>5. ASSUME context' # "none", NEW j \in 1..Count, Reported(j)' PROVE Fine(j)'
    <3>1. Fine(j) /\ (flag => flag') /\ first'[j] = first[j]
      BY Zenon, <1>a, <1>c, <2>4, <2>5 DEF OutcomeInv
    <3> QED BY Zenon, <1>a, <1>c, <2>1, <3>1, FineFrame
  <2> QED BY Zenon, <1>c, <2>2, <2>3, <2>5 DEF OutcomeInv, Kept, Count
<1> QED BY Zenon, <1>3, <1>4, <1>5, <1>6, <1>7 DEF IInv

(* Whoever is last settles what nobody has.                                 *)
LEMMA LastInv ==
  ASSUME IInv, NEW p \in Procs, Last(p)
  PROVE  IInv'
<1>a. TypeOK /\ ShapeInv /\ InputInv /\ CountInv /\ SettleInv /\ OutcomeInv
  BY Zenon DEF IInv
<1>b. at[p].pc = "last" /\ Ending(p) /\ Holds(p)
  BY Zenon DEF Last, At, Ending, Holds, HolderPCs
<1>c. /\ Kept /\ stack' = stack /\ chain' = chain /\ result' = result /\ consumed' = consumed
      /\ was' = was /\ refs' = refs /\ callerHolds' = callerHolds /\ context' = context
      /\ remaining' = remaining /\ null' = null /\ outcome' = outcome /\ settles' = settles
      /\ refused' = refused /\ flag' = flag /\ first' = first
  BY Zenon DEF Last, Kept, inputVars, refVars, ctxVars, outVars
<1>d. /\ context = "live" /\ remaining = 0 /\ (kind = "zip" => refused = {})
      /\ \A i \in 1..Count : Reported(i) /\ ~Abandoned(i)
      /\ \A q \in Procs : ~Working(q) /\ (q # p => ~Ending(q))
  BY Zenon, <1>b, AtEnd
<1>e. \A i \in 1..Count : Fine(i)
  BY Zenon, <1>a, <1>d DEF OutcomeInv
<1>f. Count > 0 /\ 1 \in 1..Count
  <2>1. Count # 0
    BY Zenon, <1>a, <1>d DEF SettleInv
  <2> QED BY <1>a, <2>1, Arrays
<1>g. /\ flag => settles = 1
      /\ ~flag => settles = 0
  <2>1. flag => settles # 0
    BY Zenon, <1>a, <1>d DEF SettleInv, Working
  <2>2. ~flag => settles # 1
    <3>1. \A q \in Procs : ~At(q, "free")
      BY Zenon, <1>b, <1>d DEF At, Ending
    <3>2. Count # 0 /\ context # "freed"
      BY <1>a, <1>d, <1>f, Arrays
    <3> QED BY Zenon, <1>a, <3>1, <3>2 DEF SettleInv
  <2>3. settles = 0 \/ settles = 1
    BY Zenon, <1>a DEF SettleInv
  <2> QED BY Zenon, <2>1, <2>2, <2>3
<1>h. PICK r : /\ r \in LastOutcome
               /\ Become(p, IF r = None THEN "free" ELSE "last_settle", Slot(p), r)
  BY Zenon DEF Last
<1>i. /\ r \in Gives /\ (flag => r = None) /\ (~flag => r # None)
      /\ ~flag /\ kind = "zip" => r \in Zipped
      /\ ~flag /\ kind = "all" => r = OK
      /\ ~flag /\ kind = "any" => r = EINVAL
  <2>1. kind \in {"all", "any", "zip"}
    BY Zenon, <1>a DEF ShapeInv, Kinds
  <2>2. /\ None \in Gives /\ OK \in Gives /\ ERR \in Gives /\ EINVAL \in Gives
        /\ "zip_failed" \in Gives
    BY Zenon DEF Gives
  <2>3. OK # None /\ ERR # None /\ EINVAL # None /\ "zip_failed" # None
    BY DEF OK, ERR, EINVAL, None
  <2>4. Zipped \subseteq {OK, ERR, "zip_failed"}
    BY Zenon DEF Zipped
  <2>5. CASE flag
    BY Zenon, <1>h, <2>2, <2>5 DEF LastOutcome
  <2>6. CASE ~flag /\ kind = "zip"
    <3>1. LastOutcome = Zipped
      BY <2>6 DEF LastOutcome
    <3> QED BY Zenon, <1>h, <2>2, <2>3, <2>4, <2>6, <3>1
  <2>7. CASE ~flag /\ kind = "all"
    <3>1. LastOutcome = {OK}
      BY <2>7 DEF LastOutcome
    <3> QED BY Zenon, <1>h, <2>2, <2>3, <2>7, <3>1
  <2>8. CASE ~flag /\ kind = "any"
    <3>1. LastOutcome = {EINVAL}
      BY <2>8 DEF LastOutcome
    <3> QED BY Zenon, <1>h, <2>2, <2>3, <2>8, <3>1
  <2> QED BY Zenon, <2>1, <2>5, <2>6, <2>7, <2>8
<1>j. ASSUME ~flag PROVE Right(r)
  <2>0. /\ OK # ERR /\ OK # EINVAL /\ ERR # EINVAL
        /\ "zip_failed" \notin {OK, ERR, EINVAL, Moved} /\ Moved \notin {OK, ERR, EINVAL}
    BY DEF OK, ERR, EINVAL, Moved
  <2>1. CASE kind = "all"
    <3>1. AllTaken /\ kind # "any" /\ context # "none"
      BY Zenon, <1>d, <1>e, <1>j, <2>1 DEF AllTaken, Fine
    <3> QED BY Zenon, <1>d, <1>i, <1>j, <2>0, <2>1, <3>1 DEF Right
  <2>2. CASE kind = "any"
    <3>1. 1 \in refused
      BY Zenon, <1>e, <1>f, <1>j, <2>2 DEF Fine
    <3> QED BY Zenon, <1>i, <1>j, <2>0, <2>2, <3>1 DEF Right
  <2>3. CASE kind = "zip"
    <3>1. /\ \A i \in 1..Count : /\ first[i] \in {OK, ERR, Moved}
                                 /\ first[i] = OK => Succeeded(i)
                                 /\ first[i] = ERR => Failed(i)
                                 /\ first[i] = Moved => slots[i] \in consumed
      BY Zenon, <1>a, <1>d, <1>e, <2>3 DEF Fine, ShapeInv
    <3>2. r = ERR => \E i \in 1..Count : Failed(i)
      BY Zenon, <1>i, <1>j, <2>0, <2>3, <3>1 DEF Zipped
    <3>3. r = OK => \A i \in 1..Count : first[i] # ERR
      BY Zenon, <1>i, <1>j, <2>0, <2>3 DEF Zipped
    <3>4. r = OK => AllTaken /\ kind # "any" /\ context # "none"
      BY Zenon, <1>d, <2>3, <3>1, <3>3 DEF AllTaken
    <3>5. r # EINVAL /\ r # Moved
      BY Zenon, <1>i, <1>j, <2>0, <2>3 DEF Zipped
    <3> QED BY Zenon, <1>d, <3>2, <3>4, <3>5 DEF Right
  <2> QED BY Zenon, <1>a, <2>1, <2>2, <2>3 DEF ShapeInv, Kinds
<1>1. /\ at'[p].slot = at[p].slot /\ at'[p].give = r /\ Still(p) /\ AtTyped
      /\ flag => at'[p].pc = "free"
      /\ ~flag => at'[p].pc = "last_settle"
      /\ at'[p].pc \in {"free", "last_settle"}
  <2>1. PICK l \in {"free", "last_settle"} : /\ Become(p, l, Slot(p), r)
                                             /\ (r = None => l = "free")
                                             /\ (r # None => l = "last_settle")
    BY Zenon, <1>h
  <2>2. l \in PCs(p) /\ Slot(p) \in 0..Count
    BY Zenon, <1>a, Labels, SlotType DEF HolderPCs
  <2>3. at'[p].pc = l /\ at'[p].slot = at[p].slot /\ at'[p].give = r /\ Still(p) /\ AtTyped
    BY Zenon, <1>a, <1>i, <2>1, <2>2, Becomes DEF Slot
  <2> QED BY Zenon, <1>i, <2>1, <2>3
<1>2. Ending(p)' /\ Holds(p)' /\ at'[p].pc \notin {"run", "consume", "settle"}
  BY Zenon, <1>1 DEF Ending, Holds, HolderPCs
<1>3. CountInv' /\ (Held' <=> Held)
  BY Zenon, <1>b, <1>c, <1>1, <1>2, EndFrame
<1>4. ShapeInv' /\ InputInv' /\ CallerInv' /\ RefInv' /\ SameLoop
  <2>1. \A f \in Inputs : /\ Ready(f)' <=> Ready(f)
                          /\ result'[f] = Moved => f \in consumed'
                          /\ result'[f] \in {OK, ERR} => result'[f] = result[f]
    BY Zenon, <1>a, <1>c DEF Ready, InputInv
  <2>2. /\ consumed \subseteq consumed' /\ consumed' \subseteq Inputs /\ (flag => flag')
        /\ first' \in [1..Count -> {None, OK, ERR, Moved}]
        /\ at'[p].pc \notin {"run", "consume"}
    BY Zenon, <1>a, <1>c, <1>2 DEF ShapeInv
  <2> QED BY Zenon, <1>b, <1>c, <1>1, <1>2, <1>3, <2>1, <2>2, HolderFrame
<1>5. TypeOK'
  BY Zenon, <1>a, <1>c, <1>1 DEF TypeOK, AtTyped, Words, Kept, Count
<1>6. SettleInv'
  <2>0. settles = 0 => settles # 1
    OBVIOUS
  <2>1. \A q \in Procs : q # p => at'[q].pc \notin {"consume", "settle", "last_settle", "free"}
    BY Zenon, <1>d, <1>1 DEF Still, Working, Ending
  <2>2. \A q \in Procs : q # p => ~Settling(q)'
    BY Zenon, <2>1 DEF Settling
  <2>3. flag' => settles' # 0
    BY Zenon, <1>c, <1>g, <2>0
  <2>4. ~flag' => settles' # 1
    BY Zenon, <1>c, <1>g, <2>0
  <2>5. Settling(p)' => settles' = 0 /\ ~flag' /\ at'[p].pc = "last_settle"
    BY Zenon, <1>c, <1>g, <1>1, <1>2 DEF Settling
  <2>6. at'[p].pc = "free" => settles' = 1
    <3>1. at'[p].pc = "free" => flag
      BY Zenon, <1>1
    <3> QED BY Zenon, <1>c, <1>g, <3>1
  <2>7. at'[p].pc = "last_settle" => ~flag'
    BY Zenon, <1>c, <1>1
  <2>8. /\ context' # "none" /\ context' # "freed"
    BY <1>c, <1>d
  <2>9. Count' # 0 /\ (flag' => kind' # "zip")
    <3>1. Count # 0
      BY Zenon, <1>a, <1>d DEF SettleInv
    <3> QED BY Zenon, <1>a, <1>c, <3>1 DEF SettleInv, Kept, Count
  <2> QED BY Zenon, <1>a, <1>c, <1>2, <2>1, <2>2, <2>3, <2>4, <2>5, <2>6, <2>7, <2>8, <2>9 DEF SettleInv, At
<1>7. OutcomeInv'
  <2>1. Grows
    BY Zenon, <1>c DEF Grows
  <2>2. at'[p].pc \in {"settle", "last_settle"} => Right(r)' /\ Rereads(p)'
    <3>1. at'[p].pc = "last_settle" => ~flag
      BY Zenon, <1>1
    <3>2. ~flag /\ kind = "all" => r # ERR
      <4>1. OK # ERR
        BY DEF OK, ERR
      <4> QED BY Zenon, <1>i, <4>1
    <3>3. ~flag => Rereads(p)'
      BY Zenon, <1>c, <1>1, <3>2 DEF Rereads, Kept
    <3> QED BY Zenon, <1>a, <1>c, <1>j, <1>2, <2>1, <3>1, <3>3, RightFrame
  <2>3. \A j \in 1..Count : Reported(j)' => Reported(j)
    BY Zenon, <1>d
  <2>4. context # "none" /\ first' = first
    BY Zenon, <1>c, <1>d
  <2> QED BY Zenon, <1>c, <1>1, <2>1, <2>2, <2>3, <2>4, OutcomeFrame
<1> QED BY Zenon, <1>3, <1>4, <1>5, <1>6, <1>7 DEF IInv

-----------------------------------------------------------------------------
(* Nobody else has an entry a process holds.                                *)
LEMMA Alone ==
  ASSUME IInv, NEW p \in Procs, Holds(p), NEW i, i = Slot(p)
  PROVE  /\ i \in 1..Count /\ ~Waiting(i) /\ ~Unregistered(i) /\ ~Abandoned(i)
         /\ \A q \in Procs : Holds(q) /\ Slot(q) = i => q = p
<1>a. TypeOK /\ ShapeInv /\ InputInv /\ CallerInv
  BY Zenon DEF IInv
<1>b. i \in 1..Count /\ ~(i < i) /\ ~(i > i)
  <2>1. i \in 1..Count
    BY Zenon, <1>a, SlotType
  <2> QED BY <2>1
<1>c. Holds(Caller) => ~At(Caller, "returned") /\ ~At(Caller, "register")
  BY Zenon DEF Holds, HolderPCs, At
<1>d. \A f \in Inputs : Holds(f) => /\ Input(f) = f /\ Registered(Slot(f))
                                    /\ Slot(f) \notin Range(chain[f]) /\ stack[f] = <<>>
  <2>1. \A f \in Inputs : Holds(f) => ~At(f, "idle")
    BY Zenon DEF Holds, HolderPCs, At
  <2> QED BY Zenon, <1>a, <2>1 DEF InputInv
<1>e. ASSUME NEW f \in Inputs, i \in Range(stack[f]) \cup Range(chain[f])
      PROVE  slots[i] = f /\ Registered(i)
  BY Zenon, <1>a, <1>e DEF InputInv
<1>1. CASE p = Caller
  <2>1. ~Registered(i) /\ ~Unregistered(i)
    BY Zenon, <1>b, <1>c, <1>1 DEF Registered, Unregistered
  <2>2. ~Abandoned(i)
    BY Zenon, <1>a, <1>c, <1>1 DEF CallerInv, Abandoned
  <2>3. ~Waiting(i)
    BY Zenon, <1>e, <2>1 DEF Waiting
  <2>4. \A q \in Procs : Holds(q) /\ Slot(q) = i => q = p
    BY Zenon, <1>d, <1>1, <2>1, Numbers
  <2> QED BY Zenon, <1>b, <2>1, <2>2, <2>3, <2>4
<1>2. CASE p \in Inputs
  <2>1. Registered(i) /\ slots[i] = p /\ i \notin Range(chain[p]) /\ stack[p] = <<>>
    BY Zenon, <1>d, <1>2 DEF Input
  <2>2. ~Waiting(i)
    <3>1. i \notin Range(stack[p])
      BY Zenon, <2>1, EmptyElements
    <3> QED BY Zenon, <1>e, <2>1, <3>1 DEF Waiting
  <2>3. ~Unregistered(i)
    <3>0. Slot(Caller) \in Int /\ i \in Int
      BY <1>a, <1>b, SlotType, Numbers
    <3>1. i < Slot(Caller) => ~(i >= Slot(Caller)) /\ ~(i > Slot(Caller))
      BY <3>0
    <3>2. At(Caller, "returned") => at[Caller].pc \in {"returned", "start"} /\ ~At(Caller, "register")
      BY Zenon DEF At
    <3> QED BY Zenon, <2>1, <3>1, <3>2 DEF Registered, Unregistered
  <2>4. ASSUME NEW q \in Procs, Holds(q), Slot(q) = i PROVE q = p
    <3>1. CASE q = Caller
      BY Zenon, <1>b, <1>c, <2>1, <2>4, <3>1 DEF Registered
    <3>2. CASE q \in Inputs
      BY Zenon, <1>d, <2>1, <2>4, <3>2 DEF Input
    <3> QED BY Zenon, <3>1, <3>2, Numbers
  <2> QED BY Zenon, <1>b, <2>1, <2>2, <2>3, <2>4 DEF Registered
<1> QED BY Zenon, <1>1, <1>2, Numbers

(* An entry its holder is through with is not pending any more.             *)
LEMMA Departs ==
  ASSUME IInv, NEW p \in Procs, Holds(p), ~Working(p)', Still(p), Kept, SameLoop,
         refused' = refused, stack' = stack, chain' = chain
  PROVE  Pending' = Pending \ {Slot(p)}
<1>0. PICK i : i = Slot(p)
  OBVIOUS
<1>a. /\ i \in 1..Count /\ ~Waiting(i) /\ ~Unregistered(i) /\ ~Abandoned(i)
      /\ \A q \in Procs : Holds(q) /\ Slot(q) = i => q = p
  BY Zenon, <1>0, Alone
<1>1. \A j : (Abandoned(j)' <=> Abandoned(j)) /\ (Waiting(j)' <=> Waiting(j))
  BY Zenon DEF Abandoned, Waiting, Kept
<1>2. \A q \in Procs : q # p => (Working(q)' <=> Working(q)) /\ at'[q].slot = at[q].slot
  BY Zenon DEF Still, Working
<1>3. \A j : j # i => (Due(j)' <=> Due(j))
  BY Zenon, <1>0, <1>1, <1>2 DEF Due, Slot
<1>4. ~Due(i)'
  <2>1. \A q \in Procs : Working(q) => Holds(q)
    BY Zenon DEF Working, Holds, HolderPCs
  <2> QED BY Zenon, <1>a, <1>1, <1>2, <2>1 DEF Due, Slot
<1>5. Count' = Count
  BY Zenon DEF Kept, Count
<1>6. \A j : j # i => (j \in Pending' <=> j \in Pending)
  BY Zenon, <1>1, <1>3, <1>5 DEF Pending, SameLoop
<1>7. i \notin Pending'
  BY Zenon, <1>a, <1>1, <1>4, <1>5 DEF Pending, SameLoop
<1> QED BY Zenon, <1>0, <1>6, <1>7

(* A process that resumes leaves of the rest what it was.                   *)
LEMMA LeaveFrame ==
  ASSUME IInv, NEW p \in Procs, Holds(p), Resume(p), Kept, refused' = refused,
         stack' = stack, chain' = chain, was' = was, result' = result, consumed' = consumed,
         first' = first, flag' = flag, callerHolds' = callerHolds
  PROVE  /\ ShapeInv' /\ InputInv' /\ CallerInv' /\ SameLoop /\ Still(p) /\ AtTyped
         /\ at'[p].pc \in {"drain", "register", "returned"}
         /\ \A f \in Inputs : at'[f].pc = "done" <=> at[f].pc = "done"
<1>a. TypeOK /\ ShapeInv /\ InputInv /\ CallerInv /\ Count' = Count
  BY Zenon DEF IInv, Kept, Count
<1>1. /\ Still(p) /\ AtTyped /\ ~Holds(p)'
      /\ p \in Inputs => at'[p].pc = "drain"
      /\ p = Caller => \/ at'[p].pc = "register" /\ at'[p].slot \in 1..Count
                       \/ at'[p].pc = "returned"
      /\ \A i \in 1..Count : /\ Unregistered(i)' <=> Unregistered(i) /\ ~(p = Caller /\ i = Slot(p))
                             /\ Registered(i) => Registered(i)'
  BY Zenon, <1>a, Resumes
<1>2. at'[p].pc \in {"drain", "register", "returned"}
  BY Zenon, <1>1, Numbers
<1>3. SameLoop
  <2>1. PICK k : k = Slot(p)
    OBVIOUS
  <2>2. ~Unregistered(k)
    BY Zenon, <2>1, Alone
  <2> QED BY Zenon, <1>1, <2>1, <2>2 DEF SameLoop
<1>4. at[p].pc \notin {"register", "returned", "idle", "done", "drain"}
  BY Zenon DEF Holds, HolderPCs
<1>5. ASSUME NEW f \in Inputs
      PROVE  /\ at'[f].pc = "idle" <=> at[f].pc = "idle"
             /\ at'[f].pc = "done" <=> at[f].pc = "done"
             /\ Holds(f)' => Holds(f) /\ at'[f].slot = at[f].slot /\ Slot(f) \in 1..Count
  <2>1. CASE f # p
    <3>1. at'[f] = at[f] /\ f \in Procs
      BY Zenon, <1>1, <2>1, Numbers DEF Still
    <3> QED BY Zenon, <1>a, <3>1, SlotType DEF Holds
  <2>2. CASE f = p
    BY Zenon, <1>1, <1>4, <2>2
  <2> QED BY Zenon, <2>1, <2>2
<1>6. ShapeInv'
  <2>1. \A q \in Procs : Holds(q)' \/ At(q, "register")' => at'[q].slot # 0
    <3>1. at'[p].pc = "register" => at'[p].slot # 0
      <4>1. 0 \notin 1..Count
        BY Zenon, <1>a, Arrays
      <4> QED BY Zenon, <1>1, <4>1, Numbers
    <3> QED BY Zenon, <1>a, <1>1, <3>1 DEF ShapeInv, Still, Holds, At, Slot
  <2> QED BY Zenon, <1>a, <2>1 DEF ShapeInv, Kept, Slot
<1>7. InputInv'
  <2> SUFFICES ASSUME NEW f \in Inputs PROVE InputInv!(f)'
    BY Zenon DEF InputInv
  <2>1. InputInv!(f)
    BY Zenon, <1>a DEF InputInv
  <2>2. /\ Ready(f)' <=> Ready(f)
        /\ consumed \subseteq consumed'
        /\ result'[f] = Moved => f \in consumed'
        /\ result'[f] \in {OK, ERR} => result'[f] = result[f]
    BY Zenon, <2>1 DEF Ready
  <2> QED BY Zenon, <1>a, <1>1, <1>5, <2>2, InputFrame
<1>8. CallerInv'
  <2>1. CASE p = Caller
    <3>1. callerHolds /\ ~(kind = "zip" /\ refused # {})
      BY Zenon, <1>a, <1>4, <2>1 DEF CallerInv, At
    <3>2. at'[Caller].pc \notin {"run", "consume"}
      BY Zenon, <1>2, <2>1
    <3> QED BY Zenon, <1>a, <3>1, <3>2 DEF CallerInv, Kept
  <2>2. CASE p # Caller
    <3>1. at'[Caller] = at[Caller]
      BY Zenon, <1>1, <2>2, Numbers DEF Still
    <3> QED BY Zenon, <1>a, <3>1 DEF CallerInv, Kept, Input, Slot, Ready, At
  <2> QED BY Zenon, <2>1, <2>2
<1> QED BY Zenon, <1>1, <1>2, <1>3, <1>5, <1>6, <1>7, <1>8

(* A step of a process that does not settle.                                *)
LEMMA SettleFrame ==
  ASSUME SettleInv, Kept, settles' = settles, outcome' = outcome, flag' = flag, null => null',
         context' = context, NEW p, Still(p),
         p \in Procs => /\ at[p].pc \notin {"consume", "settle", "last_settle", "free"}
                        /\ at'[p].pc \notin {"consume", "settle", "last_settle", "free"},
         context = "none" => at'[Caller].pc = at[Caller].pc
  PROVE  SettleInv'
<1>1. \A q \in Procs : /\ Settling(q)' <=> Settling(q)
                       /\ at'[q].pc \in {"consume", "settle"} <=> at[q].pc \in {"consume", "settle"}
                       /\ At(q, "consume")' <=> At(q, "consume")
                       /\ At(q, "last_settle")' <=> At(q, "last_settle")
                       /\ At(q, "free")' <=> At(q, "free")
  <2> SUFFICES ASSUME NEW q \in Procs PROVE <1>1!(q)
    OBVIOUS
  <2>1. CASE q = p
    BY Zenon, <2>1 DEF Settling, At
  <2>2. CASE q # p
    <3>1. at'[q] = at[q]
      BY Zenon, <2>2 DEF Still
    <3> QED BY Zenon, <3>1 DEF Settling, At
  <2> QED BY Zenon, <2>1, <2>2
<1>2. Count' = Count /\ kind' = kind
  BY Zenon DEF Kept, Count
<1> QED BY Zenon, <1>1, <1>2 DEF SettleInv, At

(* An entry is counted down; who counts the last one ends the call.         *)
LEMMA SubInv ==
  ASSUME IInv, NEW p \in Procs, Sub(p)
  PROVE  IInv'
<1>a. TypeOK /\ ShapeInv /\ InputInv /\ CountInv /\ RefInv /\ SettleInv /\ OutcomeInv
  BY Zenon DEF IInv
<1>b. at[p].pc = "sub" /\ Working(p) /\ Holds(p) /\ At(p, "sub")
  BY Zenon DEF Sub, At, Working, Holds, HolderPCs
<1>c. /\ Kept /\ stack' = stack /\ chain' = chain /\ result' = result /\ consumed' = consumed
      /\ was' = was /\ refs' = refs /\ callerHolds' = callerHolds /\ context' = context
      /\ null' = null /\ outcome' = outcome /\ settles' = settles
      /\ refused' = refused /\ flag' = flag /\ first' = first /\ remaining' = remaining - 1
  BY Zenon DEF Sub, Kept, inputVars, refVars, outVars
<1>d. /\ context = "live" /\ remaining # 0 /\ remaining \in Nat
      /\ ExistsBijection(1..remaining, Pending) /\ Slot(p) \in Pending
      /\ \A q \in Procs : ~Ending(q) /\ ~At(q, "release")
  BY Zenon, <1>b, AtWork
<1>e. /\ remaining' \in Nat /\ remaining' \in 0..MaxCount
      /\ remaining = 1 => remaining' = 0
      /\ remaining # 1 => remaining' # 0
  BY <1>a, <1>c, <1>d, CombinatorsAssumption DEF TypeOK
<1>1. /\ Still(p) /\ AtTyped /\ SameLoop /\ ~Working(p)'
      /\ remaining = 1 => at'[p].pc = "last" /\ at'[p].slot = at[p].slot
      /\ remaining # 1 => /\ Resume(p) /\ at'[p].pc \in {"drain", "register", "returned"}
                          /\ ShapeInv' /\ InputInv' /\ CallerInv'
                          /\ \A f \in Inputs : at'[f].pc = "done" <=> at[f].pc = "done"
  <2>1. CASE remaining = 1
    <3>1. Goto(p, "last") /\ "last" \in PCs(p)
      BY Zenon, <2>1, Labels DEF Sub, IsLast, HolderPCs
    <3>2. at'[p].pc = "last" /\ at'[p].slot = at[p].slot /\ Still(p) /\ AtTyped
      BY Zenon, <1>a, <3>1, Goes
    <3>3. Holds(p)' /\ ~Working(p)'
      BY Zenon, <3>2 DEF Holds, HolderPCs, Working
    <3> QED BY Zenon, <1>b, <1>c, <2>1, <3>2, <3>3, LoopHolds
  <2>2. CASE remaining # 1
    <3>1. Resume(p)
      BY Zenon, <2>2 DEF Sub, IsLast
    <3>2. /\ ShapeInv' /\ InputInv' /\ CallerInv' /\ SameLoop /\ Still(p) /\ AtTyped
          /\ at'[p].pc \in {"drain", "register", "returned"}
          /\ \A f \in Inputs : at'[f].pc = "done" <=> at[f].pc = "done"
      BY Zenon, <1>b, <1>c, <3>1, LeaveFrame
    <3>3. ~Working(p)'
      BY Zenon, <3>2 DEF Working
    <3> QED BY Zenon, <2>2, <3>1, <3>2, <3>3
  <2> QED BY Zenon, <2>1, <2>2
<1>2. Pending' = Pending \ {Slot(p)}
  BY Zenon, <1>b, <1>c, <1>1, Departs
<1>3. ExistsBijection(1..remaining', Pending')
  <2>1. ExistsBijection(1..(remaining - 1), Pending \ {Slot(p)})
    BY Zenon, <1>d, CountRemove
  <2> QED BY Zenon, <1>c, <1>2, <2>1
<1>4. \A q \in Procs : q # p => ~Ending(q)' /\ ~At(q, "release")'
  BY Zenon, <1>d, <1>1 DEF Still, Ending, At
<1>5. /\ at'[p].pc \in {"last", "drain", "register", "returned"}
      /\ Ending(p)' <=> remaining = 1
      /\ ~At(p, "release")'
  BY Zenon, <1>1 DEF Ending, At
<1>6. CountInv' /\ (Held' <=> Held)
  <2>1. ~At(Caller, "start")'
    BY Zenon, <1>a, <1>d, <1>1, <1>5, Numbers DEF CountInv, Still, At
  <2>2. context' = "live" /\ context' # "none" /\ context' # "freed"
    BY <1>c, <1>d
  <2>3. \A q \in Procs : Ending(q)' <=> q = p /\ remaining' = 0
    BY Zenon, <1>e, <1>4, <1>5
  <2>4. \A q \in Procs : ~At(q, "release")'
    BY Zenon, <1>4, <1>5
  <2> QED BY Zenon, <1>c, <1>d, <1>3, <2>1, <2>2, <2>3, <2>4 DEF CountInv, Held, Kept
<1>7. ShapeInv' /\ InputInv' /\ CallerInv' /\ RefInv'
  <2>1. CASE remaining = 1
    <3>1. \A f \in Inputs : /\ Ready(f)' <=> Ready(f)
                            /\ result'[f] = Moved => f \in consumed'
                            /\ result'[f] \in {OK, ERR} => result'[f] = result[f]
      BY Zenon, <1>a, <1>c DEF Ready, InputInv
    <3>2. /\ consumed \subseteq consumed' /\ consumed' \subseteq Inputs /\ (flag => flag')
          /\ first' \in [1..Count -> {None, OK, ERR, Moved}]
          /\ at'[p].pc \notin {"run", "consume"} /\ Holds(p)'
      BY Zenon, <1>a, <1>c, <1>1, <2>1 DEF ShapeInv, Holds, HolderPCs
    <3> QED BY Zenon, <1>b, <1>c, <1>1, <1>6, <2>1, <3>1, <3>2, HolderFrame
  <2>2. CASE remaining # 1
    BY Zenon, <1>a, <1>c, <1>1, <1>6, <2>2, RefFrame
  <2> QED BY Zenon, <2>1, <2>2
<1>8. TypeOK'
  BY Zenon, <1>a, <1>c, <1>e, <1>1 DEF TypeOK, AtTyped, Words, Kept, Count
<1>9. SettleInv'
  <2>1. /\ at[p].pc \notin {"consume", "settle", "last_settle", "free"}
        /\ at'[p].pc \notin {"consume", "settle", "last_settle", "free"}
    BY Zenon, <1>b, <1>5
  <2>2. context # "none"
    BY Zenon, <1>d
  <2> QED BY Zenon, <1>a, <1>c, <1>1, <2>1, <2>2, SettleFrame
<1>10. OutcomeInv'
  <2>1. Grows
    BY Zenon, <1>c, <1>d DEF Grows
  <2>2. \A j \in 1..Count : Reported(j)' => Reported(j)
    <3>1. \A j : Waiting(j)' <=> Waiting(j)
      BY Zenon, <1>c DEF Waiting
    <3>2. ~At(p, "run")
      BY Zenon, <1>b DEF At
    <3> QED BY Zenon, <1>c, <1>1, <3>1, <3>2, ReportedSame
  <2>3. context # "none" /\ at'[p].pc \notin {"settle", "last_settle"}
    BY Zenon, <1>d, <1>5
  <2> QED BY Zenon, <1>c, <1>1, <2>1, <2>2, <2>3, OutcomeFrame
<1> QED BY Zenon, <1>6, <1>7, <1>8, <1>9, <1>10 DEF IInv

(* The context is freed.                                                    *)
LEMMA FreeInv ==
  ASSUME IInv, NEW p \in Procs, Free(p)
  PROVE  IInv'
<1>a. TypeOK /\ ShapeInv /\ InputInv /\ CountInv /\ RefInv /\ SettleInv /\ OutcomeInv
  BY Zenon DEF IInv
<1>b. at[p].pc = "free" /\ Ending(p) /\ Holds(p) /\ At(p, "free") /\ ~Working(p)
  BY Zenon DEF Free, At, Ending, Working, Holds, HolderPCs
<1>c. /\ Kept /\ stack' = stack /\ chain' = chain /\ result' = result /\ consumed' = consumed
      /\ was' = was /\ refs' = refs /\ callerHolds' = callerHolds /\ context' = "freed"
      /\ null' = null /\ outcome' = outcome /\ settles' = settles
      /\ refused' = refused /\ flag' = flag /\ first' = first /\ remaining' = remaining
  BY Zenon DEF Free, Kept, inputVars, refVars, outVars
<1>d. /\ context = "live" /\ remaining = 0 /\ Pending = {}
      /\ \A q \in Procs : ~Working(q) /\ (q # p => ~Ending(q) /\ ~At(q, "release"))
  BY Zenon, <1>b, AtEnd
<1>1. /\ Still(p) /\ AtTyped /\ SameLoop /\ ~Working(p)'
      /\ kind = "zip" => at'[p].pc = "release" /\ at'[p].slot = at[p].slot
      /\ kind # "zip" => /\ at'[p].pc \in {"drain", "register", "returned"}
                         /\ ShapeInv' /\ InputInv' /\ CallerInv'
                         /\ \A f \in Inputs : at'[f].pc = "done" <=> at[f].pc = "done"
  <2>1. CASE kind = "zip"
    <3>1. /\ Become(p, "release", Slot(p), None) /\ "release" \in PCs(p) /\ Slot(p) \in 0..Count
          /\ None \in Gives
      BY Zenon, <1>a, <2>1, Labels, SlotType DEF Free, HolderPCs, Gives
    <3>2. at'[p].pc = "release" /\ at'[p].slot = at[p].slot /\ Still(p) /\ AtTyped
      BY Zenon, <1>a, <3>1, Becomes DEF Slot
    <3>3. Holds(p)' /\ ~Working(p)'
      BY Zenon, <3>2 DEF Holds, HolderPCs, Working
    <3> QED BY Zenon, <1>b, <1>c, <2>1, <3>2, <3>3, LoopHolds
  <2>2. CASE kind # "zip"
    <3>1. Resume(p)
      BY Zenon, <2>2 DEF Free
    <3>2. /\ ShapeInv' /\ InputInv' /\ CallerInv' /\ SameLoop /\ Still(p) /\ AtTyped
          /\ at'[p].pc \in {"drain", "register", "returned"}
          /\ \A f \in Inputs : at'[f].pc = "done" <=> at[f].pc = "done"
      BY Zenon, <1>b, <1>c, <3>1, LeaveFrame
    <3>3. ~Working(p)'
      BY Zenon, <3>2 DEF Working
    <3> QED BY Zenon, <2>2, <3>2, <3>3
  <2> QED BY Zenon, <2>1, <2>2
<1>2. Pending' = {}
  <2>1. Pending' = Pending \ {Slot(p)}
    BY Zenon, <1>b, <1>c, <1>1, Departs
  <2> QED BY Zenon, <1>d, <2>1
<1>3. at'[p].pc \in {"release", "drain", "register", "returned"}
  BY Zenon, <1>1
<1>4. /\ \A q \in Procs : ~Ending(q)' /\ (At(q, "release")' <=> q = p /\ kind = "zip")
      /\ \A q \in Procs : ~At(q, "release")
  <2>1. ~Ending(p)' /\ (At(p, "release")' <=> kind = "zip") /\ ~At(p, "release")
    BY Zenon, <1>b, <1>1, <1>3 DEF Ending, At
  <2>2. \A q \in Procs : q # p => ~Ending(q)' /\ ~At(q, "release")' /\ ~At(q, "release")
    BY Zenon, <1>d, <1>1 DEF Still, Ending, At
  <2> QED BY Zenon, <2>1, <2>2
<1>5. CountInv'
  <2>1. ~At(Caller, "start")'
    BY Zenon, <1>a, <1>d, <1>1, <1>3, Numbers DEF CountInv, Still, At
  <2>2. context' = "freed" /\ context' # "none" /\ context' # "live"
    BY <1>c
  <2>3. ExistsBijection(1..remaining', Pending')
    <3>1. ExistsBijection(1..remaining, Pending)
      BY Zenon, <1>a, <1>d DEF CountInv
    <3> QED BY Zenon, <1>c, <1>d, <1>2, <3>1
  <2> QED BY Zenon, <1>c, <1>d, <1>4, <2>1, <2>2, <2>3 DEF CountInv, Kept
<1>6. Held' <=> Held
  <2>1. context' # "live"
    BY <1>c
  <2> QED BY Zenon, <1>c, <1>d, <1>4, <2>1 DEF Held, Kept
<1>7. ShapeInv' /\ InputInv' /\ CallerInv' /\ RefInv'
  <2>1. CASE kind = "zip"
    <3>1. \A f \in Inputs : /\ Ready(f)' <=> Ready(f)
                            /\ result'[f] = Moved => f \in consumed'
                            /\ result'[f] \in {OK, ERR} => result'[f] = result[f]
      BY Zenon, <1>a, <1>c DEF Ready, InputInv
    <3>2. /\ consumed \subseteq consumed' /\ consumed' \subseteq Inputs /\ (flag => flag')
          /\ first' \in [1..Count -> {None, OK, ERR, Moved}]
          /\ at'[p].pc \notin {"run", "consume"} /\ Holds(p)'
      BY Zenon, <1>a, <1>c, <1>1, <2>1 DEF ShapeInv, Holds, HolderPCs
    <3> QED BY Zenon, <1>b, <1>c, <1>1, <1>6, <2>1, <3>1, <3>2, HolderFrame
  <2>2. CASE kind # "zip"
    BY Zenon, <1>a, <1>c, <1>1, <1>6, <2>2, RefFrame
  <2> QED BY Zenon, <2>1, <2>2
<1>8. TypeOK'
  BY Zenon, <1>a, <1>c, <1>1 DEF TypeOK, AtTyped, Words, Kept, Count
<1>9. SettleInv'
  <2>1. \A q \in Procs : q # p => ~Settling(q)
    BY Zenon, <1>d DEF Settling, Working, Ending
  <2>2. \A q \in Procs : ~Settling(q)' /\ at'[q].pc \notin {"consume", "settle", "last_settle", "free"}
    <3>1. \A q \in Procs : q # p => at'[q] = at[q] /\ ~Working(q) /\ ~Ending(q)
      BY Zenon, <1>d, <1>1 DEF Still
    <3> QED BY Zenon, <1>3, <3>1 DEF Settling, Working, Ending
  <2>3. settles = 1 /\ settles' # 0
    <3>1. settles = 1
      BY Zenon, <1>a, <1>b DEF SettleInv
    <3> QED BY <1>c, <3>1
  <2>4. context' = "freed" /\ context' # "none"
    BY <1>c
  <2>5. Count' # 0 /\ (flag' => kind' # "zip")
    <3>1. Count # 0
      <4>1. context # "none"
        BY <1>d
      <4> QED BY Zenon, <1>a, <4>1 DEF SettleInv
    <3> QED BY Zenon, <1>a, <1>c, <3>1 DEF SettleInv, Kept, Count
  <2> QED BY Zenon, <1>c, <2>2, <2>3, <2>4, <2>5 DEF SettleInv, At
<1>10. OutcomeInv'
  <2>0. context' # "none"
    BY <1>c
  <2>1. Grows
    BY Zenon, <1>c, <2>0 DEF Grows
  <2>2. \A j \in 1..Count : Reported(j)' => Reported(j)
    BY Zenon, <1>b, AtEnd
  <2>3. context # "none" /\ at'[p].pc \notin {"settle", "last_settle"}
    BY Zenon, <1>d, <1>3
  <2> QED BY Zenon, <1>c, <1>1, <2>1, <2>2, <2>3, OutcomeFrame
<1> QED BY Zenon, <1>5, <1>7, <1>8, <1>9, <1>10 DEF IInv

LEMMA Retains ==
  \A f \in Inputs : Retained(f) \in Nat /\ (Kept => Retained(f)' = Retained(f))
<1> SUFFICES ASSUME NEW f \in Inputs PROVE Retained(f) \in Nat /\ (Kept => Retained(f)' = Retained(f))
  OBVIOUS
<1>1. Kept => Retained(f)' = Retained(f)
  BY Zenon DEF Retained, Kept
<1>2. 0 \in Nat /\ 1 \in Nat /\ 2 \in Nat
  OBVIOUS
<1>3. Retained(f) \in Nat
  BY Zenon, <1>2 DEF Retained
<1> QED BY Zenon, <1>1, <1>3

(* Zip gives its references back.                                           *)
LEMMA ReleaseInv ==
  ASSUME IInv, NEW p \in Procs, ReleaseInputs(p)
  PROVE  IInv'
<1>a. TypeOK /\ ShapeInv /\ InputInv /\ CountInv /\ RefInv /\ SettleInv /\ OutcomeInv
  BY Zenon DEF IInv
<1>b. at[p].pc = "release" /\ At(p, "release") /\ Holds(p) /\ Resume(p)
  BY Zenon DEF ReleaseInputs, At, Holds, HolderPCs
<1>c. /\ Kept /\ stack' = stack /\ chain' = chain /\ result' = result /\ consumed' = consumed
      /\ was' = was /\ callerHolds' = callerHolds /\ context' = context
      /\ null' = null /\ outcome' = outcome /\ settles' = settles
      /\ refused' = refused /\ flag' = flag /\ first' = first /\ remaining' = remaining
      /\ refs' = [f \in Inputs |-> refs[f] - Retained(f)]
  BY Zenon DEF ReleaseInputs, Kept, inputVars, ctxVars, outVars
<1>d. /\ context = "freed" /\ kind = "zip" /\ remaining = 0 /\ Pending = {}
      /\ \A q \in Procs : ~Working(q) /\ (q # p => ~Ending(q) /\ ~At(q, "release"))
  BY Zenon, <1>b, AtEnd
<1>1. /\ ShapeInv' /\ InputInv' /\ CallerInv' /\ SameLoop /\ Still(p) /\ AtTyped
      /\ at'[p].pc \in {"drain", "register", "returned"}
      /\ \A f \in Inputs : at'[f].pc = "done" <=> at[f].pc = "done"
  BY Zenon, <1>b, <1>c, LeaveFrame
<1>2. Pending' = {}
  <2>0. ~Working(p)'
    BY Zenon, <1>1 DEF Working
  <2>1. Pending' = Pending \ {Slot(p)}
    BY Zenon, <1>b, <1>c, <1>1, <2>0, Departs
  <2> QED BY Zenon, <1>d, <2>1
<1>3. \A q \in Procs : ~Ending(q)' /\ ~At(q, "release")'
  BY Zenon, <1>d, <1>1 DEF Still, Ending, At
<1>4. context # "live" /\ context # "none"
  BY <1>d
<1>5. CountInv'
  <2>1. ~At(Caller, "start")'
    BY Zenon, <1>a, <1>4, <1>1, Numbers DEF CountInv, Still, At
  <2>2. ExistsBijection(1..remaining', Pending')
    <3>1. ExistsBijection(1..remaining, Pending)
      BY Zenon, <1>a, <1>4 DEF CountInv
    <3> QED BY Zenon, <1>c, <1>d, <1>2, <3>1
  <2> QED BY Zenon, <1>c, <1>d, <1>3, <1>4, <2>1, <2>2 DEF CountInv, Kept
<1>6. Held /\ ~Held'
  BY Zenon, <1>b, <1>c, <1>d, <1>3, <1>4 DEF Held, Kept
<1>7. RefInv' /\ refs' \in [Inputs -> Nat]
  <2>1. ASSUME NEW f \in Inputs
        PROVE  /\ refs'[f] \in Nat
               /\ refs'[f] = (IF callerHolds' THEN 1 ELSE 0) + (IF At(f, "done")' THEN 0 ELSE 1)
                              + (IF Held' THEN Retained(f)' ELSE 0)
    <3>1. PICK a \in {0, 1} : a = IF callerHolds THEN 1 ELSE 0
      BY Zenon
    <3>2. PICK b \in {0, 1} : b = IF At(f, "done") THEN 0 ELSE 1
      BY Zenon
    <3>3. refs[f] = a + b + Retained(f)
      BY Zenon, <1>a, <1>6, <3>1, <3>2 DEF RefInv
    <3>4. Retained(f) \in Nat /\ refs'[f] = refs[f] - Retained(f)
      BY Zenon, <1>c, Retains
    <3>5. refs'[f] = a + b + 0 /\ refs'[f] \in Nat
      BY <3>3, <3>4
    <3>6. a = IF callerHolds' THEN 1 ELSE 0
      BY Zenon, <1>c, <3>1
    <3>7. b = IF At(f, "done")' THEN 0 ELSE 1
      BY Zenon, <1>1, <3>2 DEF At
    <3> QED BY Zenon, <1>6, <3>5, <3>6, <3>7
  <2>2. refs' \in [Inputs -> Nat]
    BY Zenon, <1>c, <2>1
  <2> QED BY Zenon, <2>1, <2>2 DEF RefInv
<1>8. TypeOK'
  BY Zenon, <1>a, <1>c, <1>1, <1>7 DEF TypeOK, AtTyped, Words, Kept, Count
<1>9. SettleInv'
  <2>1. /\ at[p].pc \notin {"consume", "settle", "last_settle", "free"}
        /\ at'[p].pc \notin {"consume", "settle", "last_settle", "free"}
    BY Zenon, <1>b, <1>1
  <2> QED BY Zenon, <1>a, <1>c, <1>1, <1>4, <2>1, SettleFrame
<1>10. OutcomeInv'
  <2>1. Grows
    BY Zenon, <1>c DEF Grows
  <2>2. \A j \in 1..Count : Reported(j)' => Reported(j)
    BY Zenon, <1>b, AtEnd
  <2>3. at'[p].pc \notin {"settle", "last_settle"}
    BY Zenon, <1>1
  <2> QED BY Zenon, <1>c, <1>1, <1>4, <2>1, <2>2, <2>3, OutcomeFrame
<1> QED BY Zenon, <1>1, <1>5, <1>7, <1>8, <1>9, <1>10 DEF IInv

-----------------------------------------------------------------------------
(* A step of somebody outside the call.                                     *)
LEMMA QuietFrame ==
  ASSUME IInv, at' = at, Kept, stack' = stack, chain' = chain, was' = was, refused' = refused,
         context' = context, remaining' = remaining, flag' = flag, first' = first,
         outcome' = outcome, settles' = settles, null' = null,
         consumed \subseteq consumed', consumed' \subseteq Inputs,
         \A f \in Inputs : /\ Ready(f)' <=> Ready(f)
                           /\ result'[f] = Moved => f \in consumed'
                           /\ result'[f] \in {OK, ERR} => result'[f] = result[f],
         result' \in [Inputs -> {None, OK, ERR, Moved}], refs' \in [Inputs -> Nat],
         callerHolds' \/ At(Caller, "returned"), RefInv'
  PROVE  IInv'
<1>a. TypeOK /\ ShapeInv /\ InputInv /\ CallerInv /\ CountInv /\ SettleInv /\ Count' = Count
  BY Zenon DEF IInv, Kept, Count
<1>b. PICK p : p \notin Procs
  <2>1. -1 \notin Procs
    BY CombinatorsAssumption DEF Procs, Caller, Inputs
  <2> QED BY Zenon, <2>1
<1>c. Still(p) /\ SameLoop
  BY Zenon, LoopSame DEF Still
<1>1. TypeOK'
  BY Zenon, <1>a DEF TypeOK, Kept
<1>2. ShapeInv'
  BY Zenon, <1>a DEF ShapeInv, Kept, Holds, At, Slot
<1>3. InputInv'
  <2> SUFFICES ASSUME NEW f \in Inputs PROVE InputInv!(f)'
    BY Zenon DEF InputInv
  <2>1. /\ at'[f].pc = "idle" <=> at[f].pc = "idle"
        /\ at'[f].pc = "done" <=> at[f].pc = "done"
        /\ Holds(f)' => Holds(f) /\ at'[f].slot = at[f].slot /\ Slot(f) \in 1..Count
    BY Zenon, <1>a, Numbers, SlotType DEF Holds
  <2>2. \A i \in 1..Count : Registered(i) => Registered(i)'
    BY Zenon, <1>c DEF SameLoop
  <2> QED BY Zenon, <1>a, <2>1, <2>2, InputFrame
<1>4. CallerInv'
  <2>1. ASSUME at[Caller].pc \in {"run", "consume"} PROVE Input(Caller)' # Null /\ Ready(Input(Caller))'
    <3>1. PICK f : f = Input(Caller) /\ f \in Inputs /\ Ready(f)
      BY Zenon, <2>1, RunsOn, Numbers
    <3>2. Input(Caller)' = f
      BY Zenon, <3>1 DEF Input, Slot, Kept
    <3>3. result'[f] # None
      BY Zenon, <3>1 DEF Ready
    <3> QED BY Zenon, <3>1, <3>2, <3>3, Numbers DEF Ready
  <2> QED BY Zenon, <1>a, <2>1 DEF CallerInv, Kept, At
<1>5. CountInv'
  <2>1. Pending' = Pending
    BY Zenon, <1>b, <1>c, PendingSame
  <2> QED BY Zenon, <1>a, <2>1 DEF CountInv, At, Ending, Holds, Kept
<1>6. SettleInv'
  BY Zenon, <1>a, <1>b, <1>c, SettleFrame
<1>7. OutcomeInv'
  <2>1. Grows
    BY Zenon DEF Grows
  <2>2. \A j \in 1..Count : Reported(j)' => Reported(j)
    <3>1. \A j : Waiting(j)' <=> Waiting(j)
      BY Zenon DEF Waiting
    <3> QED BY Zenon, <1>b, <1>c, <3>1, ReportedSame
  <2> QED BY Zenon, <1>b, <1>c, <2>1, <2>2, OutcomeFrame
<1> QED BY Zenon, <1>1, <1>2, <1>3, <1>4, <1>5, <1>6, <1>7 DEF IInv

LEMMA TakeInv ==
  ASSUME IInv, NEW f \in Inputs, Take(f)
  PROVE  IInv'
<1>a. TypeOK /\ ShapeInv /\ InputInv /\ CallerInv /\ RefInv
  BY Zenon DEF IInv
<1>b. /\ at' = at /\ Kept /\ stack' = stack /\ chain' = chain /\ was' = was /\ refused' = refused
      /\ context' = context /\ remaining' = remaining /\ flag' = flag /\ first' = first
      /\ outcome' = outcome /\ settles' = settles /\ null' = null
      /\ refs' = refs /\ callerHolds' = callerHolds /\ Ready(f)
      /\ consumed' = consumed \cup {f} /\ result' = [result EXCEPT ![f] = Moved]
  BY Zenon DEF Take, Kept, refVars, ctxVars, outVars
<1>1. consumed \subseteq consumed' /\ consumed' \subseteq Inputs
  BY Zenon, <1>a, <1>b DEF ShapeInv
<1>2. /\ result' \in [Inputs -> {None, OK, ERR, Moved}]
      /\ \A g \in Inputs : /\ Ready(g)' <=> Ready(g)
                           /\ result'[g] = Moved => g \in consumed'
                           /\ result'[g] \in {OK, ERR} => result'[g] = result[g]
  <2>1. result \in [Inputs -> {None, OK, ERR, Moved}]
    BY Zenon, <1>a DEF TypeOK
  <2>2. /\ result'[f] = Moved /\ \A g \in Inputs : g # f => result'[g] = result[g]
        /\ result' \in [Inputs -> {None, OK, ERR, Moved}]
    BY Zenon, <1>b, <2>1
  <2>3. Moved # None /\ Moved # OK /\ Moved # ERR
    BY DEF Moved, OK, ERR, None
  <2> QED BY Zenon, <1>a, <1>b, <2>2, <2>3 DEF Ready, InputInv
<1>3. RefInv'
  BY Zenon, <1>a, <1>b, RefFrame DEF Held, Kept, At
<1>4. refs' \in [Inputs -> Nat] /\ (callerHolds' \/ At(Caller, "returned"))
  BY Zenon, <1>a, <1>b DEF TypeOK, CallerInv
<1> QED BY Zenon, <1>b, <1>1, <1>2, <1>3, <1>4, QuietFrame

LEMMA CallerReleaseInv ==
  ASSUME IInv, CallerRelease
  PROVE  IInv'
<1>a. TypeOK /\ ShapeInv /\ InputInv /\ RefInv
  BY Zenon DEF IInv
<1>b. /\ at' = at /\ Kept /\ stack' = stack /\ chain' = chain /\ was' = was /\ refused' = refused
      /\ context' = context /\ remaining' = remaining /\ flag' = flag /\ first' = first
      /\ outcome' = outcome /\ settles' = settles /\ null' = null
      /\ consumed' = consumed /\ result' = result /\ At(Caller, "returned")
      /\ callerHolds /\ callerHolds' = FALSE /\ refs' = [f \in Inputs |-> refs[f] - 1]
  BY Zenon DEF CallerRelease, Kept, inputVars, ctxVars, outVars
<1>1. Held' <=> Held
  BY Zenon, <1>b DEF Held, Kept, At
<1>2. RefInv' /\ refs' \in [Inputs -> Nat]
  <2>1. ASSUME NEW f \in Inputs
        PROVE  /\ refs'[f] \in Nat
               /\ refs'[f] = (IF callerHolds' THEN 1 ELSE 0) + (IF At(f, "done")' THEN 0 ELSE 1)
                              + (IF Held' THEN Retained(f)' ELSE 0)
    <3>1. PICK b \in {0, 1} : b = IF At(f, "done") THEN 0 ELSE 1
      BY Zenon
    <3>2. PICK c \in Nat : c = IF Held THEN Retained(f) ELSE 0
      <4>1. 0 \in Nat /\ Retained(f) \in Nat
        BY Retains
      <4> QED BY Zenon, <4>1
    <3>3. refs[f] = 1 + b + c
      BY Zenon, <1>a, <1>b, <3>1, <3>2 DEF RefInv
    <3>4. refs'[f] = refs[f] - 1
      BY Zenon, <1>b
    <3>5. refs'[f] = 0 + b + c /\ refs'[f] \in Nat
      BY <3>3, <3>4
    <3>6. b = IF At(f, "done")' THEN 0 ELSE 1
      BY Zenon, <1>b, <3>1 DEF At
    <3>7. c = IF Held' THEN Retained(f)' ELSE 0
      BY Zenon, <1>b, <1>1, <3>2, Retains
    <3> QED BY Zenon, <1>b, <3>5, <3>6, <3>7
  <2>2. refs' \in [Inputs -> Nat]
    BY Zenon, <1>b, <2>1
  <2> QED BY Zenon, <2>1, <2>2 DEF RefInv
<1>3. /\ consumed \subseteq consumed' /\ consumed' \subseteq Inputs
      /\ result' \in [Inputs -> {None, OK, ERR, Moved}]
      /\ \A g \in Inputs : /\ Ready(g)' <=> Ready(g)
                           /\ result'[g] = Moved => g \in consumed'
                           /\ result'[g] \in {OK, ERR} => result'[g] = result[g]
  BY Zenon, <1>a, <1>b DEF ShapeInv, TypeOK, InputInv, Ready
<1> QED BY Zenon, <1>b, <1>2, <1>3, QuietFrame

LEMMA StutterInv ==
  ASSUME IInv, UNCHANGED vars
  PROVE  IInv'
<1>a. TypeOK /\ ShapeInv /\ InputInv /\ CallerInv /\ RefInv
  BY Zenon DEF IInv
<1>b. /\ at' = at /\ Kept /\ stack' = stack /\ chain' = chain /\ was' = was /\ refused' = refused
      /\ context' = context /\ remaining' = remaining /\ flag' = flag /\ first' = first
      /\ outcome' = outcome /\ settles' = settles /\ null' = null
      /\ consumed' = consumed /\ result' = result /\ refs' = refs /\ callerHolds' = callerHolds
  BY Zenon DEF vars, Kept, inputVars, refVars, ctxVars, outVars
<1>1. RefInv'
  BY Zenon, <1>a, <1>b, RefFrame DEF Held, Kept, At
<1>2. /\ consumed \subseteq consumed' /\ consumed' \subseteq Inputs
      /\ result' \in [Inputs -> {None, OK, ERR, Moved}] /\ refs' \in [Inputs -> Nat]
      /\ callerHolds' \/ At(Caller, "returned")
      /\ \A g \in Inputs : /\ Ready(g)' <=> Ready(g)
                           /\ result'[g] = Moved => g \in consumed'
                           /\ result'[g] \in {OK, ERR} => result'[g] = result[g]
  BY Zenon, <1>a, <1>b DEF ShapeInv, TypeOK, InputInv, CallerInv, Ready
<1> QED BY Zenon, <1>b, <1>1, <1>2, QuietFrame

-----------------------------------------------------------------------------
(* Before the context is made nobody else takes part in the call.           *)
LEMMA AtStart ==
  ASSUME IInv, At(Caller, "start")
  PROVE  /\ context = "none" /\ remaining = 0 /\ refused = {} /\ ~flag /\ settles = 0
         /\ outcome = None /\ callerHolds /\ ~Held
         /\ \A p \in Procs : ~Holds(p)
         /\ \A f \in Inputs : stack[f] = <<>> /\ chain[f] = <<>>
<1>a. CallerInv /\ CountInv /\ SettleInv
  BY Zenon DEF IInv
<1>1. context = "none"
  BY Zenon, <1>a DEF CountInv
<1>2. at[Caller].pc = "start" /\ at[Caller].pc # "returned"
  BY Zenon DEF At
<1>3. \A p \in Procs : ~Holds(p)
  <2>1. ~Holds(Caller)
    BY Zenon, <1>2 DEF Holds, HolderPCs
  <2> QED BY Zenon, <1>a, <1>1, <2>1, Numbers DEF CountInv
<1>4. ~Held
  <2>1. context # "live"
    BY <1>1
  <2>2. \A p \in Procs : ~At(p, "release")
    BY Zenon, <1>3 DEF Holds, HolderPCs, At
  <2> QED BY Zenon, <2>1, <2>2 DEF Held
<1> QED BY Zenon, <1>a, <1>1, <1>2, <1>3, <1>4 DEF CountInv, SettleInv, CallerInv, At

LEMMA StartFrame ==
  ASSUME IInv, At(Caller, "start"), Kept, stack' = stack, chain' = chain, result' = result,
         consumed' = consumed, was' = was, refused' = refused, first' = first, flag' = flag,
         callerHolds' = callerHolds,
         Still(Caller), at'[Caller].pc \in {"register", "returned"},
         at'[Caller].pc = "register" => at'[Caller].slot # 0
  PROVE  /\ ShapeInv' /\ InputInv' /\ CallerInv'
         /\ \A p \in Procs : ~Holds(p)'
         /\ \A f \in Inputs : at'[f].pc = "done" <=> at[f].pc = "done"
<1>a. TypeOK /\ ShapeInv /\ InputInv /\ CallerInv /\ Count' = Count
  BY Zenon DEF IInv, Kept, Count
<1>b. /\ refused = {} /\ callerHolds
      /\ \A p \in Procs : ~Holds(p)
      /\ \A f \in Inputs : stack[f] = <<>> /\ chain[f] = <<>>
  BY Zenon, AtStart
<1>c. \A f \in Inputs : at'[f] = at[f]
  BY Zenon, Numbers DEF Still
<1>1. \A p \in Procs : ~Holds(p)'
  <2>1. ~Holds(Caller)'
    BY Zenon DEF Holds, HolderPCs
  <2>2. \A f \in Inputs : ~Holds(f)'
    BY Zenon, <1>b, <1>c, Numbers DEF Holds
  <2> QED BY Zenon, <2>1, <2>2, Numbers
<1>2. ShapeInv'
  <2>1. \A q \in Procs : Holds(q)' \/ At(q, "register")' => at'[q].slot # 0
    BY Zenon, <1>a, <1>1 DEF ShapeInv, Still, Holds, At, Slot
  <2> QED BY Zenon, <1>a, <2>1 DEF ShapeInv, Kept, Slot
<1>3. InputInv'
  <2> SUFFICES ASSUME NEW f \in Inputs PROVE InputInv!(f)'
    BY Zenon DEF InputInv
  <2>1. InputInv!(f) /\ at'[f] = at[f] /\ ~Holds(f)'
    BY Zenon, <1>a, <1>c, <1>1, Numbers DEF InputInv
  <2>2. \A s \in {stack'[f], chain'[f]} : s = <<>>
    BY Zenon, <1>b
  <2>3. <<>> \in Seq(1..Count') /\ IsInjective(<<>>) /\ Range(<<>>) = {}
    BY EmptyElements
  <2>4. \A s \in {stack'[f], chain'[f]} :
          /\ s \in Seq(1..Count') /\ IsInjective(s)
          /\ \A i \in Range(s) : slots'[i] = f /\ Registered(i)'
    BY Zenon, <2>2, <2>3
  <2> QED BY Zenon, <1>b, <2>1, <2>4 DEF Ready, At
<1>4. CallerInv'
  <2>1. at'[Caller].pc \notin {"run", "consume"}
    BY Zenon
  <2> QED BY Zenon, <1>b, <2>1 DEF CallerInv, Kept
<1> QED BY Zenon, <1>1, <1>2, <1>3, <1>4, <1>c

(* A call that makes no context.                                            *)
LEMMA NoCallInv ==
  ASSUME IInv, StartEmpty \/ StartFails
  PROVE  IInv'
<1>a. TypeOK /\ ShapeInv /\ InputInv /\ CountInv /\ RefInv /\ SettleInv /\ OutcomeInv
  BY Zenon DEF IInv
<1>b. /\ At(Caller, "start") /\ Kept /\ stack' = stack /\ chain' = chain /\ result' = result
      /\ consumed' = consumed /\ was' = was /\ refused' = refused /\ first' = first
      /\ flag' = flag /\ callerHolds' = callerHolds /\ refs' = refs /\ context' = context
      /\ remaining' = remaining /\ Goto(Caller, "returned")
      /\ \/ Count = 0 /\ outcome' = OK /\ settles' = 1 /\ null' = null
         \/ outcome' = outcome /\ settles' = settles /\ null' = TRUE
  BY Zenon DEF StartEmpty, StartFails, Kept, inputVars, refVars, ctxVars
<1>c. /\ context = "none" /\ remaining = 0 /\ refused = {} /\ ~flag /\ settles = 0
      /\ outcome = None /\ ~Held
      /\ \A f \in Inputs : stack[f] = <<>> /\ chain[f] = <<>>
  BY Zenon, <1>b, AtStart
<1>d. context # "live" /\ context # "freed" /\ settles' \in {0, 1}
  BY <1>b, <1>c
<1>1. at'[Caller].pc = "returned" /\ Still(Caller) /\ AtTyped
  <2>1. "returned" \in PCs(Caller)
    BY Zenon, Labels, Numbers
  <2> QED BY Zenon, <1>a, <1>b, <2>1, Goes, Numbers
<1>2. /\ ShapeInv' /\ InputInv' /\ CallerInv'
      /\ \A p \in Procs : ~Holds(p)'
      /\ \A f \in Inputs : at'[f].pc = "done" <=> at[f].pc = "done"
  BY Zenon, <1>b, <1>1, StartFrame
<1>3. /\ \A p \in Procs : ~Ending(p)' /\ ~At(p, "release")' /\ ~Settling(p)'
      /\ \A p \in Procs : at'[p].pc \notin {"consume", "settle", "last_settle", "free"}
  BY Zenon, <1>2 DEF Holds, HolderPCs, Ending, At, Settling
<1>4. TypeOK'
  <2>1. outcome' \in Gives /\ null' \in BOOLEAN
    BY Zenon, <1>a, <1>b DEF TypeOK, Gives
  <2> QED BY Zenon, <1>a, <1>b, <1>1, <2>1 DEF TypeOK, AtTyped, Words, Kept, Count
<1>5. CountInv'
  BY Zenon, <1>b, <1>c, <1>d, <1>1, <1>2, <1>3, Numbers DEF CountInv
<1>6. RefInv'
  <2>1. ~Held'
    BY Zenon, <1>b, <1>d, <1>3 DEF Held
  <2> QED BY Zenon, <1>a, <1>b, <1>c, <1>2, <2>1, RefFrame
<1>7. SettleInv'
  <2>1. settles' = 1 => Count' = 0
    <3>1. CASE settles' = settles
      <4>1. settles' # 1
        BY <1>c, <3>1
      <4> QED BY Zenon, <4>1
    <3>2. CASE Count = 0
      BY Zenon, <1>b, <3>2 DEF Kept, Count
    <3> QED BY Zenon, <1>b, <3>1, <3>2
  <2>2. settles' = 0 => outcome' = None
    <3>1. CASE settles' = 1
      <4>1. settles' # 0
        BY <3>1
      <4> QED BY Zenon, <4>1
    <3>2. CASE outcome' = outcome
      BY Zenon, <1>c, <3>2
    <3> QED BY Zenon, <1>b, <3>1, <3>2
  <2>3. null' \/ settles' = 1
    BY Zenon, <1>b
  <2>4. at'[Caller].pc # "start"
    BY Zenon, <1>1
  <2> QED BY Zenon, <1>b, <1>c, <1>d, <1>3, <2>1, <2>2, <2>3, <2>4 DEF SettleInv, At
<1>8. OutcomeInv'
  <2>1. Right(outcome)'
    <3>1. CASE Count = 0 /\ outcome' = OK
      <4>1. ~(Count' > 0) /\ OK # ERR /\ OK # EINVAL /\ OK # Moved
        BY <1>b, <3>1 DEF Kept, Count, OK, ERR, EINVAL, Moved
      <4> QED BY Zenon, <3>1, <4>1 DEF Right
    <3>2. CASE outcome' = None
      <4>1. None # OK /\ None # ERR /\ None # EINVAL /\ None # Moved
        BY DEF None, OK, ERR, EINVAL, Moved
      <4> QED BY Zenon, <3>2, <4>1 DEF Right
    <3> QED BY Zenon, <1>b, <1>c, <3>1, <3>2
  <2> QED BY Zenon, <1>b, <1>c, <1>3, <2>1 DEF OutcomeInv
<1> QED BY Zenon, <1>2, <1>4, <1>5, <1>6, <1>7, <1>8 DEF IInv

(* The context is made: every entry is pending.                             *)
LEMMA StartInv ==
  ASSUME IInv, Start
  PROVE  IInv'
<1>a. TypeOK /\ ShapeInv /\ InputInv /\ CountInv /\ RefInv /\ SettleInv /\ OutcomeInv
  BY Zenon DEF IInv
<1>b. /\ At(Caller, "start") /\ Kept /\ stack' = stack /\ chain' = chain /\ result' = result
      /\ consumed' = consumed /\ was' = was /\ refused' = refused /\ first' = first
      /\ flag' = flag /\ callerHolds' = callerHolds /\ context' = "live"
      /\ remaining' = Count /\ outcome' = outcome /\ settles' = settles /\ null' = null
      /\ Become(Caller, "register", 1, None) /\ Count > 0
      /\ refs' = [f \in Inputs |-> refs[f] + Retained(f)]
  BY Zenon DEF Start, Kept, inputVars, outVars, RetainInput
<1>c. /\ context = "none" /\ ~flag /\ settles = 0 /\ outcome = None /\ ~Held
      /\ \A p \in Procs : ~Holds(p)
      /\ \A f \in Inputs : stack[f] = <<>> /\ chain[f] = <<>>
  BY Zenon, <1>b, AtStart
<1>d. Count \in Nat /\ Count # 0 /\ Count \in 0..MaxCount /\ 1 \in 0..Count /\ Count' = Count
  <2>1. Count' = Count
    BY Zenon, <1>b DEF Kept, Count
  <2> QED BY <1>a, <1>b, <2>1, Arrays, CombinatorsAssumption DEF ShapeInv
<1>1. at'[Caller].pc = "register" /\ at'[Caller].slot = 1 /\ Still(Caller) /\ AtTyped
  <2>1. "register" \in PCs(Caller) /\ None \in Gives
    BY Zenon, Labels, Numbers DEF Gives
  <2> QED BY Zenon, <1>a, <1>b, <1>d, <2>1, Becomes, Numbers
<1>2. /\ ShapeInv' /\ InputInv' /\ CallerInv'
      /\ \A p \in Procs : ~Holds(p)'
      /\ \A f \in Inputs : at'[f].pc = "done" <=> at[f].pc = "done"
  <2>1. 1 # 0
    OBVIOUS
  <2> QED BY Zenon, <1>b, <1>1, <2>1, StartFrame
<1>3. /\ \A p \in Procs : ~Ending(p)' /\ ~At(p, "release")' /\ ~Settling(p)'
      /\ \A p \in Procs : at'[p].pc \notin {"consume", "settle", "last_settle", "free"}
  BY Zenon, <1>2 DEF Holds, HolderPCs, Ending, At, Settling
<1>4. TypeOK'
  <2>1. refs' \in [Inputs -> Nat]
    <3>1. \A f \in Inputs : refs[f] + Retained(f) \in Nat
      BY <1>a, Retains DEF TypeOK
    <3> QED BY Zenon, <1>b, <3>1
  <2>2. context' \in {"none", "live", "freed"}
    BY Zenon, <1>b
  <2> QED BY Zenon, <1>a, <1>b, <1>d, <1>1, <2>1, <2>2 DEF TypeOK, AtTyped, Words, Kept, Count
<1>5. \A i \in 1..Count : Unregistered(i)'
  <2>1. \A i \in 1..Count : i >= 1
    BY <1>d
  <2> QED BY Zenon, <1>1, <2>1 DEF Unregistered, At, Slot
<1>6. CountInv'
  <2>1. Pending' = 1..Count
    BY Zenon, <1>d, <1>5 DEF Pending
  <2>2. ExistsBijection(1..Count, 1..Count)
    <3>1. [i \in 1..Count |-> i] \in [1..Count -> 1..Count]
      OBVIOUS
    <3>2. \A i \in 1..Count : [k \in 1..Count |-> k][i] = i
      OBVIOUS
    <3> QED BY Zenon, <1>d, <3>1, <3>2, Enumeration
  <2>3. context' # "none" /\ context' # "freed" /\ ~At(Caller, "start")' /\ remaining' # 0
    BY <1>b, <1>d, <1>1 DEF At
  <2> QED BY Zenon, <1>b, <1>3, <2>1, <2>2, <2>3 DEF CountInv
<1>7. RefInv'
  <2>1. ASSUME NEW f \in Inputs
        PROVE  refs'[f] = (IF callerHolds' THEN 1 ELSE 0) + (IF At(f, "done")' THEN 0 ELSE 1)
                              + (IF Held' THEN Retained(f)' ELSE 0)
    <3>1. PICK a \in {0, 1} : a = IF callerHolds THEN 1 ELSE 0
      BY Zenon
    <3>2. PICK b \in {0, 1} : b = IF At(f, "done") THEN 0 ELSE 1
      BY Zenon
    <3>3. refs[f] = a + b + 0
      BY Zenon, <1>a, <1>c, <3>1, <3>2 DEF RefInv
    <3>4. Retained(f) \in Nat /\ refs'[f] = refs[f] + Retained(f) /\ Retained(f)' = Retained(f)
      BY Zenon, <1>b, Retains
    <3>5. refs'[f] = a + b + Retained(f)
      BY <3>3, <3>4
    <3>6. a = IF callerHolds' THEN 1 ELSE 0
      BY Zenon, <1>b, <3>1
    <3>7. b = IF At(f, "done")' THEN 0 ELSE 1
      BY Zenon, <1>2, <3>2 DEF At
    <3>8. Retained(f) = IF Held' THEN Retained(f)' ELSE 0
      <4>1. Held' <=> kind = "zip"
        BY Zenon, <1>b DEF Held, Kept
      <4>2. kind # "zip" => Retained(f) = 0
        BY Zenon DEF Retained
      <4> QED BY Zenon, <3>4, <4>1, <4>2
    <3> QED BY Zenon, <3>5, <3>6, <3>7, <3>8
  <2> QED BY Zenon, <2>1 DEF RefInv
<1>8. SettleInv'
  <2>1. settles' # 1 /\ settles' \in {0, 1} /\ context' # "none" /\ context' # "freed" /\ Count' # 0
    BY <1>b, <1>c, <1>d
  <2> QED BY Zenon, <1>b, <1>c, <1>3, <2>1 DEF SettleInv, At
<1>9. OutcomeInv'
  <2>0. context' # "none"
    BY <1>b
  <2>1. Grows
    BY Zenon, <1>b, <1>c, <2>0 DEF Grows
  <2>2. \A j \in 1..Count : ~Reported(j)'
    BY Zenon, <1>5 DEF Reported
  <2>3. at'[Caller].pc \notin {"settle", "last_settle"}
    BY Zenon, <1>1
  <2> QED BY Zenon, <1>b, <1>1, <2>1, <2>2, <2>3, OutcomeFrame
<1> QED BY Zenon, <1>2, <1>4, <1>6, <1>7, <1>8, <1>9 DEF IInv

-----------------------------------------------------------------------------
(* While the caller registers, its entry and the later ones are pending.    *)
LEMMA AtRegister ==
  ASSUME IInv, At(Caller, "register"), NEW k, k = Slot(Caller)
  PROVE  /\ k \in 1..Count /\ context = "live" /\ remaining # 0 /\ callerHolds
         /\ \A q \in Procs : ~Ending(q) /\ ~At(q, "release")
         /\ (kind = "zip" => refused = {}) /\ (~flag => settles = 0)
         /\ \A i \in 1..Count : /\ Unregistered(i) <=> i >= k
                                /\ Registered(i) <=> i < k
                                /\ i < k <=> ~(i >= k)
                                /\ ~Abandoned(i)
<1>a. TypeOK /\ ShapeInv /\ CallerInv /\ CountInv /\ SettleInv
  BY Zenon DEF IInv
<1>b. at[Caller].pc = "register" /\ ~At(Caller, "returned") /\ at[Caller].pc \notin {"start", "returned"}
  BY Zenon DEF At
<1>c. k \in 1..Count
  BY Zenon, <1>a, SlotType, Numbers
<1>d. context # "none" /\ callerHolds /\ (kind = "zip" => refused = {})
  BY Zenon, <1>a, <1>b DEF CountInv, CallerInv
<1>e. \A i \in 1..Count : /\ i >= k /\ i # k => i > k
                          /\ i > k => i >= k
                          /\ i < k <=> ~(i >= k)
  BY <1>c
<1>f. \A i : ~Abandoned(i)
  BY Zenon, <1>d DEF Abandoned
<1>g. \A i \in 1..Count : /\ Unregistered(i) <=> i >= k
                          /\ Registered(i) <=> i < k
  BY Zenon, <1>b, <1>e, <1>f DEF Unregistered, Registered, At
<1>h. k \in Pending
  <2>1. k >= k
    BY <1>c
  <2> QED BY Zenon, <1>c, <1>g, <2>1 DEF Pending
<1>i. remaining # 0
  <2>0. remaining \in Nat
    BY <1>a DEF TypeOK
  <2>1. remaining > 0
    BY Zenon, <1>a, <1>d, <1>h, <2>0, CountRemove DEF CountInv
  <2> QED BY <2>0, <2>1
<1>j. context = "live" /\ \A q \in Procs : ~Ending(q) /\ ~At(q, "release")
  <2>1. context # "freed"
    BY Zenon, <1>a, <1>i DEF CountInv
  <2> QED BY Zenon, <1>a, <1>d, <1>i, <2>1 DEF CountInv, TypeOK
<1>k. ~flag => settles = 0
  <2>1. Count # 0 /\ context # "freed"
    BY <1>a, <1>c, <1>j, Arrays
  <2>2. \A q \in Procs : ~At(q, "free")
    BY Zenon, <1>j DEF Ending, At
  <2> QED BY Zenon, <1>a, <2>1, <2>2 DEF SettleInv
<1> QED BY Zenon, <1>c, <1>d, <1>e, <1>f, <1>g, <1>i, <1>j, <1>k

(* What the caller's step for its next entry leaves.                        *)
LEMMA RegisterFrame ==
  ASSUME IInv, At(Caller, "register"), Kept, result' = result, consumed' = consumed,
         was' = was, chain' = chain, DOMAIN stack' = Inputs, refs' = refs,
         callerHolds' = callerHolds, context' = context, remaining' = remaining, first' = first, outcome' = outcome,
         settles' = settles, flag' \in BOOLEAN, null' \in BOOLEAN, refused' \subseteq 1..Count,
         Still(Caller), AtTyped,
         at'[Caller].pc \in {"run", "settle", "sub", "register", "returned"},
         at'[Caller].pc # "returned" => at'[Caller].slot # 0,
         Pending' = Pending
  PROVE  /\ TypeOK' /\ ShapeInv' /\ CountInv' /\ RefInv'
         /\ \A f \in Inputs : at'[f] = at[f]
<1>a. TypeOK /\ ShapeInv /\ CountInv /\ RefInv /\ Count' = Count
  BY Zenon DEF IInv, Kept, Count
<1>b. context = "live" /\ remaining # 0 /\ \A q \in Procs : ~Ending(q) /\ ~At(q, "release")
  BY Zenon, AtRegister
<1>1. \A f \in Inputs : at'[f] = at[f]
  BY Zenon, Numbers DEF Still
<1>2. \A q \in Procs : ~Ending(q)' /\ ~At(q, "release")'
  BY Zenon, <1>b DEF Still, Ending, At
<1>3. TypeOK'
  BY Zenon, <1>a DEF TypeOK, AtTyped, Words, Kept
<1>4. ShapeInv'
  <2>1. \A q \in Procs : Holds(q)' \/ At(q, "register")' => at'[q].slot # 0
    <3>1. at'[Caller].pc = "returned" => ~Holds(Caller)' /\ ~At(Caller, "register")'
      BY Zenon DEF Holds, HolderPCs, At
    <3> QED BY Zenon, <1>a, <3>1 DEF ShapeInv, Still, Holds, At, Slot
  <2>2. refused' \subseteq 1..Count'
    BY Zenon, <1>a
  <2> QED BY Zenon, <1>a, <2>1, <2>2 DEF ShapeInv, Kept, Slot
<1>5. CountInv'
  <2>1. context # "none" /\ context # "freed" /\ at'[Caller].pc # "start"
    BY Zenon, <1>b
  <2> QED BY Zenon, <1>a, <1>b, <1>2, <2>1 DEF CountInv, At
<1>6. RefInv'
  <2>1. Held' <=> Held
    BY Zenon, <1>b DEF Held, Kept
  <2> QED BY Zenon, <1>a, <1>1, <2>1, RefFrame
<1> QED BY Zenon, <1>1, <1>3, <1>4, <1>5, <1>6

LEMMA RegisterInputs ==
  ASSUME IInv, Kept, result' = result, consumed' = consumed, was' = was, NEW f \in Inputs,
         stack'[f] = stack[f], chain'[f] = chain[f], at'[f] = at[f],
         \A i \in 1..Count : Registered(i) => Registered(i)'
  PROVE  InputInv!(f)'
<1>a. TypeOK /\ ShapeInv /\ InputInv
  BY Zenon DEF IInv
<1>1. InputInv!(f)
  BY Zenon, <1>a DEF InputInv
<1>2. /\ Ready(f)' <=> Ready(f)
      /\ consumed \subseteq consumed' /\ was'[f] = was[f]
      /\ result'[f] = Moved => f \in consumed'
      /\ result'[f] \in {OK, ERR} => result'[f] = result[f]
  BY Zenon, <1>1 DEF Ready
<1>3. /\ at'[f].pc = "idle" <=> at[f].pc = "idle"
      /\ at'[f].pc = "done" => at[f].pc = "done"
      /\ Holds(f)' => Holds(f) /\ at'[f].slot = at[f].slot /\ Slot(f) \in 1..Count
  BY Zenon, <1>a, Numbers, SlotType DEF Holds
<1> QED BY Zenon, <1>a, <1>2, <1>3, InputFrame

(* An entry whose input is ready is run at once.                            *)
LEMMA RunInlineInv ==
  ASSUME IInv, RunInline
  PROVE  IInv'
<1>a. TypeOK /\ ShapeInv /\ InputInv /\ CallerInv /\ SettleInv /\ OutcomeInv
  BY Zenon DEF IInv
<1>b. /\ At(Caller, "register") /\ Kept /\ stack' = stack /\ chain' = chain /\ result' = result
      /\ consumed' = consumed /\ was' = was /\ refused' = refused /\ first' = first
      /\ flag' = flag /\ callerHolds' = callerHolds /\ refs' = refs /\ context' = context
      /\ remaining' = remaining /\ outcome' = outcome /\ settles' = settles /\ null' = null
      /\ Goto(Caller, "run") /\ Input(Caller) # Null /\ Ready(Input(Caller))
  BY Zenon DEF RunInline, Kept, inputVars, refVars, ctxVars, outVars
<1>c. PICK k : k = Slot(Caller)
  OBVIOUS
<1>d. /\ k \in 1..Count /\ context = "live"
      /\ \A i \in 1..Count : /\ Unregistered(i) <=> i >= k
                             /\ Registered(i) <=> i < k
                             /\ ~Abandoned(i)
  BY Zenon, <1>b, <1>c, AtRegister
<1>1. at'[Caller].pc = "run" /\ at'[Caller].slot = k /\ Still(Caller) /\ AtTyped
  <2>1. "run" \in PCs(Caller)
    BY Zenon, Labels, Numbers DEF HolderPCs
  <2> QED BY Zenon, <1>a, <1>b, <1>c, <2>1, Goes, Numbers DEF Slot
<1>2. /\ \A i : Waiting(i)' <=> Waiting(i)
      /\ \A i : Abandoned(i)' <=> Abandoned(i)
      /\ Count' = Count
  BY Zenon, <1>b DEF Waiting, Abandoned, Kept, Count
<1>3. \A i \in 1..Count : /\ i > k => i >= k
                          /\ i >= k /\ i # k => i > k
                          /\ i >= k => ~(i < k)
  BY <1>d
<1>4. \A i \in 1..Count : /\ Unregistered(i)' <=> i > k
                          /\ Registered(i) => Registered(i)'
  BY Zenon, <1>d, <1>1, <1>2 DEF Unregistered, Registered, At, Slot
<1>5. Pending' = Pending
  <2>1. \A i : Due(i)' <=> Due(i) \/ i = k
    <3>1. ~Working(Caller) /\ Working(Caller)'
      BY Zenon, <1>b, <1>1 DEF Working, At
    <3>2. \A q \in Procs : q # Caller => (Working(q)' <=> Working(q)) /\ at'[q].slot = at[q].slot
      BY Zenon, <1>1 DEF Still, Working
    <3> QED BY Zenon, <1>1, <1>2, <3>1, <3>2, Numbers DEF Due, Slot
  <2>2. k >= k /\ ~(k > k)
    BY <1>d
  <2>3. \A i : i \in Pending' <=> i \in Pending
    BY Zenon, <1>d, <1>2, <1>3, <1>4, <2>1, <2>2 DEF Pending
  <2> QED BY Zenon, <2>3
<1>6. TypeOK' /\ ShapeInv' /\ CountInv' /\ RefInv' /\ \A f \in Inputs : at'[f] = at[f]
  <2>1. /\ flag' \in BOOLEAN /\ null' \in BOOLEAN /\ refused' \subseteq 1..Count
        /\ DOMAIN stack' = Inputs
    BY Zenon, <1>a, <1>b DEF TypeOK, ShapeInv
  <2>2. k # 0
    BY Zenon, <1>a, <1>d, Arrays
  <2> QED BY Zenon, <1>b, <1>1, <1>5, <2>1, <2>2, RegisterFrame
<1>7. InputInv'
  <2> SUFFICES ASSUME NEW f \in Inputs PROVE InputInv!(f)'
    BY Zenon DEF InputInv
  <2> QED BY Zenon, <1>b, <1>4, <1>6, RegisterInputs
<1>8. CallerInv'
  <2>1. Input(Caller)' = Input(Caller)
    BY Zenon, <1>b, <1>c, <1>1 DEF Input, Slot, Kept
  <2>2. Input(Caller)' # Null /\ Ready(Input(Caller))'
    BY Zenon, <1>b, <2>1 DEF Ready
  <2>3. ~At(Caller, "returned")
    BY Zenon, <1>b DEF At
  <2> QED BY Zenon, <1>a, <1>b, <2>2, <2>3 DEF CallerInv, Kept
<1>9. SettleInv'
  <2>1. /\ at[Caller].pc \notin {"consume", "settle", "last_settle", "free"}
        /\ at'[Caller].pc \notin {"consume", "settle", "last_settle", "free"}
        /\ context # "none"
    BY Zenon, <1>b, <1>d, <1>1 DEF At
  <2> QED BY Zenon, <1>a, <1>b, <1>1, <2>1, SettleFrame
<1>10. OutcomeInv'
  <2>1. Grows
    BY Zenon, <1>b DEF Grows
  <2>2. \A j \in 1..Count : Reported(j)' => Reported(j)
    <3>1. \A j \in 1..Count : Reported(j)' => j # k
      BY Zenon, <1>1, Numbers DEF Reported, At, Slot
    <3>2. ~At(Caller, "run")
      BY Zenon, <1>b DEF At
    <3>3. \A q \in Procs : At(q, "run") => at'[q] = at[q]
      BY Zenon, <1>1, <3>2 DEF Still
    <3> QED BY Zenon, <1>d, <1>2, <1>3, <1>4, <3>1, <3>3 DEF Reported, At, Slot
  <2>3. context # "none" /\ at'[Caller].pc \notin {"settle", "last_settle"}
    BY Zenon, <1>d, <1>1
  <2> QED BY Zenon, <1>b, <1>1, <2>1, <2>2, <2>3, OutcomeFrame
<1> QED BY Zenon, <1>6, <1>7, <1>8, <1>9, <1>10 DEF IInv

(* An entry whose input is not ready is stacked.                            *)
LEMMA PushInv ==
  ASSUME IInv, Push
  PROVE  IInv'
<1>a. TypeOK /\ ShapeInv /\ InputInv /\ CallerInv /\ SettleInv /\ OutcomeInv
  BY Zenon DEF IInv
<1>c. PICK k : k = Slot(Caller)
  OBVIOUS
<1>e. PICK f : f = Input(Caller)
  OBVIOUS
<1>b. /\ At(Caller, "register") /\ Kept /\ chain' = chain /\ result' = result
      /\ consumed' = consumed /\ was' = was /\ refused' = refused /\ first' = first
      /\ flag' = flag /\ callerHolds' = callerHolds /\ refs' = refs /\ context' = context
      /\ remaining' = remaining /\ outcome' = outcome /\ settles' = settles /\ null' = null
      /\ Resume(Caller) /\ f # Null /\ ~Ready(f)
      /\ stack' = [stack EXCEPT ![f] = <<k>> \o stack[f]]
  BY Zenon, <1>c, <1>e DEF Push, Kept, inputVars, refVars, ctxVars, outVars
<1>d. /\ k \in 1..Count /\ context = "live" /\ callerHolds
      /\ \A i \in 1..Count : /\ Unregistered(i) <=> i >= k
                             /\ Registered(i) <=> i < k
                             /\ ~Abandoned(i)
  BY Zenon, <1>b, <1>c, AtRegister
<1>f. f \in Inputs /\ f = slots[k]
  BY Zenon, <1>a, <1>b, <1>c, <1>d, <1>e, Arrays DEF Input
<1>1. /\ Still(Caller) /\ AtTyped /\ ~Holds(Caller)'
      /\ \/ at'[Caller].pc = "register" /\ at'[Caller].slot \in 1..Count
         \/ at'[Caller].pc = "returned"
      /\ \A i \in 1..Count : /\ Unregistered(i)' <=> Unregistered(i) /\ i # k
                             /\ Registered(i) => Registered(i)'
      /\ Registered(k)'
  <2>1. Holds(Caller) \/ At(Caller, "register")
    BY Zenon, <1>b
  <2> QED BY Zenon, <1>a, <1>b, <1>c, <1>d, <2>1, Resumes, Numbers
<1>2. k >= k /\ ~(k < k) /\ k # 0
  BY <1>d
<1>3. InputInv!(f) /\ At(f, "idle") /\ ~Holds(f) /\ k \notin Range(stack[f])
  <2>1. InputInv!(f)
    BY Zenon, <1>a, <1>f DEF InputInv
  <2>2. At(f, "idle")
    BY Zenon, <1>b, <2>1
  <2>3. ~Holds(f)
    BY Zenon, <2>2 DEF At, Holds, HolderPCs
  <2>4. k \notin Range(stack[f])
    BY Zenon, <1>d, <1>2, <2>1
  <2> QED BY Zenon, <2>1, <2>2, <2>3, <2>4
<1>4. PICK s : s = <<k>> \o stack[f]
  BY Zenon
<1>5. /\ s \in Seq(1..Count) /\ IsInjective(s)
      /\ \A i : i \in Range(s) <=> i \in Range(stack[f]) \/ i = k
  <2>1. stack[f] \in Seq(1..Count) /\ IsInjective(stack[f])
    BY Zenon, <1>3
  <2>2. k \in 1..Count /\ k \notin Range(stack[f])
    BY Zenon, <1>d, <1>3
  <2>3. PICK S, t : S = 1..Count /\ t = stack[f]
    BY Zenon
  <2>4. t \in Seq(S) /\ IsInjective(t) /\ k \in S /\ k \notin Range(t) /\ s = <<k>> \o t
    BY Zenon, <1>4, <2>1, <2>2, <2>3
  <2>5. s \in Seq(S) /\ IsInjective(s)
    BY ZenonT(30), <2>4, Linked
  <2>6. \A i : i \in Range(s) <=> i \in Range(t) \/ i = k
    BY Zenon, <2>4, Linked
  <2> QED BY Zenon, <2>3, <2>5, <2>6
<1>6. /\ stack'[f] = s /\ DOMAIN stack' = Inputs
      /\ \A g \in Inputs : g # f => stack'[g] = stack[g]
  BY Zenon, <1>a, <1>b, <1>f, <1>4 DEF ShapeInv
<1>7. \A i : Waiting(i)' <=> Waiting(i) \/ i = k
  <2>1. \A i : i \in Range(stack'[f]) \cup Range(chain'[f])
                 <=> i \in Range(stack[f]) \cup Range(chain[f]) \/ i = k
    BY Zenon, <1>b, <1>5, <1>6
  <2>2. \A i, g : g \in Inputs /\ g # f =>
          (i \in Range(stack'[g]) \cup Range(chain'[g]) <=> i \in Range(stack[g]) \cup Range(chain[g]))
    BY Zenon, <1>b, <1>6
  <2> QED BY Zenon, <1>f, <2>1, <2>2 DEF Waiting
<1>8. Pending' = Pending
  <2>1. \A q \in Procs : (Working(q)' <=> Working(q)) /\ (Working(q) => at'[q].slot = at[q].slot)
    <3>1. ~Working(Caller) /\ ~Working(Caller)'
      BY Zenon, <1>b, <1>1 DEF Working, At
    <3> QED BY Zenon, <1>1, <3>1 DEF Still, Working
  <2>2. \A i : Due(i)' <=> Due(i) \/ i = k
    BY Zenon, <1>7, <2>1 DEF Due, Slot
  <2>3. Count' = Count /\ \A i : Abandoned(i)' <=> Abandoned(i)
    BY Zenon, <1>b DEF Abandoned, Kept, Count
  <2>4. \A i : i \in Pending' <=> i \in Pending
    BY Zenon, <1>d, <1>1, <1>2, <2>2, <2>3 DEF Pending
  <2> QED BY Zenon, <2>4
<1>9. TypeOK' /\ ShapeInv' /\ CountInv' /\ RefInv' /\ \A g \in Inputs : at'[g] = at[g]
  <2>1. flag' \in BOOLEAN /\ null' \in BOOLEAN /\ refused' \subseteq 1..Count
    BY Zenon, <1>a, <1>b DEF TypeOK, ShapeInv
  <2>2. 0 \notin 1..Count
    BY Zenon, <1>a, Arrays
  <2> QED BY Zenon, <1>b, <1>1, <1>6, <1>8, <2>1, <2>2, RegisterFrame
<1>10. InputInv'
  <2> SUFFICES ASSUME NEW g \in Inputs PROVE InputInv!(g)'
    BY Zenon DEF InputInv
  <2>1. CASE g # f
    <3>1. stack'[g] = stack[g] /\ chain'[g] = chain[g]
      BY Zenon, <1>b, <1>6, <2>1
    <3> QED BY Zenon, <1>b, <1>1, <1>9, <3>1, RegisterInputs
  <2>2. CASE g = f
    <3>0. Count' = Count /\ slots' = slots
      BY Zenon, <1>b DEF Kept, Count
    <3>1. ASSUME NEW t \in {stack'[f], chain'[f]}
          PROVE  /\ t \in Seq(1..Count) /\ IsInjective(t)
                 /\ \A i \in Range(t) : slots[i] = f /\ Registered(i)'
      <4>1. CASE t = chain[f]
        <5>1. /\ t \in Seq(1..Count) /\ IsInjective(t)
              /\ \A i \in Range(t) : slots[i] = f /\ Registered(i)
          BY Zenon, <1>3, <4>1
        <5> QED BY Zenon, <1>1, <5>1, Within
      <4>2. CASE t = s
        <5>1. stack[f] \in Seq(1..Count) /\ \A i \in Range(stack[f]) : slots[i] = f /\ Registered(i)
          BY Zenon, <1>3
        <5>2. \A i \in Range(stack[f]) : slots[i] = f /\ Registered(i)'
          BY Zenon, <1>1, <5>1, Within
        <5> QED BY Zenon, <1>f, <1>1, <1>5, <4>2, <5>2
      <4> QED BY Zenon, <1>b, <1>6, <3>1, <4>1, <4>2
    <3>2. at'[f] = at[f]
      BY Zenon, <1>f, <1>9
    <3>3. ~Ready(f)' /\ At(f, "idle")' /\ ~Holds(f)'
      BY Zenon, <1>b, <1>3, <3>2 DEF Ready, At, Holds
    <3>4. /\ was'[f] = None
          /\ at'[f].pc \in {"idle", "done"} => chain'[f] = <<>>
          /\ result'[f] = Moved => f \in consumed'
          /\ result'[f] \in {OK, ERR} => was'[f] = result'[f]
      BY Zenon, <1>b, <1>3, <3>2
    <3> QED BY Zenon, <2>2, <3>0, <3>1, <3>3, <3>4
  <2> QED BY Zenon, <2>1, <2>2
<1>11. CallerInv'
  <2>1. at'[Caller].pc \notin {"run", "consume"} /\ at[Caller].pc # "returned"
    BY Zenon, <1>b, <1>1 DEF At
  <2> QED BY Zenon, <1>a, <1>b, <1>d, <2>1 DEF CallerInv, Kept, At
<1>12. SettleInv'
  <2>1. /\ at[Caller].pc \notin {"consume", "settle", "last_settle", "free"}
        /\ at'[Caller].pc \notin {"consume", "settle", "last_settle", "free"}
        /\ context # "none"
    BY Zenon, <1>b, <1>d, <1>1 DEF At
  <2> QED BY Zenon, <1>a, <1>b, <1>1, <2>1, SettleFrame
<1>13. OutcomeInv'
  <2>1. Grows
    BY Zenon, <1>b DEF Grows
  <2>2. \A j \in 1..Count : Reported(j)' => Reported(j)
    <3>1. ~At(Caller, "run")
      BY Zenon, <1>b DEF At
    <3>2. \A q \in Procs : At(q, "run") => at'[q] = at[q]
      BY Zenon, <1>1, <3>1 DEF Still
    <3> QED BY Zenon, <1>1, <1>7, <3>2 DEF Reported, At, Slot
  <2>3. context # "none" /\ at'[Caller].pc \notin {"settle", "last_settle"}
    BY Zenon, <1>d, <1>1
  <2> QED BY Zenon, <1>b, <1>1, <2>1, <2>2, <2>3, OutcomeFrame
<1> QED BY Zenon, <1>9, <1>10, <1>11, <1>12, <1>13 DEF IInv

(* A refused entry of all or of any is reported by the caller.              *)
LEMMA RefuseInv ==
  ASSUME IInv, Refuse, RefusedAll \/ RefusedAny
  PROVE  IInv'
<1>a. TypeOK /\ ShapeInv /\ InputInv /\ CallerInv /\ SettleInv /\ OutcomeInv
  BY Zenon DEF IInv
<1>c. PICK k : k = Slot(Caller)
  OBVIOUS
<1>b. /\ At(Caller, "register") /\ Kept /\ stack' = stack /\ chain' = chain /\ result' = result
      /\ consumed' = consumed /\ was' = was /\ first' = first
      /\ callerHolds' = callerHolds /\ refs' = refs /\ context' = context
      /\ remaining' = remaining /\ outcome' = outcome /\ settles' = settles
      /\ refused' = refused \cup {k}
  BY Zenon, <1>c DEF Refuse, Kept, inputVars, refVars
<1>d. /\ k \in 1..Count /\ context = "live" /\ remaining # 0 /\ (~flag => settles = 0)
      /\ \A q \in Procs : ~Ending(q) /\ ~At(q, "release")
      /\ \A i \in 1..Count : /\ Unregistered(i) <=> i >= k
                             /\ Registered(i) <=> i < k
                             /\ ~Abandoned(i)
  BY Zenon, <1>b, <1>c, AtRegister
<1>1. /\ at'[Caller].pc \in {"sub", "settle"} /\ at'[Caller].slot = k /\ Still(Caller) /\ AtTyped
      /\ (flag => flag') /\ flag' \in BOOLEAN /\ null' = null /\ kind \in {"all", "any"}
      /\ at'[Caller].pc = "settle" => ~flag /\ flag' /\ at'[Caller].give = EINVAL
      /\ at'[Caller].pc = "sub" => (flag' => flag)
      /\ kind = "all" => flag'
  <2>0. /\ "sub" \in PCs(Caller) /\ "settle" \in PCs(Caller) /\ EINVAL \in Gives
        /\ Slot(Caller) \in 0..Count
    BY Zenon, <1>a, Labels, Numbers, SlotType DEF HolderPCs, Gives
  <2>1. CASE RefusedAll
    <3>1. PICK l \in {"sub", "settle"} : /\ Become(Caller, l, Slot(Caller), EINVAL)
                                         /\ (flag => l = "sub") /\ (~flag => l = "settle")
      BY Zenon, <2>1 DEF RefusedAll
    <3>2. l \in PCs(Caller)
      BY Zenon, <2>0
    <3>3. /\ at'[Caller].pc = l /\ at'[Caller].slot = k /\ at'[Caller].give = EINVAL
          /\ Still(Caller) /\ AtTyped
      BY Zenon, <1>a, <1>c, <2>0, <3>1, <3>2, Becomes, Numbers
    <3> QED BY Zenon, <2>1, <3>1, <3>3 DEF RefusedAll
  <2>2. CASE RefusedAny
    <3>1. Goto(Caller, "sub") /\ flag' = flag /\ null' = null /\ kind = "any"
      BY Zenon, <2>2 DEF RefusedAny
    <3>2. /\ at'[Caller].pc = "sub" /\ at'[Caller].slot = at[Caller].slot
          /\ Still(Caller) /\ AtTyped
      BY Zenon, <1>a, <2>0, <3>1, Goes, Numbers
    <3> QED BY Zenon, <1>a, <1>c, <3>1, <3>2 DEF TypeOK, Slot
  <2> QED BY Zenon, <2>1, <2>2
<1>2. /\ \A i : Waiting(i)' <=> Waiting(i)
      /\ \A i : ~Abandoned(i)' /\ ~Abandoned(i)
      /\ Count' = Count /\ kind' = kind /\ kind # "zip"
  BY Zenon, <1>b, <1>1 DEF Waiting, Abandoned, Kept, Count
<1>3. \A i \in 1..Count : /\ i > k => i >= k
                          /\ i >= k /\ i # k => i > k
  BY <1>d
<1>4. \A i \in 1..Count : /\ Unregistered(i)' <=> i > k
                          /\ Registered(i) => Registered(i)'
  BY Zenon, <1>d, <1>1, <1>2 DEF Unregistered, Registered, At, Slot
<1>5. Pending' = Pending
  <2>1. \A i : Due(i)' <=> Due(i) \/ i = k
    <3>1. ~Working(Caller) /\ Working(Caller)'
      BY Zenon, <1>b, <1>1 DEF Working, At
    <3>2. \A q \in Procs : q # Caller => (Working(q)' <=> Working(q)) /\ at'[q].slot = at[q].slot
      BY Zenon, <1>1 DEF Still, Working
    <3> QED BY Zenon, <1>1, <1>2, <3>1, <3>2, Numbers DEF Due, Slot
  <2>2. k >= k /\ ~(k > k)
    BY <1>d
  <2>3. \A i : i \in Pending' <=> i \in Pending
    BY Zenon, <1>d, <1>2, <1>3, <1>4, <2>1, <2>2 DEF Pending
  <2> QED BY Zenon, <2>3
<1>6. TypeOK' /\ ShapeInv' /\ CountInv' /\ RefInv' /\ \A f \in Inputs : at'[f] = at[f]
  <2>1. /\ null' \in BOOLEAN /\ refused' \subseteq 1..Count
        /\ DOMAIN stack' = Inputs
    BY Zenon, <1>a, <1>b, <1>d, <1>1 DEF TypeOK, ShapeInv
  <2>2. k # 0
    BY Zenon, <1>a, <1>d, Arrays
  <2> QED BY Zenon, <1>b, <1>1, <1>5, <2>1, <2>2, RegisterFrame
<1>7. InputInv'
  <2> SUFFICES ASSUME NEW f \in Inputs PROVE InputInv!(f)'
    BY Zenon DEF InputInv
  <2> QED BY Zenon, <1>b, <1>4, <1>6, RegisterInputs
<1>8. CallerInv'
  <2>1. at'[Caller].pc \notin {"run", "consume"}
    BY Zenon, <1>1
  <2>2. ~At(Caller, "returned")
    BY Zenon, <1>b DEF At
  <2> QED BY Zenon, <1>a, <1>b, <1>1, <1>2, <2>1, <2>2 DEF CallerInv
<1>9. SettleInv'
  <2>0. at[Caller].pc = "register" /\ ~Settling(Caller)
    BY Zenon, <1>b DEF At, Settling
  <2>1. at'[Caller].pc = "settle" => \A q \in Procs : ~Settling(q)
    BY Zenon, <1>a, <1>d, <1>1 DEF SettleInv, Settling, Ending
  <2>2. \A q \in Procs : Settling(q)' => q = Caller \/ (Settling(q) /\ at'[q] = at[q])
    BY Zenon, <1>1 DEF Settling, Still
  <2>3. \A q, r \in Procs : Settling(q)' /\ Settling(r)' => q = r
    BY Zenon, <1>a, <1>1, <2>1, <2>2 DEF SettleInv, Settling
  <2>4. ASSUME NEW q \in Procs
        PROVE  /\ Settling(q)' => settles' = 0
               /\ at'[q].pc \in {"consume", "settle"} => flag'
               /\ at'[q].pc = "consume" => kind = "any"
               /\ at'[q].pc # "last_settle" /\ at'[q].pc # "free"
    <3>1. CASE q = Caller
      BY Zenon, <1>b, <1>d, <1>1, <3>1 DEF Settling
    <3>2. CASE q # Caller
      <4>1. at'[q] = at[q] /\ ~Ending(q)
        BY Zenon, <1>d, <1>1, <3>2 DEF Still
      <4> QED BY Zenon, <1>a, <1>b, <1>1, <4>1 DEF SettleInv, Settling, Ending, At
    <3> QED BY Zenon, <3>1, <3>2
  <2>5. flag' /\ settles = 0 => \E q \in Procs : at'[q].pc \in {"consume", "settle"}
    <3>1. CASE at'[Caller].pc = "settle"
      BY Zenon, <3>1, Numbers
    <3>2. CASE at'[Caller].pc = "sub"
      <4>1. ASSUME flag, settles = 0 PROVE \E q \in Procs : at[q].pc \in {"consume", "settle"}
        BY Zenon, <1>a, <4>1 DEF SettleInv
      <4>2. \A q \in Procs : at[q].pc \in {"consume", "settle"} => at'[q] = at[q]
        BY Zenon, <1>1, <2>0 DEF Still
      <4> QED BY Zenon, <1>1, <3>2, <4>1, <4>2
    <3> QED BY Zenon, <1>1, <3>1, <3>2
  <2>6. settles' = 1 => flag'
    <3>1. settles = 0 => settles # 1
      OBVIOUS
    <3> QED BY Zenon, <1>b, <1>d, <1>1, <3>1
  <2>7. context # "none" /\ context # "freed"
    BY <1>d
  <2> QED BY Zenon, <1>a, <1>b, <1>2, <2>3, <2>4, <2>5, <2>6, <2>7 DEF SettleInv, At
<1>10. OutcomeInv'
  <2>1. Grows
    BY Zenon, <1>b, <1>d DEF Grows
  <2>2. Right(EINVAL)' /\ EINVAL # ERR
    <3>1. EINVAL # OK /\ EINVAL # ERR /\ EINVAL # Moved
      BY DEF EINVAL, OK, ERR, Moved
    <3>2. refused' # {}
      BY Zenon, <1>b
    <3> QED BY Zenon, <3>1, <3>2 DEF Right
  <2>3. \A j \in 1..Count : Reported(j)' => Reported(j) \/ j = k
    <3>1. ~At(Caller, "run")
      BY Zenon, <1>b DEF At
    <3>2. \A q \in Procs : At(q, "run") => at'[q] = at[q]
      BY Zenon, <1>1, <3>1 DEF Still
    <3> QED BY Zenon, <1>d, <1>2, <1>3, <1>4, <3>2 DEF Reported, At, Slot
  <2>4. Fine(k)'
    <3>1. k \in refused'
      BY Zenon, <1>b
    <3> QED BY Zenon, <1>1, <1>2, <3>1 DEF Fine
  <2>5. context # "none" /\ at'[Caller].pc # "last_settle"
    BY Zenon, <1>d, <1>1
  <2>6. kind # "all" \/ flag'
    BY Zenon, <1>1
  <2>7. \A r \in Gives : at'[Caller].pc \in {"settle", "last_settle"} /\ at'[Caller].give = r
                            => Right(r)' /\ Rereads(Caller)'
    BY Zenon, <1>1, <2>2, <2>5 DEF Rereads
  <2> QED BY Zenon, <1>b, <1>1, <2>1, <2>3, <2>4, <2>5, <2>6, <2>7, OutcomeFrame
<1> QED BY Zenon, <1>6, <1>7, <1>8, <1>9, <1>10 DEF IInv

(* Zip gives up: the entries from here on never report.                     *)
LEMMA GiveUpInv ==
  ASSUME IInv, Refuse, RefusedZip
  PROVE  IInv'
<1>a. TypeOK /\ ShapeInv /\ InputInv /\ CallerInv /\ SettleInv /\ OutcomeInv
  BY Zenon DEF IInv
<1>c. PICK k : k = Slot(Caller)
  OBVIOUS
<1>b. /\ At(Caller, "register") /\ Kept /\ stack' = stack /\ chain' = chain /\ result' = result
      /\ consumed' = consumed /\ was' = was /\ first' = first /\ flag' = flag /\ null' = TRUE
      /\ callerHolds' = callerHolds /\ refs' = refs /\ context' = context
      /\ remaining' = remaining /\ outcome' = outcome /\ settles' = settles
      /\ refused' = refused \cup {k} /\ kind = "zip" /\ Become(Caller, "returned", 0, None)
  BY Zenon, <1>c DEF Refuse, RefusedZip, Kept, inputVars, refVars
<1>d. /\ k \in 1..Count /\ context = "live" /\ remaining # 0 /\ refused = {}
      /\ \A q \in Procs : ~Ending(q) /\ ~At(q, "release")
      /\ \A i \in 1..Count : /\ Unregistered(i) <=> i >= k
                             /\ Registered(i) <=> i < k
                             /\ i < k <=> ~(i >= k)
                             /\ ~Abandoned(i)
  BY Zenon, <1>b, <1>c, AtRegister
<1>1. at'[Caller].pc = "returned" /\ Still(Caller) /\ AtTyped
  <2>1. "returned" \in PCs(Caller) /\ None \in Gives /\ 0 \in 0..Count
    BY Zenon, <1>a, Labels, Numbers, Arrays DEF Gives
  <2> QED BY Zenon, <1>a, <1>b, <2>1, Becomes, Numbers
<1>2. /\ \A i : Waiting(i)' <=> Waiting(i)
      /\ Count' = Count /\ kind' = kind
  BY Zenon, <1>b DEF Waiting, Kept, Count
<1>3. \A i : Abandoned(i)' <=> i >= k
  BY Zenon, <1>b, <1>d, <1>2 DEF Abandoned
<1>4. \A i \in 1..Count : /\ ~Unregistered(i)'
                          /\ Registered(i) => Registered(i)'
  BY Zenon, <1>d, <1>1, <1>3 DEF Unregistered, Registered, At, Slot
<1>5. Pending' = Pending
  <2>1. \A q \in Procs : (Working(q)' <=> Working(q)) /\ (Working(q) => at'[q].slot = at[q].slot)
    <3>1. ~Working(Caller) /\ ~Working(Caller)'
      BY Zenon, <1>b, <1>1 DEF Working, At
    <3> QED BY Zenon, <1>1, <3>1 DEF Still, Working
  <2>2. \A i : Due(i)' <=> Due(i)
    BY Zenon, <1>2, <2>1 DEF Due, Slot
  <2>3. \A i : i \in Pending' <=> i \in Pending
    BY Zenon, <1>d, <1>2, <1>3, <1>4, <2>2 DEF Pending
  <2> QED BY Zenon, <2>3
<1>6. TypeOK' /\ ShapeInv' /\ CountInv' /\ RefInv' /\ \A f \in Inputs : at'[f] = at[f]
  <2>1. /\ flag' \in BOOLEAN /\ null' \in BOOLEAN /\ refused' \subseteq 1..Count
        /\ DOMAIN stack' = Inputs
    BY Zenon, <1>a, <1>b, <1>d DEF TypeOK, ShapeInv
  <2> QED BY Zenon, <1>b, <1>1, <1>5, <2>1, RegisterFrame
<1>7. InputInv'
  <2> SUFFICES ASSUME NEW f \in Inputs PROVE InputInv!(f)'
    BY Zenon DEF InputInv
  <2> QED BY Zenon, <1>b, <1>4, <1>6, RegisterInputs
<1>8. CallerInv'
  <2>1. at'[Caller].pc \notin {"run", "consume"} /\ kind' # "all"
    BY Zenon, <1>b, <1>1, <1>2
  <2> QED BY Zenon, <1>1, <2>1 DEF CallerInv, At
<1>9. SettleInv'
  <2>1. /\ at[Caller].pc \notin {"consume", "settle", "last_settle", "free"}
        /\ at'[Caller].pc \notin {"consume", "settle", "last_settle", "free"}
        /\ context # "none"
    BY Zenon, <1>b, <1>d, <1>1 DEF At
  <2> QED BY Zenon, <1>a, <1>b, <1>1, <2>1, SettleFrame
<1>10. OutcomeInv'
  <2>1. Grows
    BY Zenon, <1>b, <1>d DEF Grows
  <2>2. ASSUME NEW j \in 1..Count, Reported(j)' PROVE Reported(j) \/ Fine(j)'
    <3>1. ~At(Caller, "run")
      BY Zenon, <1>b DEF At
    <3>2. \A q \in Procs : At(q, "run") => at'[q] = at[q]
      BY Zenon, <1>1, <3>1 DEF Still
    <3>3. j < k => Reported(j)
      BY Zenon, <1>d, <1>2, <2>2, <3>2 DEF Reported, At, Slot
    <3>4. j >= k => Fine(j)'
      BY Zenon, <1>b, <1>2, <1>3 DEF Fine
    <3> QED BY Zenon, <1>d, <3>3, <3>4
  <2>3. context # "none" /\ at'[Caller].pc \notin {"settle", "last_settle"} /\ kind # "all"
    BY Zenon, <1>b, <1>d, <1>1
  <2> QED BY Zenon, <1>b, <1>1, <2>1, <2>2, <2>3, OutcomeFrame
<1> QED BY Zenon, <1>6, <1>7, <1>8, <1>9, <1>10 DEF IInv

-----------------------------------------------------------------------------
(* What a completer's step between two entries leaves.                      *)
LEMMA CompleterFrame ==
  ASSUME IInv, NEW f \in Inputs, Kept, Still(f), AtTyped, at[f].pc \in {"idle", "drain"},
         at'[f].pc \in {"drain", "done", "run"},
         at'[f].pc = "run" => context # "none" /\ at'[f].slot # 0,
         consumed' = consumed, callerHolds' = callerHolds, context' = context,
         remaining' = remaining, flag' = flag, first' = first, outcome' = outcome,
         settles' = settles, null' = null, refused' = refused,
         was' \in [Inputs -> {None, OK, ERR}],
         \A g \in Inputs : was[g] # None => was'[g] = was[g],
         result' \in [Inputs -> {None, OK, ERR, Moved}], refs' \in [Inputs -> Nat],
         \A g \in Inputs : result[g] # None => result'[g] # None,
         DOMAIN stack' = Inputs, DOMAIN chain' = Inputs,
         context = "none" => \A g \in Inputs : stack'[g] = <<>> /\ chain'[g] = <<>>,
         Pending' = Pending,
         \A j \in 1..Count : Waiting(j) => Waiting(j)' \/ (at'[f].pc = "run" /\ at'[f].slot = j)
  PROVE  /\ TypeOK' /\ ShapeInv' /\ CallerInv' /\ CountInv' /\ SettleInv' /\ OutcomeInv'
         /\ SameLoop /\ (Held' <=> Held) /\ \A g \in Inputs : g # f => at'[g] = at[g]
<1>a. TypeOK /\ ShapeInv /\ CallerInv /\ CountInv /\ SettleInv /\ OutcomeInv /\ Count' = Count
  BY Zenon DEF IInv, Kept, Count
<1>b. f \in Procs /\ f # Caller /\ at'[Caller] = at[Caller]
  BY Zenon, Numbers DEF Still
<1>1. \A g \in Inputs : g # f => at'[g] = at[g]
  BY Zenon, Numbers DEF Still
<1>2. SameLoop
  BY Zenon, <1>b, LoopSame
<1>3. /\ \A q \in Procs : /\ Ending(q)' <=> Ending(q)
                          /\ At(q, "release")' <=> At(q, "release")
      /\ at'[f].pc # "run" => ~Holds(f)'
  <2>1. /\ ~Ending(f)' /\ ~Ending(f) /\ ~At(f, "release")' /\ ~At(f, "release")
        /\ at'[f].pc # "run" => ~Holds(f)'
    BY Zenon DEF Ending, At, Holds, HolderPCs
  <2>2. \A q \in Procs : q # f => at'[q] = at[q]
    BY Zenon DEF Still
  <2> QED BY Zenon, <2>1, <2>2 DEF Ending, At
<1>4. TypeOK'
  BY Zenon, <1>a DEF TypeOK, AtTyped, Words, Kept
<1>5. ShapeInv'
  <2>1. \A q \in Procs : Holds(q)' \/ At(q, "register")' => at'[q].slot # 0
    <3>1. Holds(f)' \/ At(f, "register")' => at'[f].slot # 0
      BY Zenon, <1>3 DEF At
    <3>2. ASSUME NEW q \in Procs, q # f, Holds(q)' \/ At(q, "register")' PROVE at'[q].slot # 0
      <4>1. at'[q] = at[q]
        BY Zenon, <3>2 DEF Still
      <4>2. Holds(q) \/ At(q, "register")
        BY Zenon, <3>2, <4>1 DEF Holds, At
      <4> QED BY Zenon, <1>a, <4>1, <4>2 DEF ShapeInv, Slot
    <3> QED BY Zenon, <3>1, <3>2
  <2> QED BY Zenon, <1>a, <2>1 DEF ShapeInv, Kept, Slot
<1>6. CallerInv'
  <2>1. ASSUME at[Caller].pc \in {"run", "consume"} PROVE Input(Caller)' # Null /\ Ready(Input(Caller))'
    <3>1. PICK g : g = Input(Caller) /\ g \in Inputs /\ Ready(g)
      BY Zenon, <2>1, RunsOn, Numbers
    <3>2. Input(Caller)' = g
      BY Zenon, <1>b, <3>1 DEF Input, Slot, Kept
    <3>3. result'[g] # None
      BY Zenon, <3>1 DEF Ready
    <3> QED BY Zenon, <3>1, <3>2, <3>3, Numbers DEF Ready
  <2> QED BY Zenon, <1>a, <1>b, <2>1 DEF CallerInv, Kept, At
<1>7. CountInv'
  <2>1. context = "none" => \A g \in Inputs : ~Holds(g)'
    BY Zenon, <1>a, <1>1, <1>3 DEF CountInv, Holds
  <2> QED BY Zenon, <1>a, <1>b, <1>3, <2>1 DEF CountInv, Kept, At
<1>8. SettleInv'
  <2>1. /\ at[f].pc \notin {"consume", "settle", "last_settle", "free"}
        /\ at'[f].pc \notin {"consume", "settle", "last_settle", "free"}
    BY Zenon
  <2> QED BY Zenon, <1>a, <1>b, <2>1, SettleFrame
<1>9. OutcomeInv'
  <2>1. Grows
    BY Zenon DEF Grows
  <2>2. \A j \in 1..Count : Reported(j)' => Reported(j)
    <3>1. \A q \in Procs : At(q, "run") => at'[q] = at[q]
      BY Zenon DEF Still, At
    <3>2. \A j \in 1..Count : Reported(j)' => ~Waiting(j)
      BY Zenon, <1>b DEF Reported, At, Slot
    <3> QED BY ZenonT(30), <1>2, <3>1, <3>2 DEF Reported, SameLoop, At, Slot
  <2>3. at'[f].pc \notin {"settle", "last_settle"}
    BY Zenon
  <2> QED BY Zenon, <2>1, <2>2, <2>3, OutcomeFrame
<1>10. Held' <=> Held
  BY Zenon, <1>3 DEF Held, Kept
<1> QED BY Zenon, <1>1, <1>2, <1>4, <1>5, <1>6, <1>7, <1>8, <1>9, <1>10

(* The other inputs are as they were.                                       *)
LEMMA OtherInput ==
  ASSUME IInv, Kept, SameLoop, consumed' = consumed, NEW g \in Inputs, at'[g] = at[g],
         stack'[g] = stack[g], chain'[g] = chain[g], result'[g] = result[g], was'[g] = was[g]
  PROVE  InputInv!(g)'
<1>a. TypeOK /\ ShapeInv /\ InputInv
  BY Zenon DEF IInv
<1>1. InputInv!(g)
  BY Zenon, <1>a DEF InputInv
<1>2. /\ Ready(g)' <=> Ready(g)
      /\ consumed \subseteq consumed'
      /\ result'[g] = Moved => g \in consumed'
      /\ result'[g] \in {OK, ERR} => result'[g] = result[g]
  BY Zenon, <1>1 DEF Ready
<1>3. /\ at'[g].pc = "idle" <=> at[g].pc = "idle"
      /\ at'[g].pc = "done" => at[g].pc = "done"
      /\ Holds(g)' => Holds(g) /\ at'[g].slot = at[g].slot /\ Slot(g) \in 1..Count
  BY Zenon, <1>a, Numbers, SlotType DEF Holds
<1>4. \A i \in 1..Count : Registered(i) => Registered(i)'
  BY Zenon DEF SameLoop
<1> QED BY Zenon, <1>a, <1>2, <1>3, <1>4, InputFrame

(* An input completes: what was stacked is its completer's to run.          *)
LEMMA CompleteInv ==
  ASSUME IInv, NEW f \in Inputs, NEW r \in {OK, ERR}, Complete(f, r)
  PROVE  IInv'
<1>a. TypeOK /\ ShapeInv /\ InputInv /\ CountInv /\ RefInv /\ Count' = Count
  BY Zenon DEF IInv, Kept, Count, Complete
<1>b. /\ At(f, "idle") /\ Kept /\ Goto(f, "drain")
      /\ result' = [result EXCEPT ![f] = r] /\ was' = [was EXCEPT ![f] = r]
      /\ chain' = [chain EXCEPT ![f] = stack[f]] /\ stack' = [stack EXCEPT ![f] = <<>>]
      /\ consumed' = consumed /\ refs' = refs /\ callerHolds' = callerHolds
      /\ context' = context /\ remaining' = remaining /\ flag' = flag /\ first' = first
      /\ outcome' = outcome /\ settles' = settles /\ null' = null /\ refused' = refused
  BY Zenon DEF Complete, Kept, refVars, ctxVars, outVars
<1>c. InputInv!(f) /\ result[f] = None /\ was[f] = None /\ chain[f] = <<>>
  BY Zenon, <1>a, <1>b DEF InputInv, Ready, At
<1>d. f \in Procs /\ r # None /\ r # Moved
  <2>1. OK # None /\ ERR # None /\ OK # Moved /\ ERR # Moved
    BY DEF OK, ERR, None, Moved
  <2> QED BY Zenon, <2>1, Numbers
<1>1. /\ result'[f] = r /\ was'[f] = r /\ chain'[f] = stack[f] /\ stack'[f] = <<>>
      /\ \A g \in Inputs : g # f => /\ result'[g] = result[g] /\ was'[g] = was[g]
                                    /\ chain'[g] = chain[g] /\ stack'[g] = stack[g]
      /\ result' \in [Inputs -> {None, OK, ERR, Moved}] /\ was' \in [Inputs -> {None, OK, ERR}]
      /\ DOMAIN stack' = Inputs /\ DOMAIN chain' = Inputs
  BY Zenon, <1>a, <1>b DEF TypeOK, ShapeInv
<1>2. at'[f].pc = "drain" /\ Still(f) /\ AtTyped
  <2>1. "drain" \in PCs(f)
    BY Zenon, <1>d, Labels
  <2> QED BY Zenon, <1>a, <1>b, <1>d, <2>1, Goes
<1>3. \A i : Waiting(i)' <=> Waiting(i)
  <2>1. \A i : i \in Range(stack'[f]) \cup Range(chain'[f]) <=> i \in Range(stack[f]) \cup Range(chain[f])
    BY Zenon, <1>c, <1>1, EmptyElements
  <2>2. \A i, g : g \in Inputs /\ g # f =>
          (i \in Range(stack'[g]) \cup Range(chain'[g]) <=> i \in Range(stack[g]) \cup Range(chain[g]))
    BY Zenon, <1>1
  <2> QED BY Zenon, <2>1, <2>2 DEF Waiting
<1>4. Pending' = Pending
  <2>1. SameLoop
    BY Zenon, <1>b, <1>2, LoopSame, Numbers DEF Still
  <2>2. \A q \in Procs : (Working(q)' <=> Working(q)) /\ (Working(q) => at'[q].slot = at[q].slot)
    <3>1. ~Working(f) /\ ~Working(f)'
      BY Zenon, <1>b, <1>2 DEF Working, At
    <3> QED BY Zenon, <1>2, <3>1 DEF Still, Working
  <2>3. \A i : (Due(i)' <=> Due(i)) /\ (Abandoned(i)' <=> Abandoned(i))
    BY Zenon, <1>b, <1>3, <2>2 DEF Due, Slot, Abandoned, Kept
  <2>4. \A i : i \in Pending' <=> i \in Pending
    BY Zenon, <1>a, <2>1, <2>3 DEF Pending, SameLoop
  <2> QED BY Zenon, <2>4
<1>5. /\ TypeOK' /\ ShapeInv' /\ CallerInv' /\ CountInv' /\ SettleInv' /\ OutcomeInv'
      /\ SameLoop /\ (Held' <=> Held) /\ \A g \in Inputs : g # f => at'[g] = at[g]
  <2>1. /\ \A g \in Inputs : was[g] # None => was'[g] = was[g]
        /\ \A g \in Inputs : result[g] # None => result'[g] # None
    BY Zenon, <1>c, <1>1
  <2>2. context = "none" => \A g \in Inputs : stack'[g] = <<>> /\ chain'[g] = <<>>
    BY Zenon, <1>a, <1>1 DEF CountInv
  <2>3. /\ at[f].pc \in {"idle", "drain"} /\ at'[f].pc \in {"drain", "done", "run"}
        /\ at'[f].pc # "run" /\ refs' \in [Inputs -> Nat]
    BY Zenon, <1>a, <1>b, <1>2 DEF At, TypeOK
  <2>4. \A j \in 1..Count : Waiting(j) => Waiting(j)'
    BY Zenon, <1>3
  <2> QED BY Zenon, <1>b, <1>1, <1>2, <1>4, <2>1, <2>2, <2>3, <2>4, CompleterFrame
<1>6. InputInv'
  <2> SUFFICES ASSUME NEW g \in Inputs PROVE InputInv!(g)'
    BY Zenon DEF InputInv
  <2>1. CASE g # f
    BY Zenon, <1>b, <1>1, <1>5, <2>1, OtherInput
  <2>2. CASE g = f
    <3>1. ASSUME NEW t \in {stack'[f], chain'[f]}
          PROVE  /\ t \in Seq(1..Count) /\ IsInjective(t)
                 /\ \A i \in Range(t) : slots[i] = f /\ Registered(i)'
      <4>1. CASE t = stack[f]
        <5>1. /\ t \in Seq(1..Count) /\ IsInjective(t)
              /\ \A i \in Range(t) : slots[i] = f /\ Registered(i)
          BY Zenon, <1>c, <4>1
        <5>2. \A i \in Range(t) : i \in 1..Count
          BY Zenon, <5>1, Within
        <5> QED BY Zenon, <1>5, <5>1, <5>2 DEF SameLoop
      <4>2. CASE t = <<>>
        <5>1. <<>> \in Seq(1..Count) /\ IsInjective(<<>>) /\ Range(<<>>) = {}
          BY EmptyElements
        <5> QED BY Zenon, <4>2, <5>1
      <4> QED BY Zenon, <1>1, <3>1, <4>1, <4>2
    <3>2. Ready(f)' /\ ~At(f, "idle")' /\ ~Holds(f)' /\ at'[f].pc \notin {"idle", "done"}
      BY Zenon, <1>d, <1>1, <1>2 DEF Ready, At, Holds, HolderPCs
    <3>3. slots' = slots
      BY Zenon, <1>b DEF Kept
    <3> QED BY Zenon, <1>a, <1>d, <1>1, <2>2, <3>1, <3>2, <3>3
  <2> QED BY Zenon, <2>1, <2>2
<1>7. RefInv'
  <2>1. \A g \in Inputs : at'[g].pc = "done" <=> at[g].pc = "done"
    BY Zenon, <1>b, <1>2, <1>5 DEF At
  <2> QED BY Zenon, <1>a, <1>b, <1>5, <2>1, RefFrame
<1> QED BY Zenon, <1>5, <1>6, <1>7 DEF IInv

(* A completer runs the next entry, or is through.                          *)
LEMMA DrainInv ==
  ASSUME IInv, NEW f \in Inputs, Drain(f)
  PROVE  IInv'
<1>a. TypeOK /\ ShapeInv /\ InputInv /\ CountInv /\ RefInv /\ Count' = Count
  BY Zenon DEF IInv, Kept, Count, Drain
<1>b. /\ At(f, "drain") /\ at[f].pc = "drain" /\ Kept
      /\ result' = result /\ was' = was /\ stack' = stack
      /\ consumed' = consumed /\ callerHolds' = callerHolds
      /\ context' = context /\ remaining' = remaining /\ flag' = flag /\ first' = first
      /\ outcome' = outcome /\ settles' = settles /\ null' = null /\ refused' = refused
  BY Zenon DEF Drain, At, Kept, ctxVars, outVars
<1>c. InputInv!(f) /\ Ready(f) /\ stack[f] = <<>> /\ f \in Procs /\ f # Caller /\ ~Working(f)
  BY Zenon, <1>a, <1>b, Numbers DEF InputInv, At, Working
<1>d. /\ \A g \in Inputs : was[g] # None => was'[g] = was[g]
      /\ \A g \in Inputs : result[g] # None => result'[g] # None
      /\ result' \in [Inputs -> {None, OK, ERR, Moved}] /\ was' \in [Inputs -> {None, OK, ERR}]
      /\ DOMAIN stack' = Inputs /\ at[f].pc \in {"idle", "drain"}
      /\ None \in Gives /\ "done" \in PCs(f) /\ "run" \in PCs(f) /\ 0 \in 0..Count
  BY Zenon, <1>a, <1>b, <1>c, Labels, Arrays DEF TypeOK, ShapeInv, Gives, HolderPCs
<1>e. SameLoop /\ \A i : Abandoned(i)' <=> Abandoned(i)
  <2>1. ASSUME Still(f) PROVE SameLoop
    BY Zenon, <1>b, <1>c, <2>1, LoopSame, Numbers DEF Still
  <2>2. PICK l, i : Become(f, l, i, None)
    BY Zenon DEF Drain
  <2>3. Still(f)
    BY Zenon, <1>a, <2>2 DEF Become, Still, TypeOK
  <2> QED BY Zenon, <1>b, <2>1, <2>3 DEF Abandoned, Kept
<1>1. CASE chain[f] = <<>>
  <2>1. /\ refs' = [refs EXCEPT ![f] = refs[f] - 1] /\ chain' = chain
        /\ Become(f, "done", 0, None)
    BY Zenon, <1>1 DEF Drain
  <2>2. at'[f].pc = "done" /\ Still(f) /\ AtTyped
    BY Zenon, <1>a, <1>c, <1>d, <2>1, Becomes
  <2>3. ~Working(f)' /\ ~Holds(f)'
    BY Zenon, <2>2 DEF Working, Holds, HolderPCs
  <2>4. Pending' = Pending /\ \A i : Waiting(i)' <=> Waiting(i)
    BY Zenon, <1>b, <1>c, <1>e, <2>1, <2>2, <2>3, PendingSame
  <2>5. PICK a \in {0, 1} : a = IF callerHolds THEN 1 ELSE 0
    BY Zenon
  <2>6. PICK c \in Nat : c = IF Held THEN Retained(f) ELSE 0
    <3>1. 0 \in Nat /\ Retained(f) \in Nat
      BY Retains
    <3> QED BY Zenon, <3>1
  <2>7. refs[f] = a + 1 + c
    <3>1. ~At(f, "done")
      BY Zenon, <1>b DEF At
    <3> QED BY Zenon, <1>a, <2>5, <2>6, <3>1 DEF RefInv
  <2>8. /\ refs'[f] = a + 0 + c /\ refs' \in [Inputs -> Nat]
        /\ \A g \in Inputs : g # f => refs'[g] = refs[g]
    <3>1. refs \in [Inputs -> Nat]
      BY Zenon, <1>a DEF TypeOK
    <3>2. refs[f] - 1 = a + 0 + c /\ refs[f] - 1 \in Nat
      BY <2>7
    <3> QED BY Zenon, <2>1, <3>1, <3>2
  <2>9. /\ TypeOK' /\ ShapeInv' /\ CallerInv' /\ CountInv' /\ SettleInv' /\ OutcomeInv'
        /\ SameLoop /\ (Held' <=> Held) /\ \A g \in Inputs : g # f => at'[g] = at[g]
    <3>1. /\ at'[f].pc \in {"drain", "done", "run"} /\ at'[f].pc # "run" /\ DOMAIN chain' = Inputs
      BY Zenon, <1>a, <2>1, <2>2 DEF ShapeInv
    <3>2. context = "none" => \A g \in Inputs : stack'[g] = <<>> /\ chain'[g] = <<>>
      BY Zenon, <1>a, <1>b, <2>1 DEF CountInv
    <3> QED BY Zenon, <1>b, <1>d, <2>2, <2>4, <2>8, <3>1, <3>2, CompleterFrame
  <2>10. InputInv'
    <3> SUFFICES ASSUME NEW g \in Inputs PROVE InputInv!(g)'
      BY Zenon DEF InputInv
    <3>1. CASE g # f
      BY Zenon, <1>b, <1>e, <2>1, <2>9, <3>1, OtherInput
    <3>2. CASE g = f
      <4>1. /\ Ready(f)' <=> Ready(f)
            /\ consumed \subseteq consumed' /\ was'[f] = was[f]
            /\ result'[f] = Moved => f \in consumed'
            /\ result'[f] \in {OK, ERR} => result'[f] = result[f]
        BY Zenon, <1>b, <1>c DEF Ready
      <4>2. /\ at'[f].pc = "idle" <=> at[f].pc = "idle"
            /\ at'[f].pc = "done" => chain[f] = <<>>
        BY Zenon, <1>b, <1>1, <2>2
      <4>3. stack'[f] = stack[f] /\ chain'[f] = chain[f] /\ \A i \in 1..Count : Registered(i) => Registered(i)'
        BY Zenon, <1>b, <1>e, <2>1 DEF SameLoop
      <4> QED BY Zenon, <1>a, <1>b, <2>3, <3>2, <4>1, <4>2, <4>3, InputFrame
    <3> QED BY Zenon, <3>1, <3>2
  <2>11. RefInv'
    <3> SUFFICES ASSUME NEW g \in Inputs
                 PROVE  refs'[g] = (IF callerHolds' THEN 1 ELSE 0) + (IF At(g, "done")' THEN 0 ELSE 1)
                                     + (IF Held' THEN Retained(g)' ELSE 0)
      BY Zenon DEF RefInv
    <3>0. Retained(g)' = Retained(g)
      BY Zenon, <1>b, Retains
    <3>1. CASE g # f
      <4>1. at'[g] = at[g] /\ refs'[g] = refs[g]
        BY Zenon, <2>8, <2>9, <3>1
      <4> QED BY Zenon, <1>a, <1>b, <2>9, <3>0, <4>1 DEF RefInv, At
    <3>2. CASE g = f
      BY Zenon, <1>b, <2>2, <2>5, <2>6, <2>8, <2>9, <3>0, <3>2 DEF At
    <3> QED BY Zenon, <3>1, <3>2
  <2> QED BY Zenon, <2>9, <2>10, <2>11 DEF IInv
<1>2. CASE chain[f] # <<>>
  <2>0. PICK h, t : h = Head(chain[f]) /\ t = Tail(chain[f])
    BY Zenon
  <2>1. /\ chain' = [chain EXCEPT ![f] = t] /\ refs' = refs /\ Become(f, "run", h, None)
    BY Zenon, <1>2, <2>0 DEF Drain
  <2>2. /\ t \in Seq(1..Count) /\ IsInjective(t) /\ h \in 1..Count /\ h \in Range(chain[f])
        /\ \A i : i \in Range(t) <=> i \in Range(chain[f]) /\ i # h
    <3>1. PICK S, q : S = 1..Count /\ q = chain[f]
      BY Zenon
    <3>2. q \in Seq(S) /\ q # <<>> /\ IsInjective(q) /\ h = Head(q) /\ t = Tail(q)
      BY Zenon, <1>c, <1>2, <2>0, <3>1
    <3>3. Tail(q) \in Seq(S) /\ IsInjective(Tail(q)) /\ Head(q) \in S /\ Head(q) \in Range(q)
      BY Zenon, <3>2, TailElements
    <3>4. \A i : i \in Range(Tail(q)) <=> i \in Range(q) /\ i # Head(q)
      BY Zenon, <3>2, TailMembers
    <3> QED BY Zenon, <3>1, <3>2, <3>3, <3>4
  <2>3. slots[h] = f /\ Registered(h)
    BY Zenon, <1>c, <2>2
  <2>4. h \in 0..Count /\ h # 0 /\ context # "none"
    <3>1. h \in 0..Count /\ h # 0
      BY Zenon, <1>a, <2>2, Arrays
    <3> QED BY Zenon, <1>a, <1>2, <3>1 DEF CountInv
  <2>5. at'[f].pc = "run" /\ at'[f].slot = h /\ Still(f) /\ AtTyped /\ Working(f)' /\ Holds(f)'
    <3>1. at'[f].pc = "run" /\ at'[f].slot = h /\ Still(f) /\ AtTyped
      <4>1. TypeOK /\ f \in Procs /\ "run" \in PCs(f) /\ h \in 0..Count /\ None \in Gives
        BY Zenon, <1>a, <1>c, <1>d, <2>4
      <4> QED BY Zenon, <2>1, <4>1, Becomes
    <3> QED BY Zenon, <3>1 DEF Working, Holds, HolderPCs
  <2>6. /\ chain'[f] = t /\ DOMAIN chain' = Inputs
        /\ \A g \in Inputs : g # f => chain'[g] = chain[g]
    BY Zenon, <1>a, <2>1 DEF ShapeInv
  <2>7. \A i : i # h => (Waiting(i)' <=> Waiting(i))
    <3>1. \A i : i # h => (i \in Range(stack'[f]) \cup Range(chain'[f])
                             <=> i \in Range(stack[f]) \cup Range(chain[f]))
      BY Zenon, <1>b, <2>2, <2>6
    <3>2. \A i, g : g \in Inputs /\ g # f =>
            (i \in Range(stack'[g]) \cup Range(chain'[g]) <=> i \in Range(stack[g]) \cup Range(chain[g]))
      BY Zenon, <1>b, <2>6
    <3> QED BY Zenon, <3>1, <3>2 DEF Waiting
  <2>8. Waiting(h)
    BY Zenon, <2>2 DEF Waiting
  <2>9. Pending' = Pending
    <3>1. \A q \in Procs : q # f => (Working(q)' <=> Working(q)) /\ at'[q].slot = at[q].slot
      BY Zenon, <2>5 DEF Still, Working
    <3>2. \A i : i # h => (Due(i)' <=> Due(i))
      BY Zenon, <1>c, <2>5, <2>7, <3>1 DEF Due, Slot
    <3>3. Due(h)' /\ Due(h)
      BY Zenon, <1>c, <2>5, <2>8 DEF Due, Slot
    <3>4. \A i : i \in Pending' <=> i \in Pending
      BY Zenon, <1>a, <1>e, <3>2, <3>3 DEF Pending, SameLoop
    <3> QED BY Zenon, <3>4
  <2>10. /\ TypeOK' /\ ShapeInv' /\ CallerInv' /\ CountInv' /\ SettleInv' /\ OutcomeInv'
         /\ SameLoop /\ (Held' <=> Held) /\ \A g \in Inputs : g # f => at'[g] = at[g]
    <3>1. at'[f].pc \in {"drain", "done", "run"} /\ refs' \in [Inputs -> Nat]
      BY Zenon, <1>a, <2>1, <2>5 DEF TypeOK
    <3>2. \A j \in 1..Count : Waiting(j) => Waiting(j)' \/ (at'[f].pc = "run" /\ at'[f].slot = j)
      BY Zenon, <2>5, <2>7
    <3> QED BY Zenon, <1>b, <1>d, <2>4, <2>5, <2>6, <2>9, <3>1, <3>2, CompleterFrame
  <2>11. InputInv'
    <3> SUFFICES ASSUME NEW g \in Inputs PROVE InputInv!(g)'
      BY Zenon DEF InputInv
    <3>1. CASE g # f
      BY Zenon, <1>b, <1>e, <2>6, <2>10, <3>1, OtherInput
    <3>2. CASE g = f
      <4>0. \A i \in 1..Count : Registered(i) => Registered(i)'
        BY Zenon, <1>e DEF SameLoop
      <4>1. ASSUME NEW u \in {stack'[f], chain'[f]}
            PROVE  /\ u \in Seq(1..Count) /\ IsInjective(u)
                   /\ \A i \in Range(u) : slots[i] = f /\ Registered(i)'
        <5>1. CASE u = stack[f]
          <6>1. /\ u \in Seq(1..Count) /\ IsInjective(u)
                /\ \A i \in Range(u) : slots[i] = f /\ Registered(i)
            BY Zenon, <1>c, <5>1
          <6> QED BY Zenon, <4>0, <6>1, Within
        <5>2. CASE u = t
          <6>1. \A i \in Range(t) : slots[i] = f /\ Registered(i)
            BY Zenon, <1>c, <2>2
          <6>2. \A i \in Range(t) : i \in 1..Count
            BY Zenon, <2>2, Within
          <6> QED BY Zenon, <2>2, <4>0, <5>2, <6>1, <6>2
        <5> QED BY Zenon, <1>b, <2>6, <4>1, <5>1, <5>2
      <4>2. Ready(f)' /\ ~At(f, "idle")' /\ at'[f].pc \notin {"idle", "done"} /\ stack'[f] = <<>>
        BY Zenon, <1>b, <1>c, <2>5 DEF Ready, At
      <4>3. slots' = slots /\ Input(f)' = f /\ at'[f].slot \notin Range(chain'[f])
        BY Zenon, <1>b, <2>2, <2>3, <2>5, <2>6 DEF Kept, Input, Slot
      <4>4. Registered(Slot(f))'
        <5>1. \A i : i = at'[f].slot /\ i \in 1..Count /\ Registered(i) => Registered(Slot(f))'
          BY Zenon, <4>0 DEF Registered, Slot, Abandoned
        <5> QED BY Zenon, <2>2, <2>3, <2>5, <5>1
      <4>5. /\ result'[f] = Moved => f \in consumed'
            /\ result'[f] \in {OK, ERR} => was'[f] = result'[f]
        BY Zenon, <1>b, <1>c
      <4> QED BY Zenon, <1>a, <3>2, <4>1, <4>2, <4>3, <4>4, <4>5 DEF Slot
    <3> QED BY Zenon, <3>1, <3>2
  <2>12. RefInv'
    <3>1. \A g \in Inputs : at'[g].pc = "done" <=> at[g].pc = "done"
      BY Zenon, <1>b, <2>5, <2>10
    <3> QED BY Zenon, <1>a, <1>b, <2>1, <2>10, <3>1, RefFrame
  <2> QED BY Zenon, <2>10, <2>11, <2>12 DEF IInv
<1> QED BY Zenon, <1>1, <1>2

-----------------------------------------------------------------------------
LEMMA InitInv == Init => IInv
<1> SUFFICES ASSUME Init PROVE IInv
  OBVIOUS
<1>a. PICK n \in 0..MaxCount : slots \in [1..n -> Inputs \cup {Null}]
  BY Zenon DEF Init
<1>b. slots \in Seq(Inputs \cup {Null}) /\ Len(slots) = n /\ n \in Nat /\ n <= MaxCount
  BY <1>a, CombinatorsAssumption
<1>c. Count = n /\ 0 \in 0..Count /\ 0 \in 0..MaxCount
  <2>1. Count = n
    BY Zenon, <1>b DEF Count
  <2> QED BY <1>b, <2>1, CombinatorsAssumption
<1>1. /\ \A f \in Inputs : at[f] = [pc |-> "idle", slot |-> 0, give |-> None]
      /\ at[Caller] = [pc |-> "start", slot |-> 0, give |-> None]
      /\ at = [p \in Procs |-> IF p = Caller THEN [pc |-> "start", slot |-> 0, give |-> None]
                               ELSE [pc |-> "idle", slot |-> 0, give |-> None]]
  <2>1. [Idle EXCEPT !.pc = "start"] = [pc |-> "start", slot |-> 0, give |-> None]
    BY DEF Idle
  <2>2. at = [p \in Procs |-> IF p = Caller THEN [pc |-> "start", slot |-> 0, give |-> None]
                              ELSE [pc |-> "idle", slot |-> 0, give |-> None]]
    BY Zenon, <2>1 DEF Init, Idle
  <2> QED BY Zenon, <2>2, Numbers
<1>2. /\ \A f \in Inputs : at[f].pc = "idle"
      /\ at[Caller].pc = "start"
      /\ \A p \in Procs : at[p].pc \in {"idle", "start"}
  <2>1. (\A f \in Inputs : at[f].pc = "idle") /\ at[Caller].pc = "start"
    BY <1>1
  <2> QED BY Zenon, <2>1, Numbers
<1>3. \A p \in Procs : ~Holds(p) /\ ~Ending(p) /\ ~At(p, "release") /\ ~At(p, "register") /\ ~Settling(p)
  BY Zenon, <1>2 DEF Holds, HolderPCs, Ending, At, Settling
<1>4. /\ \A f \in Inputs : /\ result[f] = None /\ was[f] = None /\ stack[f] = <<>>
                           /\ chain[f] = <<>> /\ refs[f] = 2
      /\ DOMAIN stack = Inputs /\ DOMAIN chain = Inputs
      /\ result \in [Inputs -> {None, OK, ERR, Moved}] /\ was \in [Inputs -> {None, OK, ERR}]
      /\ first \in [1..Count -> {None, OK, ERR, Moved}]
  BY Zenon DEF Init
<1>5. TypeOK
  <2>1. refs \in [Inputs -> Nat]
    <3>1. 2 \in Nat
      OBVIOUS
    <3> QED BY Zenon, <3>1 DEF Init
  <2>2. at \in [Procs -> [pc : HolderPCs \cup CallerPCs \cup InputPCs, slot : 0..Count, give : Gives]]
    <3>1. "start" \in CallerPCs /\ "idle" \in InputPCs /\ None \in Gives
      BY Zenon DEF CallerPCs, InputPCs, Gives
    <3>2. /\ [pc |-> "start", slot |-> 0, give |-> None]
               \in [pc : HolderPCs \cup CallerPCs \cup InputPCs, slot : 0..Count, give : Gives]
          /\ [pc |-> "idle", slot |-> 0, give |-> None]
               \in [pc : HolderPCs \cup CallerPCs \cup InputPCs, slot : 0..Count, give : Gives]
      BY <1>c, <3>1
    <3> QED BY Zenon, <1>1, <3>2
  <2>3. \A p \in Procs : at[p].pc \in PCs(p)
    BY Zenon, <1>2, Labels, Numbers
  <2>4. None \in Gives
    BY Zenon DEF Gives
  <2> QED BY Zenon, <1>c, <1>4, <2>1, <2>2, <2>3, <2>4 DEF TypeOK, Init
<1>6. ShapeInv
  BY Zenon, <1>b, <1>c, <1>3, <1>4 DEF ShapeInv, Init
<1>7. InputInv
  <2> SUFFICES ASSUME NEW f \in Inputs PROVE InputInv!(f)
    BY Zenon DEF InputInv
  <2>1. /\ ~Ready(f) /\ At(f, "idle") /\ ~Holds(f)
    BY Zenon, <1>2, <1>3, <1>4, Numbers DEF Ready, At
  <2>2. <<>> \in Seq(1..Count) /\ IsInjective(<<>>) /\ Range(<<>>) = {}
    BY EmptyElements
  <2>3. \A s \in {stack[f], chain[f]} :
          s \in Seq(1..Count) /\ IsInjective(s) /\ \A i \in Range(s) : slots[i] = f /\ Registered(i)
    BY Zenon, <1>4, <2>2
  <2>4. None # Moved /\ None # OK /\ None # ERR
    BY DEF None, Moved, OK, ERR
  <2> QED BY Zenon, <1>4, <2>1, <2>3, <2>4
<1>8. CallerInv
  BY Zenon, <1>2 DEF CallerInv, Init
<1>9. CountInv
  <2>1. context = "none" /\ context # "live" /\ context # "freed"
    BY DEF Init
  <2> QED BY Zenon, <1>2, <1>3, <1>4, <2>1, Numbers DEF CountInv, Init
<1>10. RefInv
  <2>1. ~Held /\ callerHolds
    <3>1. context # "live"
      BY DEF Init
    <3> QED BY Zenon, <1>3, <3>1 DEF Held, Init
  <2>2. \A f \in Inputs : ~At(f, "done") /\ refs[f] = 1 + 1 + 0
    BY <1>2, <1>4 DEF At
  <2> QED BY Zenon, <2>1, <2>2 DEF RefInv
<1>11. SettleInv
  <2>1. settles = 0 /\ settles # 1 /\ settles \in {0, 1} /\ context = "none" /\ context # "freed"
        /\ ~flag /\ outcome = None
    BY DEF Init
  <2>2. at[Caller].pc # "returned" /\ \A p \in Procs : at[p].pc \notin {"consume", "settle", "last_settle", "free"}
    BY Zenon, <1>2
  <2> QED BY Zenon, <1>3, <2>1, <2>2 DEF SettleInv, At
<1>12. OutcomeInv
  <2>1. Right(outcome)
    <3>1. outcome # OK /\ outcome # ERR /\ outcome # EINVAL /\ outcome # Moved
      BY DEF Init, None, OK, ERR, EINVAL, Moved
    <3> QED BY Zenon, <3>1 DEF Right
  <2>2. context = "none" /\ \A p \in Procs : at[p].pc \notin {"settle", "last_settle"}
    BY Zenon, <1>2 DEF Init
  <2> QED BY Zenon, <2>1, <2>2 DEF OutcomeInv
<1> QED BY Zenon, <1>5, <1>6, <1>7, <1>8, <1>9, <1>10, <1>11, <1>12 DEF IInv

LEMMA NextInv == IInv /\ [Next]_vars => IInv'
<1> SUFFICES ASSUME IInv, [Next]_vars PROVE IInv'
  OBVIOUS
<1>1. ASSUME NEW p \in Procs, Step(p) PROVE IInv'
  <2>1. CASE Run(p) \/ Consume(p) \/ Settle(p) \/ Sub(p)
    BY Zenon, <2>1, RunInv, ConsumeInv, SettleStepInv, SubInv
  <2>2. CASE Last(p) \/ Free(p) \/ ReleaseInputs(p)
    BY Zenon, <2>2, LastInv, FreeInv, ReleaseInv
  <2>3. CASE StartEmpty \/ StartFails \/ Start \/ RunInline \/ Push
    BY Zenon, <2>3, NoCallInv, StartInv, RunInlineInv, PushInv
  <2>4. CASE Refuse
    <3>1. RefusedAll \/ RefusedAny \/ RefusedZip
      BY Zenon, <2>4 DEF Refuse
    <3> QED BY Zenon, <2>4, <3>1, RefuseInv, GiveUpInv
  <2>5. CASE p \in Inputs /\ Drain(p)
    BY Zenon, <2>5, DrainInv
  <2> QED BY Zenon, <1>1, <2>1, <2>2, <2>3, <2>4, <2>5 DEF Step
<1>2. ASSUME NEW f \in Inputs, Take(f) \/ \E r \in {OK, ERR} : Complete(f, r) PROVE IInv'
  BY Zenon, <1>2, TakeInv, CompleteInv
<1>3. CASE CallerRelease
  BY Zenon, <1>3, CallerReleaseInv
<1>4. CASE UNCHANGED vars
  BY Zenon, <1>4, StutterInv
<1> QED BY Zenon, <1>1, <1>2, <1>3, <1>4 DEF Next, Finished

(* Every state of a call satisfies the invariant.                           *)
THEOREM Invariance == Spec => []IInv
  BY InitInv, NextInv, PTL DEF Spec

(* An input a completer works for is one of the array.                      *)
LEMMA HoldersUsed ==
  ASSUME IInv, NEW f \in Inputs, Holds(f)
  PROVE  f \in Used
<1>1. TypeOK /\ ShapeInv /\ InputInv
  BY Zenon DEF IInv
<1>2. slots[Slot(f)] = f /\ Slot(f) \in DOMAIN slots
  BY Zenon, <1>1, SlotType, Numbers, Arrays DEF InputInv, Input
<1> QED BY Zenon, <1>2 DEF Used, Range

LEMMA Outlives == IInv => ContextOutlivesUsers
<1> SUFFICES ASSUME IInv PROVE ContextOutlivesUsers
  OBVIOUS
<1>a. TypeOK /\ ShapeInv /\ InputInv /\ CallerInv /\ CountInv /\ RefInv
  BY Zenon DEF IInv
<1>1. ASSUME context = "freed", NEW i \in 1..Count PROVE ~Due(i) /\ ~Unregistered(i)
  <2>1. context # "none" /\ remaining = 0
    BY <1>a, <1>1 DEF CountInv
  <2>2. Pending = {}
    BY Zenon, <1>a, <2>1, CountNone DEF CountInv
  <2> QED BY Zenon, <2>2 DEF Pending
<1>2. ASSUME NEW p \in Procs, NEW q \in Procs, Ending(p)
      PROVE  context = "live" /\ (Ending(q) => p = q)
  BY Zenon, <1>a, <1>2 DEF CountInv
<1>3. ASSUME NEW f \in Inputs
      PROVE  /\ callerHolds \/ ~At(f, "done") \/ (Held /\ Retained(f) > 0) => refs[f] > 0
  <2>1. PICK a \in {0, 1} : a = IF callerHolds THEN 1 ELSE 0
    BY Zenon
  <2>2. PICK b \in {0, 1} : b = IF At(f, "done") THEN 0 ELSE 1
    BY Zenon
  <2>3. PICK c \in Nat : c = IF Held THEN Retained(f) ELSE 0
    <3>1. 0 \in Nat /\ Retained(f) \in Nat
      BY Retains
    <3> QED BY Zenon, <3>1
  <2>4. refs[f] = a + b + c
    BY Zenon, <1>a, <2>1, <2>2, <2>3 DEF RefInv
  <2>5. a = 1 \/ b = 1 \/ c > 0 => refs[f] > 0
    BY <2>4
  <2> QED BY Zenon, <2>1, <2>2, <2>3, <2>5
<1>4. ASSUME NEW p \in Procs, Working(p), Input(p) # Null PROVE refs[Input(p)] > 0
  <2>0. Holds(p)
    BY Zenon, <1>4 DEF Working, Holds, HolderPCs
  <2>1. Input(p) \in Inputs
    BY Zenon, <1>a, <1>4, <2>0, SlotType, Arrays DEF Input
  <2>2. CASE p = Caller
    <3>1. callerHolds
      BY Zenon, <1>a, <1>4, <2>2 DEF CallerInv, At, Working
    <3> QED BY Zenon, <1>3, <2>1, <3>1
  <2>3. CASE p \in Inputs
    <3>1. Input(p) = p /\ ~At(p, "done")
      BY Zenon, <1>a, <1>4, <2>0, <2>3 DEF InputInv, At, Working
    <3> QED BY Zenon, <1>3, <2>1, <3>1
  <2> QED BY Zenon, <2>2, <2>3, Numbers
<1>5. ASSUME NEW p \in Procs, kind = "zip", Ending(p), NEW i \in 1..Count PROVE refs[slots[i]] > 0
  <2>1. Held
    BY Zenon, <1>2, <1>5 DEF Held
  <2>2. slots[i] \in Range(slots)
    BY Zenon, <1>a, Arrays DEF Range
  <2>3. slots[i] \in Inputs
    BY Zenon, <1>a, <1>5, <2>2, Arrays DEF ShapeInv
  <2>4. Retained(slots[i]) > 0
    <3>1. 1 > 0 /\ 2 > 0
      OBVIOUS
    <3> QED BY Zenon, <1>5, <2>2, <3>1 DEF Retained
  <2> QED BY Zenon, <1>3, <2>1, <2>3, <2>4
<1> QED BY Zenon, <1>a, <1>1, <1>2, <1>4, <1>5 DEF ContextOutlivesUsers

(* The context of a call outlives whoever still uses it, and so do the      *)
(* inputs, for any number of inputs and any array: the last fetch_sub frees.*)
THEOREM ContextOutlivesUsersHolds == Spec => []ContextOutlivesUsers
  BY Invariance, Outlives, PTL

LEMMA Rightful == IInv => RightOutcome
<1> SUFFICES ASSUME IInv PROVE RightOutcome
  OBVIOUS
<1>1. ShapeInv /\ SettleInv /\ Right(outcome)
  BY Zenon DEF IInv, OutcomeInv
<1>2. settles <= 1
  <2>1. settles \in {0, 1}
    BY Zenon, <1>1 DEF SettleInv
  <2> QED BY <2>1
<1>3. /\ "all" # "any" /\ "zip" # "any"
  OBVIOUS
<1> QED BY Zenon, <1>1, <1>2, <1>3 DEF RightOutcome, Right, AllTaken

(* The output of all, any and zip is settled once, and agrees with what the *)
(* inputs completed with, whatever the order of completions, refusals and   *)
(* moves by other operators: a move between all's two reads of an error is  *)
(* the only way to a success in name, and any and zip never come to one.    *)
THEOREM RightOutcomeHolds == Spec => []RightOutcome
  BY Invariance, Rightful, PTL

LEMMA Leakless == IInv => NothingLeaks
<1> SUFFICES ASSUME IInv, At(Caller, "returned"), \A f \in Used : At(f, "done"),
                    ~(kind = "zip" /\ refused # {})
             PROVE  /\ context # "live" /\ (null \/ settles = 1)
                    /\ \A f \in Used : refs[f] = (IF callerHolds THEN 1 ELSE 0)
  BY Zenon DEF NothingLeaks
<1>a. TypeOK /\ ShapeInv /\ InputInv /\ CountInv /\ RefInv /\ SettleInv
  BY Zenon DEF IInv
<1>1. \A p \in Procs : ~Holds(p)
  <2>1. ~Holds(Caller) /\ \A f \in Used : ~Holds(f)
    BY Zenon DEF Holds, HolderPCs, At
  <2> QED BY Zenon, <2>1, HoldersUsed, Numbers
<1>2. \A i : ~Waiting(i)
  <2> SUFFICES ASSUME NEW i, NEW f \in Inputs, i \in Range(stack[f]) \cup Range(chain[f]) PROVE FALSE
    BY Zenon DEF Waiting
  <2>1. PICK s \in {stack[f], chain[f]} : i \in Range(s)
    BY Zenon
  <2>2. s \in Seq(1..Count) /\ slots[i] = f
    BY Zenon, <1>a, <2>1 DEF InputInv
  <2>3. i \in DOMAIN slots
    BY Zenon, <1>a, <2>1, <2>2, Within, Arrays
  <2>4. f \in Used
    BY Zenon, <2>2, <2>3 DEF Used, Range
  <2>5. at[f].pc = "done"
    BY Zenon, <2>4 DEF At
  <2>6. chain[f] = <<>> /\ stack[f] = <<>>
    BY Zenon, <1>a, <2>5 DEF InputInv, At
  <2> QED BY Zenon, <2>1, <2>6, EmptyElements
<1>3. Pending = {}
  <2>1. \A i : ~Due(i) /\ ~Unregistered(i) /\ ~Abandoned(i)
    <3>1. \A p \in Procs : ~Working(p)
      BY Zenon, <1>1 DEF Working, Holds, HolderPCs
    <3>2. at[Caller].pc \in {"returned", "start"} /\ ~At(Caller, "register")
      BY Zenon DEF At
    <3> QED BY Zenon, <1>2, <3>1, <3>2 DEF Due, Unregistered, Abandoned
  <2> QED BY Zenon, <2>1 DEF Pending
<1>4. \A p \in Procs : ~Ending(p) /\ ~At(p, "release")
  BY Zenon, <1>1 DEF Ending, At, Holds, HolderPCs
<1>5. context # "live"
  <2> SUFFICES ASSUME context = "live" PROVE FALSE
    OBVIOUS
  <2>1. remaining \in Nat /\ context # "none"
    BY <1>a DEF TypeOK
  <2>2. ExistsBijection(1..remaining, {})
    BY Zenon, <1>a, <1>3, <2>1 DEF CountInv
  <2>3. remaining # 0
    BY Zenon, <1>a, <1>4 DEF CountInv
  <2>4. PICK g : g \in [1..remaining -> {}]
    BY Zenon, <2>1, <2>2, Enumeration
  <2>5. 1 \in 1..remaining
    BY <2>1, <2>3
  <2> QED BY Zenon, <2>4, <2>5
<1>6. null \/ settles = 1
  BY Zenon, <1>a, <1>5 DEF SettleInv, TypeOK
<1>7. ASSUME NEW f \in Used PROVE refs[f] = (IF callerHolds THEN 1 ELSE 0)
  <2>1. f \in Inputs /\ At(f, "done") /\ ~Held
    BY Zenon, <1>4, <1>5 DEF Used, Held
  <2>2. PICK a \in {0, 1} : a = IF callerHolds THEN 1 ELSE 0
    BY Zenon
  <2>3. refs[f] = a + 0 + 0
    BY Zenon, <1>a, <2>1, <2>2 DEF RefInv
  <2>4. refs[f] = a
    BY <2>3
  <2> QED BY Zenon, <2>2, <2>4
<1> QED BY Zenon, <1>5, <1>6, <1>7

(* When the call has returned and its inputs completed, the context is      *)
(* freed, the output settled and every reference zip took is given back.    *)
THEOREM NothingLeaksHolds == Spec => []NothingLeaks
  BY Invariance, Leakless, PTL
=============================================================================
