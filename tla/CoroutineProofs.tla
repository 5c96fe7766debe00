-------------------------- MODULE CoroutineProofs ---------------------------
(***************************************************************************)
(* Proofs about coroutines, for any set of workers, other threads and      *)
(* coroutines.                                                             *)
(*                                                                         *)
(* The invariant IInv of Coroutine is shown inductive, one lemma per       *)
(* action.  In each, <1>1 says what holds when the action is taken, <1>2   *)
(* what it changes, and one step for each conjunct follows from the two.   *)
(***************************************************************************)
EXTENDS Coroutine, Chains

(* The trampoline takes the coroutine, and no other, off its thread's list. *)
LEMMA UnlinkElements ==
  ASSUME NEW s \in Seq(Coroutines), NEW c \in Range(s), IsInjective(s)
  PROVE  /\ Unlink(s, c) \in Seq(Coroutines)
         /\ Range(Unlink(s, c)) = Range(s) \ {c}
         /\ IsInjective(Unlink(s, c))
<1> DEFINE k == CHOOSE i \in DOMAIN s : s[i] = c
<1>1. k \in 1..Len(s) /\ s[k] = c
  BY DEF Range
<1>2. Unlink(s, c) = SubSeq(s, 1, k-1) \o SubSeq(s, k+1, Len(s))
  BY Zenon DEF Unlink
<1> HIDE DEF k
<1> QED BY <1>1, <1>2, RemoveElements

(* Going on to another step keeps the coroutine and the saved scheduler.    *)
LEMMA GotoPlace ==
  ASSUME TypeOK, NEW t \in Threads, NEW l \in PCs, Goto(t, l)
  PROVE  /\ at' \in [Threads -> Places]
         /\ at'[t].pc = l /\ at'[t].co = at[t].co /\ at'[t].prev = at[t].prev
         /\ \A u \in Threads : u # t => at'[u] = at[u]
<1>1. at[t] \in Places
  BY Zenon DEF TypeOK
<1>2. [at[t] EXCEPT !.pc = l] \in Places
  BY Zenon, <1>1 DEF Places
<1> QED BY Zenon, <1>1, <1>2 DEF TypeOK, Goto, Places

(* UfsrvCoroutineCreate.                                                    *)
LEMMA CreateInv ==
  ASSUME IInv, NEW t \in Threads, NEW c \in Coroutines, Create(t, c), Created(t, c)
  PROVE  IInv'
<1>1. /\ phase[c] = "none" /\ t \notin exited /\ waiting[c] = Null
      /\ \A w \in Workers : c \notin Range(jobs[w])
      /\ \A u \in Threads : c \notin Range(unstarted[u])
      /\ \A u \in Threads : at[u].pc # "main" => at[u].co # c
      /\ t # Null /\ home[c] = Null
  BY CoroutineAssumption DEF IInv, Create, At, CoInv, CoOK, QueueInv, ListInv, ThreadInv, ThreadOK
<1>2. /\ \A d \in Coroutines : phase'[d] = IF d = c THEN "unstarted" ELSE phase[d]
      /\ \A d \in Coroutines : home'[d] = IF d = c THEN t ELSE home[d]
      /\ \A d \in Coroutines : startRecord'[d] = IF d = c THEN "live" ELSE startRecord[d]
      /\ \A u \in Threads : u # t => unstarted'[u] = unstarted[u]
      /\ unstarted'[t] = <<c>> \o unstarted[t] /\ initialized \subseteq initialized'
      /\ UNCHANGED <<destroys, scheduler, waiting, accepted, at, jobs, exited>>
  BY Zenon DEF IInv, TypeOK, Create, Created, Phase
<1>3. TypeOK'
  BY ConsElements DEF IInv, TypeOK, Create, Created, Phase
<1>4. QueueInv'
  BY <1>1, <1>2 DEF IInv, QueueInv
<1>5. ThreadInv'
  <2> SUFFICES ASSUME NEW u \in Threads PROVE ThreadOK(u)'
    BY Zenon DEF ThreadInv
  <2>1. ThreadOK(u)
    BY Zenon DEF IInv, ThreadInv
  <2>2. CASE at[u].pc = "main"
    BY Zenon, <1>1, <1>2, <2>1, <2>2 DEF ThreadOK, Queued
  <2>3. CASE ~(at[u].pc = "main")
    BY Zenon, <1>1, <1>2, <2>1, <2>3 DEF ThreadOK, Queued
  <2> QED BY Zenon, <2>2, <2>3
<1>6. CoInv'
  <2> SUFFICES ASSUME NEW d \in Coroutines PROVE CoOK(d)'
    BY Zenon DEF CoInv
  <2>1. CoOK(d) /\ home[d] \in Threads \cup {Null}
    BY Zenon DEF IInv, CoInv, TypeOK
  <2>2. CASE d = c
    BY Zenon, <1>1, <1>2, <2>1, <2>2, CoroutineAssumption DEF CoOK
  <2>3. CASE ~(d = c)
    BY Zenon, <1>1, <1>2, <2>1, <2>3, CoroutineAssumption DEF CoOK
  <2> QED BY Zenon, <2>2, <2>3
<1>7. ListInv'
  <2>1. IsInjective(unstarted'[t]) /\ Range(unstarted'[t]) = Range(unstarted[t]) \cup {c}
    BY <1>1, <1>2, ConsElements DEF IInv, TypeOK, ListInv
  <2>2. \A u \in Threads : IsInjective(unstarted'[u])
    BY Zenon, <1>1, <1>2, <2>1 DEF IInv, ListInv
  <2>3. ASSUME NEW u \in Threads, NEW d \in Coroutines
        PROVE  d \in Range(unstarted'[u]) <=> home'[d] = u /\ phase'[d] = "unstarted"
    <3>1. d \in Range(unstarted[u]) <=> home[d] = u /\ phase[d] = "unstarted"
      BY Zenon DEF IInv, ListInv
    <3>2. CASE u = t
      BY Zenon, <1>1, <1>2, <2>1, <3>1, <3>2
    <3>3. CASE u # t
      BY Zenon, <1>1, <1>2, <3>1, <3>3
    <3> QED BY Zenon, <3>2, <3>3
  <2>4. ASSUME NEW d \in Coroutines
        PROVE  /\ startRecord'[d] = "live" <=> phase'[d] = "unstarted"
               /\ phase'[d] = "unstarted" => home'[d] \notin exited'
    BY <1>1, <1>2 DEF IInv, ListInv
  <2> QED BY Zenon, <2>2, <2>3, <2>4 DEF ListInv
<1>8. AcceptInv'
  <2> SUFFICES ASSUME NEW d \in Coroutines PROVE AcceptedOK(d)'
    BY Zenon DEF AcceptInv
  <2>1. AcceptedOK(d)
    BY Zenon DEF IInv, AcceptInv
  <2>2. CASE d = c
    BY Zenon, <1>1, <1>2, <2>1, <2>2 DEF AcceptedOK, Queued
  <2>3. CASE ~(d = c)
    BY Zenon, <1>1, <1>2, <2>1, <2>3 DEF AcceptedOK, Queued
  <2> QED BY Zenon, <2>2, <2>3
<1> QED BY Zenon, <1>3, <1>4, <1>5, <1>6, <1>7, <1>8 DEF IInv

(* UfsrvCoroutineCreate that finds no memory.                               *)
LEMMA CreateFailedInv ==
  ASSUME IInv, NEW t \in Threads, NEW c \in Coroutines, Create(t, c), CreateFailed(t)
  PROVE  IInv'
<1>1. /\ UNCHANGED <<phase, home, startRecord, destroys, unstarted, scheduler, waiting, accepted>>
      /\ UNCHANGED <<at, jobs, stopped, exited, aborted>> /\ initialized' = initialized \cup {t}
  BY Zenon DEF Create, CreateFailed, coVars
<1>2. TypeOK' /\ QueueInv'
  BY ZenonT(30), <1>1 DEF IInv, TypeOK, QueueInv
<1>3. ThreadInv'
  BY <1>1 DEF IInv, ThreadInv, ThreadOK, Queued
<1>4. CoInv'
  BY <1>1 DEF IInv, CoInv, CoOK
<1>5. ListInv' /\ AcceptInv'
  BY <1>1 DEF IInv, ListInv, AcceptInv, AcceptedOK, Queued
<1> QED BY Zenon, <1>2, <1>3, <1>4, <1>5 DEF IInv

(* UfsrvCoroutineResume.                                                    *)
LEMMA ResumeInv ==
  ASSUME IInv, NEW t \in Threads, NEW c \in Coroutines, Resume(t, c)
  PROVE  IInv'
<1>1. /\ t \notin exited /\ at[t].pc = "main" /\ scheduler[t] = Null
      /\ home[c] = t /\ phase[c] \in {"unstarted", "suspended"} /\ waiting[c] = Null
      /\ accepted[c] = Null /\ \A w \in Workers : c \notin Range(jobs[w])
  BY Zenon DEF IInv, Resume, At, ThreadInv, ThreadOK
<1>2. /\ \A u \in Threads : u # t => at'[u] = at[u]
      /\ at'[t] = [pc |-> "resume", co |-> c, prev |-> Null]
      /\ initialized' = initialized \cup {t}
      /\ UNCHANGED <<phase, home, startRecord, destroys, unstarted, scheduler, waiting, accepted, jobs,
                     exited>>
  BY Zenon, <1>1 DEF IInv, TypeOK, Resume, Begin, coVars
<1>3. TypeOK'
  BY Zenon DEF IInv, TypeOK, Resume, Begin, coVars, Places, PCs
<1>4. QueueInv'
  BY <1>1, <1>2 DEF IInv, QueueInv
<1>5. ThreadInv'
  <2> SUFFICES ASSUME NEW u \in Threads PROVE ThreadOK(u)'
    BY Zenon DEF ThreadInv
  <2>1. ThreadOK(u)
    BY Zenon DEF IInv, ThreadInv
  <2>2. CASE u = t
    BY <1>1, <1>2, <2>1, <2>2 DEF ThreadOK, Queued
  <2>3. CASE ~(u = t)
    BY Zenon, <1>1, <1>2, <2>1, <2>3 DEF ThreadOK, Queued
  <2> QED BY Zenon, <2>2, <2>3
<1>6. CoInv'
  <2> SUFFICES ASSUME NEW d \in Coroutines PROVE CoOK(d)'
    BY Zenon DEF CoInv
  <2>1. CoOK(d) /\ home[d] \in Threads \cup {Null}
    BY Zenon DEF IInv, CoInv, TypeOK
  <2>2. CASE home[d] = t
    BY Zenon, <1>1, <1>2, <2>1, <2>2, CoroutineAssumption DEF CoOK
  <2>3. CASE ~(home[d] = t)
    BY Zenon, <1>1, <1>2, <2>1, <2>3, CoroutineAssumption DEF CoOK
  <2> QED BY Zenon, <2>2, <2>3
<1>7. ListInv'
  BY <1>1, <1>2 DEF IInv, ListInv
<1>8. AcceptInv'
  <2> SUFFICES ASSUME NEW d \in Coroutines PROVE AcceptedOK(d)'
    BY Zenon DEF AcceptInv
  <2>1. AcceptedOK(d)
    BY Zenon DEF IInv, AcceptInv
  <2>2. CASE d = c
    BY Zenon, <1>1, <1>2, <2>1, <2>2 DEF AcceptedOK, Queued
  <2>3. CASE ~(d = c)
    BY <1>1, <1>2, <2>1, <2>3 DEF AcceptedOK, Queued
  <2> QED BY Zenon, <2>2, <2>3
<1> QED BY Zenon, <1>3, <1>4, <1>5, <1>6, <1>7, <1>8 DEF IInv

(* aco_resume switches to the coroutine.                                    *)
LEMMA SwitchInv ==
  ASSUME IInv, NEW t \in Threads, NEW c, c = at[t].co, Switch(t)
  PROVE  IInv'
<1>1. /\ at[t].pc = "resume" /\ c \in Coroutines /\ home[c] = t
      /\ t \in initialized /\ t \notin exited /\ at[t].prev = Null
      /\ \A u \in Threads : at[u].pc # "main" /\ u # t => at[u].co # c
      /\ phase[c] \in {"unstarted", "suspended"} /\ waiting[c] = Null /\ ~Queued(c) /\ accepted[c] = Null
  BY CoroutineAssumption DEF IInv, Switch, At, ThreadInv, ThreadOK, AcceptInv, AcceptedOK
<1>2. /\ \A d \in Coroutines : phase'[d] = IF d = c THEN "running" ELSE phase[d]
      /\ \A u \in Threads : u # t => at'[u] = at[u]
      /\ at'[t].pc = "running" /\ at'[t].co = c /\ at'[t].prev = Null
      /\ at' \in [Threads -> Places]
      /\ \A d \in Coroutines : startRecord'[d] = IF d = c /\ phase[c] = "unstarted" THEN "freed" ELSE startRecord[d]
      /\ \A u \in Threads : u # t \/ phase[c] # "unstarted" => unstarted'[u] = unstarted[u]
      /\ phase[c] = "unstarted" => unstarted'[t] = Unlink(unstarted[t], c)
      /\ UNCHANGED <<home, destroys, initialized, scheduler, waiting, accepted, jobs, exited>>
  BY <1>1, GotoPlace DEF IInv, TypeOK, Switch, Phase, PCs
<1>3. TypeOK'
  <2>1. phase[c] = "unstarted" => Unlink(unstarted[t], c) \in Seq(Coroutines)
    BY Zenon, <1>1, UnlinkElements DEF IInv, TypeOK, ListInv
  <2>2. unstarted' \in [Threads -> Seq(Coroutines)]
    BY Zenon, <2>1 DEF IInv, TypeOK, Switch
  <2>3. startRecord' \in [Coroutines -> {"none", "live", "freed"}]
    BY Zenon DEF IInv, TypeOK, Switch
  <2> QED BY Zenon, <1>1, <1>2, <2>2, <2>3 DEF IInv, TypeOK, Switch, Phase
<1>4. QueueInv'
  BY <1>1, <1>2 DEF IInv, QueueInv, Queued
<1>5. ThreadInv'
  <2> SUFFICES ASSUME NEW u \in Threads PROVE ThreadOK(u)'
    BY Zenon DEF ThreadInv
  <2>1. ThreadOK(u)
    BY Zenon DEF IInv, ThreadInv
  <2>2. CASE u = t
    BY Zenon, <1>1, <1>2, <2>1, <2>2 DEF ThreadOK, Queued
  <2>3. CASE ~(u = t)
    BY <1>1, <1>2, <2>1, <2>3 DEF ThreadOK, Queued
  <2> QED BY Zenon, <2>2, <2>3
<1>6. CoInv'
  <2> SUFFICES ASSUME NEW d \in Coroutines PROVE CoOK(d)'
    BY Zenon DEF CoInv
  <2>1. CoOK(d) /\ home[d] \in Threads \cup {Null}
    BY Zenon DEF IInv, CoInv, TypeOK
  <2>2. CASE d = c
    BY Zenon, <1>1, <1>2, <2>1, <2>2, CoroutineAssumption DEF CoOK
  <2>3. CASE ~(d = c)
    BY Zenon, <1>1, <1>2, <2>1, <2>3, CoroutineAssumption DEF CoOK
  <2> QED BY Zenon, <2>2, <2>3
<1>7. ListInv'
  <2>1. phase[c] = "unstarted" =>
          IsInjective(unstarted'[t]) /\ Range(unstarted'[t]) = Range(unstarted[t]) \ {c}
    BY <1>1, <1>2, UnlinkElements DEF IInv, TypeOK, ListInv
  <2>2. \A u \in Threads : IsInjective(unstarted'[u])
    BY Zenon, <1>1, <1>2, <2>1 DEF IInv, ListInv
  <2>3. ASSUME NEW u \in Threads, NEW d \in Coroutines
        PROVE  d \in Range(unstarted'[u]) <=> home'[d] = u /\ phase'[d] = "unstarted"
    <3>1. d \in Range(unstarted[u]) <=> home[d] = u /\ phase[d] = "unstarted"
      BY Zenon DEF IInv, ListInv
    <3>2. CASE u = t
      BY Zenon, <1>1, <1>2, <2>1, <3>1, <3>2
    <3>3. CASE u # t
      BY Zenon, <1>1, <1>2, <3>1, <3>3
    <3> QED BY Zenon, <3>2, <3>3
  <2>4. ASSUME NEW d \in Coroutines
        PROVE  /\ startRecord'[d] = "live" <=> phase'[d] = "unstarted"
               /\ phase'[d] = "unstarted" => home'[d] \notin exited'
    BY <1>1, <1>2 DEF IInv, ListInv
  <2> QED BY Zenon, <2>2, <2>3, <2>4 DEF ListInv
<1>8. AcceptInv'
  <2> SUFFICES ASSUME NEW d \in Coroutines PROVE AcceptedOK(d)'
    BY Zenon DEF AcceptInv
  <2>1. AcceptedOK(d)
    BY Zenon DEF IInv, AcceptInv
  <2>2. CASE d = c
    BY Zenon, <1>1, <1>2, <2>1, <2>2 DEF AcceptedOK, Queued
  <2>3. CASE ~(d = c)
    BY Zenon, <1>1, <1>2, <2>1, <2>3 DEF AcceptedOK, Queued
  <2> QED BY Zenon, <2>2, <2>3
<1> QED BY Zenon, <1>3, <1>4, <1>5, <1>6, <1>7, <1>8 DEF IInv

(* The coroutine leaves its waiter.                                         *)
LEMMA AwaitInv ==
  ASSUME IInv, NEW t \in Threads, NEW c, c = at[t].co, Await(t)
  PROVE  IInv'
<1>1. /\ at[t].pc = "running" /\ c \in Coroutines /\ home[c] = t
      /\ t \in initialized /\ t \notin exited /\ at[t].prev = Null
      /\ \A u \in Threads : at[u].pc # "main" /\ u # t => at[u].co # c
      /\ phase[c] = "running" /\ waiting[c] = Null /\ ~Queued(c)
      /\ scheduler[t] = t /\ t \in Workers /\ accepted[c] = Null
  BY CoroutineAssumption DEF IInv, Await, At, ThreadInv, ThreadOK, AcceptInv, AcceptedOK
<1>2. /\ \A u \in Threads : u # t => at'[u] = at[u]
      /\ at'[t].pc = "yield" /\ at'[t].co = c /\ at'[t].prev = Null
      /\ at' \in [Threads -> Places]
      /\ \A d \in Coroutines : waiting'[d] = IF d = c THEN t ELSE waiting[d]
      /\ UNCHANGED <<phase, home, startRecord, destroys, initialized, unstarted, scheduler, accepted, jobs,
                     exited>>
  BY Zenon, <1>1, GotoPlace DEF IInv, TypeOK, Await, coVars, threadVars, PCs
<1>3. TypeOK'
  BY Zenon, <1>1, <1>2 DEF IInv, TypeOK, Await, coVars, threadVars
<1>4. QueueInv'
  BY <1>1, <1>2 DEF IInv, QueueInv, Queued
<1>5. ThreadInv'
  <2> SUFFICES ASSUME NEW u \in Threads PROVE ThreadOK(u)'
    BY Zenon DEF ThreadInv
  <2>1. ThreadOK(u)
    BY Zenon DEF IInv, ThreadInv
  <2>2. CASE u = t
    BY Zenon, <1>1, <1>2, <2>1, <2>2 DEF ThreadOK, Queued
  <2>3. CASE ~(u = t)
    BY Zenon, <1>1, <1>2, <2>1, <2>3 DEF ThreadOK, Queued
  <2> QED BY Zenon, <2>2, <2>3
<1>6. CoInv'
  <2> SUFFICES ASSUME NEW d \in Coroutines PROVE CoOK(d)'
    BY Zenon DEF CoInv
  <2>1. CoOK(d) /\ home[d] \in Threads \cup {Null}
    BY Zenon DEF IInv, CoInv, TypeOK
  <2>2. CASE d = c
    BY Zenon, <1>1, <1>2, <2>1, <2>2, CoroutineAssumption DEF CoOK
  <2>3. CASE ~(d = c)
    BY Zenon, <1>1, <1>2, <2>1, <2>3, CoroutineAssumption DEF CoOK
  <2> QED BY Zenon, <2>2, <2>3
<1>7. ListInv'
  BY <1>1, <1>2 DEF IInv, ListInv
<1>8. AcceptInv'
  <2> SUFFICES ASSUME NEW d \in Coroutines PROVE AcceptedOK(d)'
    BY Zenon DEF AcceptInv
  <2>1. AcceptedOK(d)
    BY Zenon DEF IInv, AcceptInv
  <2>2. CASE d = c
    BY Zenon, <1>1, <1>2, <2>1, <2>2 DEF AcceptedOK, Queued
  <2>3. CASE ~(d = c)
    BY Zenon, <1>1, <1>2, <2>1, <2>3 DEF AcceptedOK, Queued
  <2> QED BY Zenon, <2>2, <2>3
<1> QED BY Zenon, <1>3, <1>4, <1>5, <1>6, <1>7, <1>8 DEF IInv

(* The coroutine yields.                                                    *)
LEMMA YieldInv ==
  ASSUME IInv, NEW t \in Threads, NEW c, c = at[t].co, Yield(t)
  PROVE  IInv'
<1>1. /\ at[t].pc \in {"running", "yield"} /\ c \in Coroutines /\ home[c] = t
      /\ t \in initialized /\ t \notin exited /\ at[t].prev = Null
      /\ \A u \in Threads : at[u].pc # "main" /\ u # t => at[u].co # c
      /\ phase[c] = "running"
  BY CoroutineAssumption DEF IInv, Yield, At, ThreadInv, ThreadOK
<1>2. /\ \A d \in Coroutines : phase'[d] = IF d = c THEN "suspended" ELSE phase[d]
      /\ \A u \in Threads : u # t => at'[u] = at[u]
      /\ at'[t].pc = "after" /\ at'[t].co = c /\ at'[t].prev = Null
      /\ at' \in [Threads -> Places]
      /\ UNCHANGED <<home, startRecord, destroys, initialized, unstarted, scheduler, waiting, accepted,
                     jobs, exited>>
  BY Zenon, <1>1, GotoPlace DEF IInv, TypeOK, Yield, Phase, threadVars, PCs
<1>3. TypeOK'
  BY Zenon, <1>1, <1>2 DEF IInv, TypeOK, Yield, Phase, threadVars
<1>4. QueueInv'
  BY <1>1, <1>2 DEF IInv, QueueInv
<1>5. ThreadInv'
  <2> SUFFICES ASSUME NEW u \in Threads PROVE ThreadOK(u)'
    BY Zenon DEF ThreadInv
  <2>1. ThreadOK(u)
    BY Zenon DEF IInv, ThreadInv
  <2>2. CASE u = t
    BY Zenon, <1>1, <1>2, <2>1, <2>2 DEF ThreadOK, Queued
  <2>3. CASE ~(u = t)
    BY <1>1, <1>2, <2>1, <2>3 DEF ThreadOK, Queued
  <2> QED BY Zenon, <2>2, <2>3
<1>6. CoInv'
  <2> SUFFICES ASSUME NEW d \in Coroutines PROVE CoOK(d)'
    BY Zenon DEF CoInv
  <2>1. CoOK(d) /\ home[d] \in Threads \cup {Null}
    BY Zenon DEF IInv, CoInv, TypeOK
  <2>2. CASE d = c
    BY Zenon, <1>1, <1>2, <2>1, <2>2, CoroutineAssumption DEF CoOK
  <2>3. CASE ~(d = c)
    BY Zenon, <1>1, <1>2, <2>1, <2>3, CoroutineAssumption DEF CoOK
  <2> QED BY Zenon, <2>2, <2>3
<1>7. ListInv'
  BY <1>1, <1>2 DEF IInv, ListInv
<1>8. AcceptInv'
  <2> SUFFICES ASSUME NEW d \in Coroutines PROVE AcceptedOK(d)'
    BY Zenon DEF AcceptInv
  <2>1. AcceptedOK(d)
    BY Zenon DEF IInv, AcceptInv
  <2>2. CASE d = c
    BY Zenon, <1>1, <1>2, <2>1, <2>2 DEF AcceptedOK, Queued
  <2>3. CASE ~(d = c)
    BY Zenon, <1>1, <1>2, <2>1, <2>3 DEF AcceptedOK, Queued
  <2> QED BY Zenon, <2>2, <2>3
<1> QED BY Zenon, <1>3, <1>4, <1>5, <1>6, <1>7, <1>8 DEF IInv

(* The coroutine ends.                                                      *)
LEMMA ExitInv ==
  ASSUME IInv, NEW t \in Threads, NEW c, c = at[t].co, Exit(t)
  PROVE  IInv'
<1>1. /\ at[t].pc = "running" /\ c \in Coroutines /\ home[c] = t
      /\ t \in initialized /\ t \notin exited /\ at[t].prev = Null
      /\ \A u \in Threads : at[u].pc # "main" /\ u # t => at[u].co # c
      /\ phase[c] = "running" /\ waiting[c] = Null /\ ~Queued(c) /\ accepted[c] = Null
  BY CoroutineAssumption DEF IInv, Exit, At, ThreadInv, ThreadOK, AcceptInv, AcceptedOK
<1>2. /\ \A d \in Coroutines : phase'[d] = IF d = c THEN "ended" ELSE phase[d]
      /\ \A u \in Threads : u # t => at'[u] = at[u]
      /\ at'[t].pc = "after" /\ at'[t].co = c /\ at'[t].prev = Null
      /\ at' \in [Threads -> Places]
      /\ UNCHANGED <<home, startRecord, destroys, initialized, unstarted, scheduler, waiting, accepted,
                     jobs, exited>>
  BY Zenon, <1>1, GotoPlace DEF IInv, TypeOK, Exit, Phase, threadVars, PCs
<1>3. TypeOK'
  BY Zenon, <1>1, <1>2 DEF IInv, TypeOK, Exit, Phase, threadVars
<1>4. QueueInv'
  BY <1>1, <1>2 DEF IInv, QueueInv, Queued
<1>5. ThreadInv'
  <2> SUFFICES ASSUME NEW u \in Threads PROVE ThreadOK(u)'
    BY Zenon DEF ThreadInv
  <2>1. ThreadOK(u)
    BY Zenon DEF IInv, ThreadInv
  <2>2. CASE u = t
    BY Zenon, <1>1, <1>2, <2>1, <2>2 DEF ThreadOK, Queued
  <2>3. CASE ~(u = t)
    BY Zenon, <1>1, <1>2, <2>1, <2>3 DEF ThreadOK, Queued
  <2> QED BY Zenon, <2>2, <2>3
<1>6. CoInv'
  <2> SUFFICES ASSUME NEW d \in Coroutines PROVE CoOK(d)'
    BY Zenon DEF CoInv
  <2>1. CoOK(d) /\ home[d] \in Threads \cup {Null}
    BY Zenon DEF IInv, CoInv, TypeOK
  <2>2. CASE d = c
    BY Zenon, <1>1, <1>2, <2>1, <2>2, CoroutineAssumption DEF CoOK
  <2>3. CASE ~(d = c)
    BY Zenon, <1>1, <1>2, <2>1, <2>3, CoroutineAssumption DEF CoOK
  <2> QED BY Zenon, <2>2, <2>3
<1>7. ListInv'
  BY <1>1, <1>2 DEF IInv, ListInv
<1>8. AcceptInv'
  <2> SUFFICES ASSUME NEW d \in Coroutines PROVE AcceptedOK(d)'
    BY Zenon DEF AcceptInv
  <2>1. AcceptedOK(d)
    BY Zenon DEF IInv, AcceptInv
  <2>2. CASE d = c
    BY Zenon, <1>1, <1>2, <2>1, <2>2 DEF AcceptedOK, Queued
  <2>3. CASE ~(d = c)
    BY Zenon, <1>1, <1>2, <2>1, <2>3 DEF AcceptedOK, Queued
  <2> QED BY Zenon, <2>2, <2>3
<1> QED BY Zenon, <1>3, <1>4, <1>5, <1>6, <1>7, <1>8 DEF IInv

(* The end of a resumption.                                                 *)
LEMMA AfterResumeInv ==
  ASSUME IInv, NEW t \in Threads, NEW c, c = at[t].co, AfterResume(t)
  PROVE  IInv'
<1>1. /\ at[t].pc = "after" /\ c \in Coroutines /\ home[c] = t
      /\ t \in initialized /\ t \notin exited /\ at[t].prev = Null
      /\ \A u \in Threads : at[u].pc # "main" /\ u # t => at[u].co # c
      /\ phase[c] \in {"suspended", "ended"} /\ (scheduler[t] = Null \/ scheduler[t] = t)
  BY CoroutineAssumption DEF IInv, AfterResume, At, ThreadInv, ThreadOK
<1>2. /\ \A d \in Coroutines : phase'[d] = IF d = c /\ phase[c] = "ended" THEN "destroyed" ELSE phase[d]
      /\ \A d \in Coroutines : destroys'[d] = IF d = c /\ phase[c] = "ended" THEN destroys[d] + 1 ELSE destroys[d]
      /\ \A u \in Threads : u # t => at'[u] = at[u]
      /\ at'[t] = Main /\ scheduler'[t] = Null
      /\ \A u \in Threads : u # t => scheduler'[u] = scheduler[u]
      /\ UNCHANGED <<home, startRecord, initialized, unstarted, waiting, accepted, jobs, exited>>
  BY <1>1 DEF IInv, TypeOK, AfterResume, Ended, Phase, SchedulerRestored
<1>3. TypeOK'
  <2>1. /\ phase' \in [Coroutines -> {"none", "spawned", "failed", "unstarted", "running", "suspended",
                                      "ended", "destroyed"}]
        /\ destroys' \in [Coroutines -> Nat]
    <3>1. CASE phase[c] = "ended"
      <4>1. /\ phase' = [phase EXCEPT ![c] = "destroyed"] /\ destroys[c] + 1 \in Nat
            /\ destroys' = [destroys EXCEPT ![c] = destroys[c] + 1]
        BY <1>1, <3>1 DEF IInv, TypeOK, AfterResume, Phase, Ended
      <4> QED BY Zenon, <4>1 DEF IInv, TypeOK
    <3>2. CASE phase[c] # "ended"
      BY Zenon, <3>2 DEF IInv, TypeOK, AfterResume, Ended
    <3> QED BY Zenon, <3>1, <3>2
  <2>2. Main \in Places
    BY Zenon DEF Main, Places, PCs
  <2>3. scheduler' \in [Threads -> Workers \cup {Null}] /\ at' \in [Threads -> Places]
    BY Zenon, <1>1, <2>2 DEF IInv, TypeOK, AfterResume, SchedulerRestored
  <2> QED BY Zenon, <2>1, <2>3 DEF IInv, TypeOK, AfterResume
<1>4. QueueInv'
  BY <1>1, <1>2 DEF IInv, QueueInv
<1>5. ThreadInv'
  <2> SUFFICES ASSUME NEW u \in Threads PROVE ThreadOK(u)'
    BY Zenon DEF ThreadInv
  <2>1. ThreadOK(u)
    BY Zenon DEF IInv, ThreadInv
  <2>2. CASE u = t
    BY <1>1, <1>2, <2>1, <2>2 DEF ThreadOK, Queued, Main
  <2>3. CASE ~(u = t)
    BY SMTT(30), <1>1, <1>2, <2>1, <2>3 DEF ThreadOK, Queued
  <2> QED BY Zenon, <2>2, <2>3
<1>6. CoInv'
  <2> SUFFICES ASSUME NEW d \in Coroutines PROVE CoOK(d)'
    BY Zenon DEF CoInv
  <2>1. CoOK(d) /\ home[d] \in Threads \cup {Null}
    BY Zenon DEF IInv, CoInv, TypeOK
  <2>2. CASE d = c
    <3>1. CASE phase[c] = "ended"
      <4>1. waiting'[d] = Null /\ phase'[d] = "destroyed" /\ home'[d] = t /\ destroys'[d] = 1
        BY SMTT(30), <1>1, <1>2, <2>1, <2>2, <3>1, CoroutineAssumption DEF CoOK
      <4> QED BY Zenon, <1>1, <4>1, CoroutineAssumption DEF CoOK
    <3>2. CASE phase[c] = "suspended"
      BY Zenon, <1>1, <1>2, <2>1, <2>2, <3>2 DEF CoOK
    <3> QED BY Zenon, <1>1, <3>1, <3>2
  <2>3. CASE ~(d = c)
    BY ZenonT(30), <1>1, <1>2, <2>1, <2>3, CoroutineAssumption DEF CoOK, Main
  <2> QED BY Zenon, <2>2, <2>3
<1>7. ListInv'
  BY <1>1, <1>2 DEF IInv, ListInv
<1>8. AcceptInv'
  <2> SUFFICES ASSUME NEW d \in Coroutines PROVE AcceptedOK(d)'
    BY Zenon DEF AcceptInv
  <2>1. AcceptedOK(d)
    BY Zenon DEF IInv, AcceptInv
  <2>2. CASE d = c
    <3>1. CASE phase[c] = "ended"
      BY Zenon, <1>2, <2>1, <2>2, <3>1 DEF AcceptedOK
    <3>2. CASE phase[c] = "suspended"
      <4>1. /\ UNCHANGED <<accepted, waiting>> /\ phase'[d] = phase[d] /\ home'[d] = home[d]
            /\ Queued(d)' => Queued(d)
        BY Zenon, <1>2, <2>2, <3>2 DEF Queued
      <4>2. \A u \in Threads : at'[u].pc # "main" => at'[u] = at[u]
        BY <1>2 DEF Main
      <4> QED BY <2>1, <4>1, <4>2 DEF AcceptedOK
    <3> QED BY Zenon, <1>1, <3>1, <3>2
  <2>3. CASE ~(d = c)
    <3>1. /\ UNCHANGED <<accepted, waiting>> /\ phase'[d] = phase[d] /\ home'[d] = home[d]
          /\ Queued(d)' => Queued(d)
      BY Zenon, <1>2, <2>3 DEF Queued
    <3>2. \A u \in Threads : at'[u].pc # "main" => at'[u] = at[u]
      BY <1>2 DEF Main
    <3> QED BY <2>1, <3>1, <3>2 DEF AcceptedOK
  <2> QED BY Zenon, <2>2, <2>3
<1> QED BY Zenon, <1>3, <1>4, <1>5, <1>6, <1>7, <1>8 DEF IInv

-----------------------------------------------------------------------------

(* The threads' first states satisfy the invariant.                         *)
LEMMA InitInv == Init => IInv
<1> SUFFICES ASSUME Init PROVE IInv
  OBVIOUS
<1> USE CoroutineAssumption DEF Init, Main, Threads
<1>1. TypeOK
  <2>1. Main \in Places
    BY Zenon DEF Places, PCs
  <2>2. /\ phase \in [Coroutines -> {"none", "spawned", "failed", "unstarted", "running", "suspended",
                                     "ended", "destroyed"}]
        /\ home \in [Coroutines -> Threads \cup {Null}]
        /\ startRecord \in [Coroutines -> {"none", "live", "freed"}]
        /\ destroys \in [Coroutines -> Nat]
        /\ waiting \in [Coroutines -> Workers \cup {Null}]
        /\ accepted \in [Coroutines -> Workers \cup {Null}]
    OBVIOUS
  <2>3. /\ scheduler \in [Threads -> Workers \cup {Null}] /\ at \in [Threads -> Places]
        /\ unstarted \in [Threads -> Seq(Coroutines)] /\ jobs \in [Workers -> Seq(Coroutines)]
    BY <2>1
  <2>4. aborted \in BOOLEAN /\ stopped \subseteq Workers /\ exited \subseteq Threads /\ initialized \subseteq Threads
    BY Zenon
  <2> QED BY Zenon, <2>2, <2>3, <2>4 DEF TypeOK
<1>2. QueueInv
  BY Zenon, EmptyElements DEF QueueInv
<1>3. ThreadInv
  BY Zenon, EmptyElements DEF ThreadInv, ThreadOK, Queued
<1>4. CoInv
  BY Zenon DEF CoInv, CoOK
<1>5. ListInv /\ AcceptInv
  BY Zenon, EmptyElements DEF ListInv, AcceptInv, AcceptedOK
<1> QED BY Zenon, <1>1, <1>2, <1>3, <1>4, <1>5 DEF IInv

(* UfsrvCoroutineSpawn.                                                     *)
LEMMA SpawnInv ==
  ASSUME IInv, NEW w \in Workers, NEW c \in Coroutines, Spawn(w, c)
  PROVE  IInv'
<1>1. /\ phase[c] = "none" /\ waiting[c] = Null /\ home[c] = Null
      /\ \A v \in Workers : c \notin Range(jobs[v])
      /\ \A u \in Threads : at[u].pc # "main" => at[u].co # c
  BY CoroutineAssumption DEF IInv, Spawn, CoInv, CoOK, QueueInv, ThreadInv, ThreadOK
<1>2. /\ \A d \in Coroutines : accepted'[d] = IF d = c THEN w ELSE accepted[d]
      /\ \A d \in Coroutines : phase'[d] = IF d = c THEN "spawned" ELSE phase[d]
      /\ UNCHANGED <<home, startRecord, destroys, initialized, unstarted, scheduler, waiting, at, jobs,
                     exited>>
  BY Zenon DEF IInv, TypeOK, Spawn, Phase, threadVars
<1>3. TypeOK'
  BY Zenon DEF IInv, TypeOK, Spawn, Phase, threadVars
<1>4. QueueInv'
  BY <1>1, <1>2 DEF IInv, QueueInv
<1>5. ThreadInv'
  <2> SUFFICES ASSUME NEW u \in Threads PROVE ThreadOK(u)'
    BY Zenon DEF ThreadInv
  <2>1. ThreadOK(u)
    BY Zenon DEF IInv, ThreadInv
  <2>2. CASE at[u].pc = "main"
    BY Zenon, <1>1, <1>2, <2>1, <2>2 DEF ThreadOK
  <2>3. CASE at[u].pc # "main"
    BY Zenon, <1>1, <1>2, <2>1, <2>3 DEF ThreadOK, Queued
  <2> QED BY Zenon, <2>2, <2>3
<1>6. CoInv'
  <2> SUFFICES ASSUME NEW d \in Coroutines PROVE CoOK(d)'
    BY Zenon DEF CoInv
  <2>1. CoOK(d) /\ home[d] \in Threads \cup {Null}
    BY Zenon DEF IInv, CoInv, TypeOK
  <2>2. CASE d = c
    BY Zenon, <1>1, <1>2, <2>1, <2>2, CoroutineAssumption DEF CoOK
  <2>3. CASE ~(d = c)
    BY Zenon, <1>1, <1>2, <2>1, <2>3, CoroutineAssumption DEF CoOK
  <2> QED BY Zenon, <2>2, <2>3
<1>7. ListInv'
  BY <1>1, <1>2 DEF IInv, ListInv
<1>8. AcceptInv'
  <2> SUFFICES ASSUME NEW d \in Coroutines PROVE AcceptedOK(d)'
    BY Zenon DEF AcceptInv
  <2>1. AcceptedOK(d)
    BY Zenon DEF IInv, AcceptInv
  <2>2. CASE d = c
    BY Zenon, <1>1, <1>2, <2>1, <2>2 DEF AcceptedOK, Queued
  <2>3. CASE ~(d = c)
    BY Zenon, <1>1, <1>2, <2>1, <2>3 DEF AcceptedOK, Queued
  <2> QED BY Zenon, <2>2, <2>3
<1> QED BY Zenon, <1>3, <1>4, <1>5, <1>6, <1>7, <1>8 DEF IInv

(* UfsrvCoroutineSubmitResume, up to the check.                             *)
LEMMA SubmitResumeInv ==
  ASSUME IInv, NEW c \in Coroutines, SubmitResume(c)
  PROVE  IInv'
<1>1. /\ waiting[c] \in Workers /\ home[c] = waiting[c] /\ phase[c] \in {"running", "suspended"}
      /\ waiting[c] # Null /\ ~Queued(c) /\ accepted[c] = Null
      /\ \A u \in Threads : at[u].pc \in {"resume", "running"} => at[u].co # c
  <2>1. waiting[c] # Null /\ waiting[c] \in Workers
    BY Zenon DEF IInv, TypeOK, SubmitResume
  <2>2. home[c] = waiting[c] /\ phase[c] \in {"running", "suspended"}
    BY Zenon, <2>1 DEF IInv, CoInv, CoOK
  <2>3. ~Queued(c) /\ accepted[c] = Null
    BY <2>1 DEF IInv, QueueInv, Queued, AcceptInv, AcceptedOK
  <2>4. \A u \in Threads : at[u].pc \in {"resume", "running"} => at[u].co # c
    BY <2>1 DEF IInv, ThreadInv, ThreadOK
  <2> QED BY Zenon, <2>1, <2>2, <2>3, <2>4
<1>2. /\ \A d \in Coroutines : waiting'[d] = IF d = c THEN Null ELSE waiting[d]
      /\ \A d \in Coroutines : d # c => accepted'[d] = accepted[d]
      /\ accepted'[c] \in {Null, home[c]}
      /\ UNCHANGED <<phase, home, startRecord, destroys, initialized, unstarted, scheduler, at, jobs,
                     exited>>
  BY Zenon, <1>1 DEF IInv, TypeOK, SubmitResume, WakeQueue, coVars, threadVars
<1>3. TypeOK'
  <2>1. accepted' \in [Coroutines -> Workers \cup {Null}] /\ aborted' \in BOOLEAN
    BY Zenon, <1>1 DEF IInv, TypeOK, SubmitResume, WakeQueue
  <2> QED BY Zenon, <1>2, <2>1 DEF IInv, TypeOK, SubmitResume
<1>4. QueueInv'
  BY <1>1, <1>2 DEF IInv, QueueInv, Queued
<1>5. ThreadInv'
  <2> SUFFICES ASSUME NEW u \in Threads PROVE ThreadOK(u)'
    BY Zenon DEF ThreadInv
  <2>1. ThreadOK(u)
    BY Zenon DEF IInv, ThreadInv
  <2>2. CASE at[u].pc \in {"resume", "running"}
    BY Zenon, <1>1, <1>2, <2>1, <2>2 DEF ThreadOK, Queued
  <2>3. CASE ~(at[u].pc \in {"resume", "running"})
    BY Zenon, <1>1, <1>2, <2>1, <2>3 DEF ThreadOK, Queued
  <2> QED BY Zenon, <2>2, <2>3
<1>6. CoInv'
  <2> SUFFICES ASSUME NEW d \in Coroutines PROVE CoOK(d)'
    BY Zenon DEF CoInv
  <2>1. CoOK(d) /\ home[d] \in Threads \cup {Null}
    BY Zenon DEF IInv, CoInv, TypeOK
  <2>2. CASE d = c
    BY Zenon, <1>1, <1>2, <2>1, <2>2, CoroutineAssumption DEF CoOK
  <2>3. CASE ~(d = c)
    BY Zenon, <1>1, <1>2, <2>1, <2>3, CoroutineAssumption DEF CoOK
  <2> QED BY Zenon, <2>2, <2>3
<1>7. ListInv'
  BY <1>1, <1>2 DEF IInv, ListInv
<1>8. AcceptInv'
  <2> SUFFICES ASSUME NEW d \in Coroutines PROVE AcceptedOK(d)'
    BY Zenon DEF AcceptInv
  <2>1. AcceptedOK(d)
    BY Zenon DEF IInv, AcceptInv
  <2>2. CASE d = c
    BY Zenon, <1>1, <1>2, <2>1, <2>2 DEF AcceptedOK, Queued
  <2>3. CASE ~(d = c)
    BY Zenon, <1>1, <1>2, <2>1, <2>3 DEF AcceptedOK, Queued
  <2> QED BY Zenon, <2>2, <2>3
<1> QED BY Zenon, <1>3, <1>4, <1>5, <1>6, <1>7, <1>8 DEF IInv

(* The insertion of an accepted job.                                        *)
LEMMA InsertInv ==
  ASSUME IInv, NEW c \in Coroutines, NEW w, w = accepted[c], Insert(c)
  PROVE  IInv'
<1>1. /\ w \in Workers /\ w # Null /\ waiting[c] = Null
      /\ phase[c] = "spawned" \/ (phase[c] \in {"running", "suspended"} /\ home[c] = w)
      /\ \A v \in Workers : c \notin Range(jobs[v])
      /\ \A u \in Threads : at[u].pc \in {"resume", "running"} => at[u].co # c
  BY DEF IInv, TypeOK, Insert, AcceptInv, AcceptedOK, Queued
<1>2. /\ \A v \in Workers : v # w => jobs'[v] = jobs[v]
      /\ jobs'[w] = Append(jobs[w], c)
      /\ \A d \in Coroutines : accepted'[d] = IF d = c THEN Null ELSE accepted[d]
      /\ UNCHANGED <<phase, home, startRecord, destroys, initialized, unstarted, scheduler, waiting, at,
                     exited>>
  BY Zenon, <1>1 DEF IInv, TypeOK, Insert, coVars, threadVars
<1>3. TypeOK'
  <2>1. Append(jobs[w], c) \in Seq(Coroutines)
    BY <1>1 DEF IInv, TypeOK
  <2>2. /\ jobs' \in [Workers -> Seq(Coroutines)]
        /\ accepted' \in [Coroutines -> Workers \cup {Null}]
    BY Zenon, <1>1, <2>1 DEF IInv, TypeOK, Insert
  <2> QED BY Zenon, <1>2, <2>2 DEF IInv, TypeOK, Insert
<1>4. QueueInv'
  <2>1. IsInjective(jobs'[w]) /\ Range(jobs'[w]) = Range(jobs[w]) \cup {c}
    BY <1>1, <1>2, AppendElements DEF IInv, TypeOK, QueueInv
  <2>2. \A v \in Workers : IsInjective(jobs'[v])
    BY Zenon, <1>1, <1>2, <2>1 DEF IInv, QueueInv
  <2>3. ASSUME NEW v \in Workers, NEW x \in Workers, NEW d \in Coroutines,
               d \in Range(jobs'[v]), d \in Range(jobs'[x])
        PROVE  v = x
    <3>1. d \in Range(jobs[v]) /\ d \in Range(jobs[x]) => v = x
      BY Zenon DEF IInv, QueueInv
    <3> QED BY Zenon, <1>1, <1>2, <2>1, <2>3, <3>1
  <2>4. ASSUME NEW v \in Workers, NEW d \in Coroutines, d \in Range(jobs'[v])
        PROVE  /\ waiting'[d] = Null
               /\ \/ phase'[d] = "spawned"
                  \/ phase'[d] \in {"running", "suspended"} /\ home'[d] = v
    <3>1. d \in Range(jobs[v]) =>
            /\ waiting[d] = Null
            /\ \/ phase[d] = "spawned"
               \/ phase[d] \in {"running", "suspended"} /\ home[d] = v
      BY Zenon DEF IInv, QueueInv
    <3> QED BY Zenon, <1>1, <1>2, <2>1, <2>4, <3>1
  <2> QED BY Zenon, <2>2, <2>3, <2>4 DEF QueueInv
<1>9. /\ Range(jobs'[w]) = Range(jobs[w]) \cup {c}
      /\ \A d \in Coroutines : d # c => (Queued(d)' <=> Queued(d))
  <2>1. Range(jobs'[w]) = Range(jobs[w]) \cup {c}
    BY <1>1, <1>2, AppendElements DEF IInv, TypeOK, QueueInv
  <2> QED BY Zenon, <1>1, <1>2, <2>1 DEF Queued
<1>5. ThreadInv'
  <2> SUFFICES ASSUME NEW u \in Threads PROVE ThreadOK(u)'
    BY Zenon DEF ThreadInv
  <2>1. ThreadOK(u)
    BY Zenon DEF IInv, ThreadInv
  <2>2. CASE at[u].pc \in {"resume", "running"}
    <3>1. at[u].co \in Coroutines /\ at[u].co # c
      BY <1>1, <2>1, <2>2 DEF ThreadOK
    <3> QED BY Zenon, <1>2, <1>9, <2>1, <2>2, <3>1 DEF ThreadOK
  <2>3. CASE ~(at[u].pc \in {"resume", "running"})
    BY Zenon, <1>1, <1>2, <2>1, <2>3 DEF ThreadOK
  <2> QED BY Zenon, <2>2, <2>3
<1>6. CoInv'
  <2> SUFFICES ASSUME NEW d \in Coroutines PROVE CoOK(d)'
    BY Zenon DEF CoInv
  <2>1. CoOK(d) /\ home[d] \in Threads \cup {Null}
    BY Zenon DEF IInv, CoInv, TypeOK
  <2>2. CASE d = c
    BY Zenon, <1>1, <1>2, <2>1, <2>2, CoroutineAssumption DEF CoOK
  <2>3. CASE ~(d = c)
    BY Zenon, <1>1, <1>2, <2>1, <2>3, CoroutineAssumption DEF CoOK
  <2> QED BY Zenon, <2>2, <2>3
<1>7. ListInv'
  BY <1>1, <1>2 DEF IInv, ListInv
<1>8. AcceptInv'
  <2> SUFFICES ASSUME NEW d \in Coroutines PROVE AcceptedOK(d)'
    BY Zenon DEF AcceptInv
  <2>1. AcceptedOK(d)
    BY Zenon DEF IInv, AcceptInv
  <2>2. CASE d = c
    BY Zenon, <1>1, <1>2, <2>1, <2>2 DEF AcceptedOK, Queued
  <2>3. CASE ~(d = c)
    BY Zenon, <1>1, <1>2, <2>1, <2>3, <1>9 DEF AcceptedOK
  <2> QED BY Zenon, <2>2, <2>3
<1> QED BY Zenon, <1>3, <1>4, <1>5, <1>6, <1>7, <1>8 DEF IInv

(* The worker takes the first job: its coroutine is in no queue then.       *)
LEMMA TakeHead ==
  ASSUME IInv, NEW w \in Workers, NEW c, c = Head(jobs[w]), jobs[w] # <<>>,
         jobs' = [jobs EXCEPT ![w] = Tail(@)]
  PROVE  /\ c \in Coroutines /\ c \in Range(jobs[w]) /\ waiting[c] = Null /\ accepted[c] = Null
         /\ phase[c] = "spawned" \/ (phase[c] \in {"running", "suspended"} /\ home[c] = w)
         /\ jobs' \in [Workers -> Seq(Coroutines)]
         /\ \A v \in Workers : IsInjective(jobs'[v])
         /\ \A v \in Workers : Range(jobs'[v]) = Range(jobs[v]) \ {c}
<1>1. jobs[w] \in Seq(Coroutines) /\ IsInjective(jobs[w])
  BY Zenon DEF IInv, TypeOK, QueueInv
<1>2. /\ c \in Coroutines /\ c \in Range(jobs[w])
      /\ Tail(jobs[w]) \in Seq(Coroutines) /\ IsInjective(Tail(jobs[w]))
      /\ Range(Tail(jobs[w])) = Range(jobs[w]) \ {c}
  BY Zenon, <1>1, TailElements
<1>3. /\ waiting[c] = Null /\ accepted[c] = Null
      /\ phase[c] = "spawned" \/ (phase[c] \in {"running", "suspended"} /\ home[c] = w)
      /\ \A v \in Workers : v # w => c \notin Range(jobs[v])
      /\ \A v \in Workers : IsInjective(jobs[v])
  BY Zenon, <1>2 DEF IInv, QueueInv, AcceptInv, AcceptedOK, Queued
<1>4. jobs' \in [Workers -> Seq(Coroutines)] /\ jobs'[w] = Tail(jobs[w])
  BY Zenon, <1>2 DEF IInv, TypeOK
<1>5. \A v \in Workers : v # w => jobs'[v] = jobs[v]
  BY Zenon DEF IInv, TypeOK
<1> QED BY Zenon, <1>2, <1>3, <1>4, <1>5

(* sResumeJob.                                                              *)
LEMMA ResumeJobInv ==
  ASSUME IInv, NEW w \in Workers, NEW c, c = Head(jobs[w]), ResumeJob(w)
  PROVE  IInv'
<1>1. /\ at[w].pc = "main" /\ w \in Threads /\ w \notin exited /\ scheduler[w] = Null
      /\ c \in Coroutines /\ c \in Range(jobs[w]) /\ waiting[c] = Null /\ accepted[c] = Null
      /\ home[c] = w /\ phase[c] = "suspended"
  <2>1. jobs[w] # <<>> /\ jobs' = [jobs EXCEPT ![w] = Tail(@)] /\ At(w, "main")
    BY Zenon DEF ResumeJob
  <2>2. /\ c \in Coroutines /\ c \in Range(jobs[w]) /\ waiting[c] = Null /\ accepted[c] = Null
        /\ phase[c] = "spawned" \/ (phase[c] \in {"running", "suspended"} /\ home[c] = w)
    BY Zenon, <2>1, TakeHead
  <2>3. w \in Threads /\ w # Null /\ CoOK(c) /\ \A u \in Threads : ThreadOK(u)
    BY Zenon, <2>2, CoroutineAssumption DEF IInv, CoInv, ThreadInv, Threads
  <2> QED BY Zenon, <2>1, <2>2, <2>3, CoroutineAssumption DEF ResumeJob, At, ThreadOK, CoOK
<1>2. /\ \A v \in Workers : IsInjective(jobs'[v])
      /\ \A v \in Workers : Range(jobs'[v]) = Range(jobs[v]) \ {c}
      /\ jobs' \in [Workers -> Seq(Coroutines)]
      /\ \A u \in Threads : u # w => at'[u] = at[u]
      /\ at'[w] = [pc |-> "resume", co |-> c, prev |-> Null]
      /\ scheduler'[w] = w
      /\ \A u \in Threads : u # w => scheduler'[u] = scheduler[u]
      /\ initialized' = initialized \cup {w}
      /\ UNCHANGED <<phase, home, startRecord, destroys, unstarted, waiting, accepted, exited>>
  <2>1. jobs[w] # <<>> /\ jobs' = [jobs EXCEPT ![w] = Tail(@)]
    BY Zenon DEF ResumeJob
  <2>2. /\ \A u \in Threads : u # w => at'[u] = at[u]
        /\ at'[w] = [pc |-> "resume", co |-> c, prev |-> Null]
        /\ scheduler'[w] = w
        /\ \A u \in Threads : u # w => scheduler'[u] = scheduler[u]
    BY Zenon, <1>1 DEF IInv, TypeOK, ResumeJob, Begin
  <2>3. /\ initialized' = initialized \cup {w}
        /\ UNCHANGED <<phase, home, startRecord, destroys, unstarted, waiting, accepted, exited>>
    BY Zenon DEF ResumeJob, coVars
  <2> QED BY Zenon, <2>1, <2>2, <2>3, TakeHead
<1>3. TypeOK'
  <2>1. [pc |-> "resume", co |-> c, prev |-> Null] \in Places
    BY Zenon, <1>1 DEF Places, PCs
  <2> QED BY Zenon, <1>1, <1>2, <2>1 DEF IInv, TypeOK, ResumeJob, Begin
<1>4. QueueInv'
  BY <1>1, <1>2 DEF IInv, QueueInv
<1>5. ThreadInv'
  <2> SUFFICES ASSUME NEW u \in Threads PROVE ThreadOK(u)'
    BY Zenon DEF ThreadInv
  <2>1. ThreadOK(u)
    BY Zenon DEF IInv, ThreadInv
  <2>2. CASE u = w
    BY <1>1, <1>2, <2>1, <2>2 DEF ThreadOK, Queued
  <2>3. CASE ~(u = w)
    BY Zenon, <1>1, <1>2, <2>1, <2>3 DEF ThreadOK, Queued
  <2> QED BY Zenon, <2>2, <2>3
<1>6. CoInv'
  <2> SUFFICES ASSUME NEW d \in Coroutines PROVE CoOK(d)'
    BY Zenon DEF CoInv
  <2>1. CoOK(d) /\ home[d] \in Threads \cup {Null}
    BY Zenon DEF IInv, CoInv, TypeOK
  <2>2. CASE home[d] = w
    BY Zenon, <1>1, <1>2, <2>1, <2>2, CoroutineAssumption DEF CoOK
  <2>3. CASE ~(home[d] = w)
    BY Zenon, <1>1, <1>2, <2>1, <2>3, CoroutineAssumption DEF CoOK
  <2> QED BY Zenon, <2>2, <2>3
<1>7. ListInv'
  BY <1>1, <1>2 DEF IInv, ListInv
<1>8. AcceptInv'
  <2> SUFFICES ASSUME NEW d \in Coroutines PROVE AcceptedOK(d)'
    BY Zenon DEF AcceptInv
  <2>1. AcceptedOK(d)
    BY Zenon DEF IInv, AcceptInv
  <2>2. CASE d = c
    BY Zenon, <1>1, <1>2, <2>1, <2>2 DEF AcceptedOK, Queued
  <2>3. CASE ~(d = c)
    BY <1>1, <1>2, <2>1, <2>3 DEF AcceptedOK, Queued
  <2> QED BY Zenon, <2>2, <2>3
<1> QED BY Zenon, <1>3, <1>4, <1>5, <1>6, <1>7, <1>8 DEF IInv

(* sSpawnJob, when the coroutine is created.                                *)
LEMMA SpawnStartedInv ==
  ASSUME IInv, NEW w \in Workers, NEW c, c = Head(jobs[w]), SpawnJob(w),
         phase'[c] = "unstarted"
  PROVE  IInv'
<1>1. /\ at[w].pc = "main" /\ w \in Threads /\ w \notin exited /\ scheduler[w] = Null
      /\ c \in Coroutines /\ c \in Range(jobs[w]) /\ waiting[c] = Null /\ accepted[c] = Null
      /\ home[c] = Null /\ phase[c] = "spawned" /\ w # Null
      /\ \A u \in Threads : c \notin Range(unstarted[u])
      /\ \A u \in Threads : at[u].pc # "main" => at[u].co # c
  <2>1. jobs[w] # <<>> /\ jobs' = [jobs EXCEPT ![w] = Tail(@)] /\ At(w, "main")
    BY Zenon DEF SpawnJob
  <2>2. /\ c \in Coroutines /\ c \in Range(jobs[w]) /\ waiting[c] = Null /\ accepted[c] = Null
        /\ phase[c] = "spawned" \/ (phase[c] \in {"running", "suspended"} /\ home[c] = w)
    BY ZenonT(30), <2>1, TakeHead
  <2>3. w \in Threads /\ w # Null /\ CoOK(c) /\ \A u \in Threads : ThreadOK(u)
    BY Zenon, <2>2, CoroutineAssumption DEF IInv, CoInv, ThreadInv, Threads
  <2>4. phase[c] = "spawned" /\ at[w].pc = "main" /\ home[c] = Null
    BY Zenon, <2>1, <2>3 DEF SpawnJob, At, CoOK
  <2>5. scheduler[w] = Null
    BY Zenon, <2>3, <2>4 DEF ThreadOK
  <2>6. \A u \in Threads : c \notin Range(unstarted[u])
    BY Zenon, <2>2, <2>4 DEF IInv, ListInv
  <2>7. \A u \in Threads : at[u].pc # "main" => at[u].co # c
    <3>1. ASSUME NEW u \in Threads, at[u].pc # "main", at[u].co = c PROVE FALSE
      <4>1. home[c] = u
        BY Zenon, <2>3, <3>1 DEF ThreadOK
      <4>2. Null \notin Threads
        BY Zenon, CoroutineAssumption
      <4> QED BY Zenon, <2>4, <4>1, <4>2
    <3> QED BY Zenon, <3>1
  <2>8. w \notin exited
    BY <2>1 DEF SpawnJob, At
  <2> QED BY Zenon, <2>2, <2>3, <2>4, <2>5, <2>6, <2>7, <2>8
<1>2. /\ \A v \in Workers : IsInjective(jobs'[v])
      /\ \A v \in Workers : Range(jobs'[v]) = Range(jobs[v]) \ {c}
      /\ jobs' \in [Workers -> Seq(Coroutines)]
      /\ \A u \in Threads : u # w => at'[u] = at[u]
      /\ at'[w] = [pc |-> "resume", co |-> c, prev |-> Null]
      /\ scheduler'[w] = w
      /\ \A u \in Threads : u # w => scheduler'[u] = scheduler[u]
      /\ initialized' = initialized \cup {w}
      /\ \A d \in Coroutines : phase'[d] = IF d = c THEN "unstarted" ELSE phase[d]
      /\ \A d \in Coroutines : home'[d] = IF d = c THEN w ELSE home[d]
      /\ \A d \in Coroutines : startRecord'[d] = IF d = c THEN "live" ELSE startRecord[d]
      /\ \A u \in Threads : u # w => unstarted'[u] = unstarted[u]
      /\ unstarted'[w] = <<c>> \o unstarted[w]
      /\ UNCHANGED <<destroys, waiting, accepted, exited>>
  <2>1. jobs[w] # <<>> /\ jobs' = [jobs EXCEPT ![w] = Tail(@)] /\ UNCHANGED <<waiting, accepted, exited>>
    BY Zenon DEF SpawnJob
  <2>2. Created(w, c) /\ scheduler' = [scheduler EXCEPT ![w] = w] /\ Begin(w, c)
    BY Zenon, <1>1 DEF IInv, TypeOK, SpawnJob, Phase
  <2>3. /\ \A u \in Threads : u # w => at'[u] = at[u]
        /\ at'[w] = [pc |-> "resume", co |-> c, prev |-> Null]
        /\ scheduler'[w] = w
        /\ \A u \in Threads : u # w => scheduler'[u] = scheduler[u]
    BY Zenon, <1>1, <2>2 DEF IInv, TypeOK, Begin
  <2>4. /\ \A d \in Coroutines : phase'[d] = IF d = c THEN "unstarted" ELSE phase[d]
        /\ \A d \in Coroutines : home'[d] = IF d = c THEN w ELSE home[d]
        /\ \A d \in Coroutines : startRecord'[d] = IF d = c THEN "live" ELSE startRecord[d]
    BY Zenon, <2>2 DEF IInv, TypeOK, Created, Phase
  <2>5. /\ \A u \in Threads : u # w => unstarted'[u] = unstarted[u]
        /\ unstarted'[w] = <<c>> \o unstarted[w]
    BY Zenon, <1>1, <2>2 DEF IInv, TypeOK, Created
  <2> QED BY ZenonT(30), <2>1, <2>2, <2>3, <2>4, <2>5, TakeHead DEF Created
<1>3. TypeOK'
  <2>1. /\ <<c>> \o unstarted[w] \in Seq(Coroutines)
        /\ [pc |-> "resume", co |-> c, prev |-> Null] \in Places
    BY Zenon, <1>1, ConsElements DEF IInv, TypeOK, ListInv, Places, PCs
  <2>2. Created(w, c) /\ scheduler' = [scheduler EXCEPT ![w] = w] /\ Begin(w, c)
    BY Zenon, <1>1 DEF IInv, TypeOK, SpawnJob, Phase
  <2>3. /\ scheduler' \in [Threads -> Workers \cup {Null}] /\ at' \in [Threads -> Places]
        /\ unstarted' \in [Threads -> Seq(Coroutines)] /\ home' \in [Coroutines -> Threads \cup {Null}]
    BY Zenon, <1>1, <2>1, <2>2 DEF IInv, TypeOK, Created, Begin
  <2>4. /\ phase' \in [Coroutines -> {"none", "spawned", "failed", "unstarted", "running",
                                      "suspended", "ended", "destroyed"}]
        /\ startRecord' \in [Coroutines -> {"none", "live", "freed"}]
        /\ initialized' \subseteq Threads
    BY Zenon, <1>1, <2>2 DEF IInv, TypeOK, Created, Phase
  <2>5. UNCHANGED <<destroys, waiting, accepted, stopped, exited, aborted>>
    BY Zenon, <1>2 DEF SpawnJob
  <2> QED BY Zenon, <1>2, <2>3, <2>4, <2>5 DEF IInv, TypeOK
<1>4. QueueInv'
  <2>1. ASSUME NEW v \in Workers, NEW d \in Coroutines, d \in Range(jobs'[v])
        PROVE  /\ d \in Range(jobs[v]) /\ phase'[d] = phase[d] /\ home'[d] = home[d]
               /\ waiting'[d] = waiting[d]
    <3>1. d \in Range(jobs[v]) /\ d # c
      BY Zenon, <1>2, <2>1
    <3> QED BY Zenon, <1>2, <3>1
  <2>2. \A v, u \in Workers, d \in Coroutines :
          d \in Range(jobs'[v]) /\ d \in Range(jobs'[u]) => v = u
    BY Zenon, <2>1 DEF IInv, QueueInv
  <2>3. \A v \in Workers, d \in Coroutines : d \in Range(jobs'[v]) =>
          /\ waiting'[d] = Null
          /\ phase'[d] = "spawned" \/ (phase'[d] \in {"running", "suspended"} /\ home'[d] = v)
    <3>1. ASSUME NEW v \in Workers, NEW d \in Coroutines, d \in Range(jobs'[v])
          PROVE  /\ waiting'[d] = Null
                 /\ phase'[d] = "spawned" \/ (phase'[d] \in {"running", "suspended"} /\ home'[d] = v)
      <4>1. /\ d \in Range(jobs[v]) /\ phase'[d] = phase[d] /\ home'[d] = home[d]
            /\ waiting'[d] = waiting[d]
        BY Zenon, <2>1, <3>1
      <4>2. /\ waiting[d] = Null
            /\ phase[d] = "spawned" \/ (phase[d] \in {"running", "suspended"} /\ home[d] = v)
        BY Zenon, <4>1 DEF IInv, QueueInv
      <4> QED BY Zenon, <4>1, <4>2
    <3> QED BY Zenon, <3>1
  <2> QED BY Zenon, <1>2, <2>2, <2>3 DEF QueueInv
<1>5. ThreadInv'
  <2> SUFFICES ASSUME NEW u \in Threads PROVE ThreadOK(u)'
    BY Zenon DEF ThreadInv
  <2>1. ThreadOK(u)
    BY Zenon DEF IInv, ThreadInv
  <2>2. CASE u = w
    BY SMTT(30), <1>1, <1>2, <2>1, <2>2 DEF ThreadOK, Queued
  <2>3. CASE ~(u = w)
    BY SMTT(30), <1>1, <1>2, <2>1, <2>3 DEF ThreadOK, Queued
  <2> QED BY Zenon, <2>2, <2>3
<1>6. CoInv'
  <2> SUFFICES ASSUME NEW d \in Coroutines PROVE CoOK(d)'
    BY Zenon DEF CoInv
  <2>1. CoOK(d) /\ home[d] \in Threads \cup {Null}
    BY Zenon DEF IInv, CoInv, TypeOK
  <2>2. CASE d = c
    BY Zenon, <1>1, <1>2, <2>1, <2>2, CoroutineAssumption DEF CoOK
  <2>3. CASE ~(d = c)
    <3>1. home[d] = w => phase[d] \notin {"running", "ended"}
      BY Zenon, <1>1, <2>1 DEF CoOK
    <3>2. /\ home'[d] = home[d] /\ phase'[d] = phase[d] /\ waiting'[d] = waiting[d]
          /\ destroys'[d] = destroys[d]
          /\ home[d] \in Threads /\ home[d] # w => at'[home[d]] = at[home[d]]
      BY Zenon, <1>2, <2>3
    <3> QED BY Zenon, <1>1, <2>1, <3>1, <3>2, CoroutineAssumption DEF CoOK
  <2> QED BY Zenon, <2>2, <2>3
<1>7. ListInv'
  <2>1. IsInjective(unstarted'[w]) /\ Range(unstarted'[w]) = Range(unstarted[w]) \cup {c}
    BY <1>1, <1>2, ConsElements DEF IInv, TypeOK, ListInv
  <2>2. \A u \in Threads : IsInjective(unstarted'[u])
    BY Zenon, <1>1, <1>2, <2>1 DEF IInv, ListInv
  <2>3. ASSUME NEW u \in Threads, NEW d \in Coroutines
        PROVE  d \in Range(unstarted'[u]) <=> home'[d] = u /\ phase'[d] = "unstarted"
    <3>1. d \in Range(unstarted[u]) <=> home[d] = u /\ phase[d] = "unstarted"
      BY Zenon DEF IInv, ListInv
    <3>2. CASE u = w
      BY Zenon, <1>1, <1>2, <2>1, <3>1, <3>2
    <3>3. CASE u # w
      BY <1>1, <1>2, <3>1, <3>3
    <3> QED BY Zenon, <3>2, <3>3
  <2>4. ASSUME NEW d \in Coroutines
        PROVE  /\ startRecord'[d] = "live" <=> phase'[d] = "unstarted"
               /\ phase'[d] = "unstarted" => home'[d] \notin exited'
    <3>1. /\ startRecord[d] = "live" <=> phase[d] = "unstarted"
          /\ phase[d] = "unstarted" => home[d] \notin exited
      BY Zenon DEF IInv, ListInv
    <3> QED BY <1>1, <1>2, <3>1
  <2> QED BY Zenon, <2>2, <2>3, <2>4 DEF ListInv
<1>8. AcceptInv'
  <2> SUFFICES ASSUME NEW d \in Coroutines PROVE AcceptedOK(d)'
    BY Zenon DEF AcceptInv
  <2>1. AcceptedOK(d)
    BY Zenon DEF IInv, AcceptInv
  <2>2. CASE d = c
    BY Zenon, <1>1, <1>2, <2>1, <2>2 DEF AcceptedOK, Queued
  <2>3. CASE ~(d = c)
    <3>1. /\ UNCHANGED <<accepted, waiting>> /\ phase'[d] = phase[d] /\ home'[d] = home[d]
          /\ Queued(d)' => Queued(d)
      BY Zenon, <1>2, <2>3 DEF Queued
    <3>2. \A u \in Threads : at'[u].co = d => u # w /\ at'[u] = at[u]
      BY <1>2, <2>3
    <3> QED BY Zenon, <2>1, <3>1, <3>2 DEF AcceptedOK
  <2> QED BY Zenon, <2>2, <2>3
<1> QED BY Zenon, <1>3, <1>4, <1>5, <1>6, <1>7, <1>8 DEF IInv

(* sSpawnJob, when the creation fails.                                      *)
LEMMA SpawnFailedInv ==
  ASSUME IInv, NEW w \in Workers, NEW c, c = Head(jobs[w]), SpawnJob(w),
         phase'[c] # "unstarted"
  PROVE  IInv'
<1>1. /\ at[w].pc = "main" /\ w \in Threads /\ w \notin exited /\ scheduler[w] = Null
      /\ c \in Coroutines /\ c \in Range(jobs[w]) /\ waiting[c] = Null /\ accepted[c] = Null
      /\ home[c] = Null /\ phase[c] = "spawned"
      /\ \A u \in Threads : at[u].pc # "main" => at[u].co # c
  <2>1. jobs[w] # <<>> /\ jobs' = [jobs EXCEPT ![w] = Tail(@)] /\ At(w, "main")
    BY Zenon DEF SpawnJob
  <2>2. /\ c \in Coroutines /\ c \in Range(jobs[w]) /\ waiting[c] = Null /\ accepted[c] = Null
        /\ phase[c] = "spawned" \/ (phase[c] \in {"running", "suspended"} /\ home[c] = w)
    BY ZenonT(30), <2>1, TakeHead
  <2>3. w \in Threads /\ w # Null /\ CoOK(c) /\ \A u \in Threads : ThreadOK(u)
    BY Zenon, <2>2, CoroutineAssumption DEF IInv, CoInv, ThreadInv, Threads
  <2> QED BY SMTT(30), <2>1, <2>2, <2>3, CoroutineAssumption DEF SpawnJob, At, ThreadOK, CoOK
<1>2. /\ \A v \in Workers : IsInjective(jobs'[v])
      /\ \A v \in Workers : Range(jobs'[v]) = Range(jobs[v]) \ {c}
      /\ jobs' \in [Workers -> Seq(Coroutines)]
      /\ \A d \in Coroutines : phase'[d] = IF d = c THEN "failed" ELSE phase[d]
      /\ Phase(c, "failed") /\ initialized' = initialized \cup {w}
      /\ UNCHANGED <<home, startRecord, destroys, unstarted, scheduler, at, waiting, accepted, exited>>
  <2>1. jobs[w] # <<>> /\ jobs' = [jobs EXCEPT ![w] = Tail(@)] /\ UNCHANGED <<waiting, accepted, exited>>
    BY Zenon DEF SpawnJob
  <2>2. /\ Phase(c, "failed") /\ initialized' = initialized \cup {w}
        /\ UNCHANGED <<home, startRecord, destroys, unstarted, scheduler, at>>
    BY Zenon, <1>1 DEF IInv, TypeOK, SpawnJob, Created, Phase
  <2>3. /\ \A d \in Coroutines : phase'[d] = IF d = c THEN "failed" ELSE phase[d]
    BY Zenon, <2>2 DEF IInv, TypeOK, Phase
  <2> QED BY Zenon, <2>1, <2>2, <2>3, TakeHead
<1>3. TypeOK'
  BY Zenon, <1>1, <1>2 DEF IInv, TypeOK, Phase, SpawnJob
<1>4. QueueInv'
  <2>1. ASSUME NEW v \in Workers, NEW d \in Coroutines, d \in Range(jobs'[v])
        PROVE  /\ d \in Range(jobs[v]) /\ phase'[d] = phase[d] /\ home'[d] = home[d]
               /\ waiting'[d] = waiting[d]
    <3>1. d \in Range(jobs[v]) /\ d # c
      BY Zenon, <1>2, <2>1
    <3> QED BY Zenon, <1>2, <3>1
  <2>2. \A v, u \in Workers, d \in Coroutines :
          d \in Range(jobs'[v]) /\ d \in Range(jobs'[u]) => v = u
    BY Zenon, <2>1 DEF IInv, QueueInv
  <2>3. \A v \in Workers, d \in Coroutines : d \in Range(jobs'[v]) =>
          /\ waiting'[d] = Null
          /\ phase'[d] = "spawned" \/ (phase'[d] \in {"running", "suspended"} /\ home'[d] = v)
    <3>1. ASSUME NEW v \in Workers, NEW d \in Coroutines, d \in Range(jobs'[v])
          PROVE  /\ waiting'[d] = Null
                 /\ phase'[d] = "spawned" \/ (phase'[d] \in {"running", "suspended"} /\ home'[d] = v)
      <4>1. /\ d \in Range(jobs[v]) /\ phase'[d] = phase[d] /\ home'[d] = home[d]
            /\ waiting'[d] = waiting[d]
        BY Zenon, <2>1, <3>1
      <4>2. /\ waiting[d] = Null
            /\ phase[d] = "spawned" \/ (phase[d] \in {"running", "suspended"} /\ home[d] = v)
        BY Zenon, <4>1 DEF IInv, QueueInv
      <4> QED BY Zenon, <4>1, <4>2
    <3> QED BY Zenon, <3>1
  <2> QED BY Zenon, <1>2, <2>2, <2>3 DEF QueueInv
<1>5. ThreadInv'
  <2> SUFFICES ASSUME NEW u \in Threads PROVE ThreadOK(u)'
    BY Zenon DEF ThreadInv
  <2>1. ThreadOK(u)
    BY Zenon DEF IInv, ThreadInv
  <2>2. CASE at[u].pc = "main"
    BY Zenon, <1>1, <1>2, <2>1, <2>2 DEF ThreadOK, Queued
  <2>3. CASE ~(at[u].pc = "main")
    BY Zenon, <1>1, <1>2, <2>1, <2>3 DEF ThreadOK, Queued
  <2> QED BY Zenon, <2>2, <2>3
<1>6. CoInv'
  <2> SUFFICES ASSUME NEW d \in Coroutines PROVE CoOK(d)'
    BY Zenon DEF CoInv
  <2>1. CoOK(d) /\ home[d] \in Threads \cup {Null}
    BY Zenon DEF IInv, CoInv, TypeOK
  <2>2. CASE d = c
    BY Zenon, <1>1, <1>2, <2>1, <2>2, CoroutineAssumption DEF CoOK
  <2>3. CASE ~(d = c)
    BY Zenon, <1>1, <1>2, <2>1, <2>3, CoroutineAssumption DEF CoOK
  <2> QED BY Zenon, <2>2, <2>3
<1>7. ListInv'
  <2>1. \A d \in Coroutines : phase'[d] = "unstarted" <=> phase[d] = "unstarted"
    BY Zenon, <1>1, <1>2
  <2> QED BY ZenonT(30), <1>2, <2>1 DEF IInv, ListInv
<1>8. AcceptInv'
  <2> SUFFICES ASSUME NEW d \in Coroutines PROVE AcceptedOK(d)'
    BY Zenon DEF AcceptInv
  <2>1. AcceptedOK(d)
    BY Zenon DEF IInv, AcceptInv
  <2>2. CASE d = c
    BY Zenon, <1>1, <1>2, <2>1, <2>2 DEF AcceptedOK, Queued
  <2>3. CASE ~(d = c)
    BY Zenon, <1>1, <1>2, <2>1, <2>3 DEF AcceptedOK, Queued
  <2> QED BY Zenon, <2>2, <2>3
<1> QED BY Zenon, <1>3, <1>4, <1>5, <1>6, <1>7, <1>8 DEF IInv

(* sFreeThreadState, on a thread that resumes nothing.                      *)
LEMMA FreeInv ==
  ASSUME IInv, NEW t \in Threads, at[t].pc = "main", FreeThreadState(t), t \notin exited,
         UNCHANGED <<waiting, accepted, at, jobs>>, exited' = exited \/ exited' = exited \cup {t},
         UNCHANGED <<stopped, aborted>>
  PROVE  IInv'
<1>1. /\ \A d \in Coroutines : d \in Reclaimed(t) <=> home[d] = t /\ phase[d] = "unstarted"
      /\ \A u \in Threads : at[u].pc # "main" => at[u].co \notin Reclaimed(t)
  BY DEF IInv, ListInv, Reclaimed, ThreadInv, ThreadOK
<1>2. /\ \A d \in Coroutines : phase'[d] = IF d \in Reclaimed(t) THEN "destroyed" ELSE phase[d]
      /\ \A d \in Coroutines : destroys'[d] = IF d \in Reclaimed(t) THEN destroys[d] + 1 ELSE destroys[d]
      /\ \A d \in Coroutines : startRecord'[d] = IF d \in Reclaimed(t) THEN "freed" ELSE startRecord[d]
      /\ \A u \in Threads : u # t => unstarted'[u] = unstarted[u]
      /\ unstarted'[t] = <<>> /\ initialized' = initialized \ {t}
      /\ UNCHANGED <<home, scheduler, waiting, accepted, at, jobs>>
  BY DEF IInv, TypeOK, FreeThreadState
<1>3. TypeOK'
  BY DEF IInv, TypeOK, FreeThreadState
<1>4. QueueInv'
  <2>1. \A v \in Workers : IsInjective(jobs[v])
    BY Zenon DEF IInv, QueueInv
  <2>2. \A v \in Workers : IsInjective(jobs'[v])
    BY Zenon, <1>1, <1>2, <2>1 DEF IInv, QueueInv
  <2>3. ASSUME NEW v \in Workers, NEW x \in Workers, NEW d \in Coroutines,
               d \in Range(jobs'[v]), d \in Range(jobs'[x])
        PROVE  v = x
    <3>1. d \in Range(jobs[v]) /\ d \in Range(jobs[x]) => v = x
      BY Zenon DEF IInv, QueueInv
    <3> QED BY Zenon, <1>1, <1>2, <2>1, <2>3, <3>1
  <2>4. ASSUME NEW v \in Workers, NEW d \in Coroutines, d \in Range(jobs'[v])
        PROVE  /\ waiting'[d] = Null
               /\ \/ phase'[d] = "spawned"
                  \/ phase'[d] \in {"running", "suspended"} /\ home'[d] = v
    <3>1. d \in Range(jobs[v]) =>
            /\ waiting[d] = Null
            /\ \/ phase[d] = "spawned"
               \/ phase[d] \in {"running", "suspended"} /\ home[d] = v
      BY Zenon DEF IInv, QueueInv
    <3> QED BY Zenon, <1>1, <1>2, <2>1, <2>4, <3>1
  <2> QED BY Zenon, <2>2, <2>3, <2>4 DEF QueueInv
<1>5. ThreadInv'
  <2> SUFFICES ASSUME NEW u \in Threads PROVE ThreadOK(u)'
    BY Zenon DEF ThreadInv
  <2>1. ThreadOK(u)
    BY Zenon DEF IInv, ThreadInv
  <2>2. CASE at[u].pc = "main"
    BY Zenon, <1>1, <1>2, <2>1, <2>2 DEF ThreadOK, Queued
  <2>3. CASE ~(at[u].pc = "main")
    BY SMTT(30), <1>1, <1>2, <2>1, <2>3 DEF ThreadOK, Queued
  <2> QED BY Zenon, <2>2, <2>3
<1>6. CoInv'
  <2> SUFFICES ASSUME NEW d \in Coroutines PROVE CoOK(d)'
    BY Zenon DEF CoInv
  <2>1. CoOK(d) /\ home[d] \in Threads \cup {Null}
    BY Zenon DEF IInv, CoInv, TypeOK
  <2>2. CASE d \in Reclaimed(t)
    <3>1. home[d] = t /\ phase[d] = "unstarted" /\ waiting'[d] = waiting[d]
          /\ home'[d] = home[d] /\ phase'[d] = "destroyed" /\ destroys'[d] = destroys[d] + 1
      BY Zenon, <1>1, <1>2, <2>2
    <3>2. waiting[d] = Null /\ destroys[d] = 0 /\ home[d] # Null
      BY <2>1, <3>1 DEF CoOK
    <3> QED BY SMTT(30), <3>1, <3>2 DEF CoOK
  <2>3. CASE ~(d \in Reclaimed(t))
    BY Zenon, <1>1, <1>2, <2>1, <2>3, CoroutineAssumption DEF CoOK
  <2> QED BY Zenon, <2>2, <2>3
<1>7. ListInv'
  <2>1. IsInjective(unstarted'[t]) /\ Range(unstarted'[t]) = {}
    BY Zenon, <1>2, EmptyElements
  <2>2. \A u \in Threads : IsInjective(unstarted'[u])
    BY Zenon, <1>1, <1>2, <2>1 DEF IInv, ListInv
  <2>3. ASSUME NEW u \in Threads, NEW d \in Coroutines
        PROVE  d \in Range(unstarted'[u]) <=> home'[d] = u /\ phase'[d] = "unstarted"
    <3>1. d \in Range(unstarted[u]) <=> home[d] = u /\ phase[d] = "unstarted"
      BY Zenon DEF IInv, ListInv
    <3>2. CASE u = t
      BY Zenon, <1>1, <1>2, <2>1, <3>1, <3>2
    <3>3. CASE u # t
      BY Zenon, <1>1, <1>2, <3>1, <3>3
    <3> QED BY Zenon, <3>2, <3>3
  <2>4. ASSUME NEW d \in Coroutines
        PROVE  /\ startRecord'[d] = "live" <=> phase'[d] = "unstarted"
               /\ phase'[d] = "unstarted" => home'[d] \notin exited'
    BY <1>1, <1>2 DEF IInv, ListInv
  <2> QED BY Zenon, <2>2, <2>3, <2>4 DEF ListInv
<1>8. AcceptInv'
  <2> SUFFICES ASSUME NEW d \in Coroutines PROVE AcceptedOK(d)'
    BY Zenon DEF AcceptInv
  <2>1. AcceptedOK(d)
    BY Zenon DEF IInv, AcceptInv
  <2>2. CASE d \in Reclaimed(t)
    BY <1>1, <1>2, <2>1, <2>2 DEF AcceptedOK, Queued
  <2>3. CASE ~(d \in Reclaimed(t))
    BY <1>1, <1>2, <2>1, <2>3 DEF AcceptedOK, Queued
  <2> QED BY Zenon, <2>2, <2>3
<1> QED BY Zenon, <1>3, <1>4, <1>5, <1>6, <1>7, <1>8 DEF IInv

(* Stopping a scheduler, and stuttering, change nothing the invariant is    *)
(* about.                                                                   *)
LEMMA StutterInv ==
  ASSUME IInv, UNCHANGED <<coVars, threadVars, waiting, accepted, at, jobs, exited, aborted>>,
         stopped' \subseteq Workers
  PROVE  IInv'
<1>0. /\ UNCHANGED <<phase, home, startRecord, destroys, waiting, accepted, at, jobs, exited, aborted>>
      /\ UNCHANGED <<initialized, unstarted, scheduler>>
  BY Zenon DEF coVars, threadVars
<1>1. TypeOK' /\ QueueInv'
  BY <1>0 DEF IInv, TypeOK, QueueInv
<1>2. ThreadInv'
  BY <1>0 DEF IInv, ThreadInv, ThreadOK, Queued
<1>3. CoInv'
  BY <1>0 DEF IInv, CoInv, CoOK
<1>4. ListInv' /\ AcceptInv'
  BY <1>0 DEF IInv, ListInv, AcceptInv, AcceptedOK, Queued
<1> QED BY Zenon, <1>1, <1>2, <1>3, <1>4 DEF IInv

(* Every step keeps the invariant.                                          *)
LEMMA NextInv == IInv /\ [Next]_vars => IInv'
<1> SUFFICES ASSUME IInv, [Next]_vars PROVE IInv'
  OBVIOUS
<1>1. CASE UNCHANGED vars \/ Finished \/ \E w \in Workers : Stop(w)
  <2>1. UNCHANGED <<coVars, threadVars, waiting, accepted, at, jobs, exited, aborted>>
    BY Zenon, <1>1 DEF vars, Finished, Stop
  <2>2. stopped' \subseteq Workers
    BY Zenon, <1>1 DEF IInv, TypeOK, vars, Finished, Stop
  <2> QED BY Zenon, <2>1, <2>2, StutterInv
<1>2. ASSUME NEW t \in Threads, Step(t) PROVE IInv'
  BY Zenon, <1>2, SwitchInv, AwaitInv, YieldInv, ExitInv, AfterResumeInv DEF Step
<1>3. ASSUME NEW t \in Threads, ThreadCleanup(t) \/ ThreadExit(t) PROVE IInv'
  <2>1. /\ at[t].pc = "main" /\ t \notin exited /\ FreeThreadState(t)
        /\ UNCHANGED <<waiting, accepted, at, jobs, stopped, aborted>> /\ (exited' = exited \/ exited' = exited \cup {t})
    BY Zenon, <1>3 DEF ThreadCleanup, ThreadExit, At
  <2> QED BY Zenon, <2>1, FreeInv
<1>4. ASSUME NEW t \in Threads, NEW c \in Coroutines, Create(t, c) \/ Resume(t, c) PROVE IInv'
  BY Zenon, <1>4, CreateInv, CreateFailedInv, ResumeInv DEF Create
<1>5. ASSUME NEW w \in Workers, NEW c \in Coroutines, Spawn(w, c) PROVE IInv'
  BY Zenon, <1>5, SpawnInv
<1>6. ASSUME NEW c \in Coroutines, SubmitResume(c) \/ Insert(c) PROVE IInv'
  BY Zenon, <1>6, SubmitResumeInv, InsertInv
<1>7. ASSUME NEW w \in Workers, TakeJob(w) PROVE IInv'
  BY Zenon, <1>7, ResumeJobInv, SpawnStartedInv, SpawnFailedInv DEF TakeJob
<1> QED BY Zenon, <1>1, <1>2, <1>3, <1>4, <1>5, <1>6, <1>7 DEF Next

(* The invariant holds in every state coroutines can reach.                 *)
THEOREM Invariance == Spec => []IInv
<1> QED BY InitInv, NextInv, PTL DEF Spec

(* Every variable keeps its type.                                           *)
THEOREM TypeCorrect == Spec => []TypeOK
<1>1. IInv => TypeOK
  BY Zenon DEF IInv
<1> QED BY <1>1, Invariance, PTL

(* aco_resume is only called for a coroutine of this thread that is         *)
(* unstarted or suspended, whatever wakes it and when.                      *)
THEOREM HomeResumption == Spec => []ResumedAtHome
<1>1. IInv => ResumedAtHome
  BY Zenon DEF IInv, ThreadInv, ThreadOK, ResumedAtHome, At
<1> QED BY <1>1, Invariance, PTL

(* The current scheduler is the running job's, and none outside a job; a    *)
(* waiter, and a wake-up being submitted, name the scheduler of their       *)
(* coroutine's thread.                                                      *)
THEOREM CurrentScheduler == Spec => []SchedulerIsCurrent
<1>1. IInv => SchedulerIsCurrent
  BY Zenon, CoroutineAssumption
     DEF IInv, ThreadInv, ThreadOK, CoInv, CoOK, AcceptInv, AcceptedOK, SchedulerIsCurrent, At, Threads
<1> QED BY <1>1, Invariance, PTL

(* No coroutine is destroyed twice, nor while a waiter, a submitter or a     *)
(* queue has it.                                                            *)
THEOREM OneDestruction == Spec => []DestroyedOnce
<1>1. ASSUME IInv, NEW c \in Coroutines
      PROVE  /\ destroys[c] = IF phase[c] = "destroyed" THEN 1 ELSE 0
             /\ phase[c] = "destroyed" =>
                  /\ waiting[c] = Null /\ accepted[c] = Null
                  /\ \A w \in Workers : c \notin Range(jobs[w])
             /\ home[c] \in exited => phase[c] \in {"suspended", "destroyed"}
  <2>1. CoOK(c)
    BY Zenon, <1>1 DEF IInv, CoInv
  <2>2. phase[c] = "destroyed" => accepted[c] = Null /\ \A w \in Workers : c \notin Range(jobs[w])
    BY Zenon, <1>1 DEF IInv, QueueInv, AcceptInv, AcceptedOK
  <2>3. home[c] \in Threads \cup {Null} /\ (phase[c] = "unstarted" => home[c] \notin exited)
    BY Zenon, <1>1 DEF IInv, TypeOK, ListInv
  <2>4. \A t \in Threads : at[t].pc # "main" => t \notin exited
    BY Zenon, <1>1 DEF IInv, ThreadInv, ThreadOK
  <2>5. exited \subseteq Threads /\ Null \notin exited
    BY Zenon, <1>1, CoroutineAssumption DEF IInv, TypeOK
  <2>6. phase[c] \in {"none", "spawned", "failed", "unstarted", "running", "suspended", "ended",
                      "destroyed"}
    BY Zenon, <1>1 DEF IInv, TypeOK
  <2> QED BY Zenon, <2>1, <2>2, <2>3, <2>4, <2>5, <2>6 DEF CoOK
<1>2. IInv => DestroyedOnce
  BY Zenon, <1>1 DEF DestroyedOnce
<1> QED BY <1>2, Invariance, PTL
=============================================================================
