----------------------------- MODULE PoolProofs -----------------------------
(***************************************************************************)
(* Proofs about the scheduler pool, for any number of workers, any range   *)
(* of the round-robin counter, any set of submitters and any bounds on the *)
(* calls.                                                                  *)
(*                                                                         *)
(* The invariant IInv of Pool is shown inductive, one lemma per action.    *)
(* In each, <1>1 says what the action does to the calls under way, and one *)
(* step for each conjunct follows.                                         *)
(***************************************************************************)
EXTENDS Pool, TLAPS

(* The round-robin turn: what % says of a counter and of the next one.      *)
LEMMA ModRange ==
  ASSUME NEW n \in Nat, NEW d \in Nat \ {0}
  PROVE  n % d \in 0..(d-1)
  OBVIOUS

LEMMA ModSmall ==
  ASSUME NEW d \in Nat \ {0}, NEW n \in 0..(d-1)
  PROVE  n % d = n
  OBVIOUS

LEMMA DivMod ==
  ASSUME NEW n \in Nat, NEW d \in Nat \ {0}
  PROVE  n \div d \in Int /\ n = d * (n \div d) + (n % d)
  OBVIOUS

LEMMA Multiples ==
  ASSUME NEW d \in Nat \ {0}, NEW a \in Int, NEW b \in Int, a < b
  PROVE  d * a + d <= d * b
<1>1. PICK k \in Int : b = a + 1 + k /\ k >= 0
  <2> WITNESS b - a - 1 \in Int
  <2> QED OBVIOUS
<1>2. d * b = d * a + d + d * k
  BY <1>1
<1>3. d * k >= 0
  BY <1>1
<1>4. d * b \in Int /\ d * a \in Int /\ d * k \in Int
  BY <1>1
<1> QED BY <1>2, <1>3, <1>4

LEMMA ModSucc ==
  ASSUME NEW n \in Nat, NEW d \in Nat \ {0}
  PROVE  (n+1) % d = IF (n % d) + 1 = d THEN 0 ELSE (n % d) + 1
<1> DEFINE q == n \div d
           p == (n+1) \div d
           r == n % d
           s == (n+1) % d
<1>1. q \in Int /\ p \in Int /\ r \in 0..(d-1) /\ s \in 0..(d-1)
  BY DivMod, ModRange
<1>2. n = d*q + r /\ n + 1 = d*p + s
  BY DivMod
<1>3. d*q \in Int /\ d*p \in Int
  BY <1>1
<1>4. q < p => d*q + d <= d*p
  BY <1>1, Multiples
<1>5. p < q => d*p + d <= d*q
  BY <1>1, Multiples
<1> HIDE DEF q, p, r, s
<1>6. CASE p = q
  BY <1>1, <1>2, <1>3, <1>6 DEF r, s
<1>7. CASE p < q
  BY <1>1, <1>2, <1>3, <1>5, <1>7
<1>8. CASE q < p
  BY <1>1, <1>2, <1>3, <1>4, <1>8 DEF r, s
<1> QED BY <1>1, <1>6, <1>7, <1>8

-----------------------------------------------------------------------------
(* A control thread enters a loop over the workers ...                      *)
LEMMA EnterCtl ==
  ASSUME TypeOK, NEW c \in Controls, NEW l \in OwnerPCs, NEW n \in 1..Size,
         Enter(c, l, n)
  PROVE  /\ ctl' \in [Controls -> Places]
         /\ ctl'[c].pc = l /\ ctl'[c].at = 0 /\ ctl'[c].end = n
         /\ \A d \in Controls : d # c => ctl'[d] = ctl[d]
  BY PoolAssumption DEF TypeOK, Enter, Workers, Places

(* ... and goes on to the next worker or to what follows the loop.          *)
LEMMA LoopCtl ==
  ASSUME TypeOK, CallInv, NEW c \in Controls, NEW l \in OwnerPCs, NEW after \in OwnerPCs,
         Loop(c, l, after)
  PROVE  /\ ctl' \in [Controls -> Places]
         /\ \/ /\ ctl[c].at + 1 < ctl[c].end /\ ctl'[c].at = ctl[c].at + 1
               /\ ctl'[c].pc = l /\ ctl'[c].end = ctl[c].end
            \/ /\ ctl[c].at + 1 = ctl[c].end /\ ctl'[c].at = 0
               /\ ctl'[c].pc = after /\ ctl'[c].end = Size
         /\ \A d \in Controls : d # c => ctl'[d] = ctl[d]
<1>1. /\ ctl \in [Controls -> Places]
      /\ ctl[c].at \in Workers /\ ctl[c].end \in 1..Size /\ ctl[c].at < ctl[c].end
  BY DEF TypeOK, CallInv, Places
<1>2. CASE ctl[c].at + 1 < ctl[c].end
  <2>1. ctl' = [ctl EXCEPT ![c].pc = l, ![c].at = @ + 1]
    BY <1>2 DEF Loop
  <2>2. ctl[c].at + 1 \in Workers
    BY <1>1, <1>2, PoolAssumption DEF Workers
  <2> QED BY <1>1, <1>2, <2>1, <2>2 DEF Places
<1>3. CASE ~(ctl[c].at + 1 < ctl[c].end)
  <2>1. Enter(c, after, Size)
    BY <1>3 DEF Loop
  <2>2. Size \in 1..Size /\ ctl[c].at + 1 = ctl[c].end
    BY <1>1, <1>3, PoolAssumption DEF Workers
  <2> QED BY <2>1, <2>2, EnterCtl
<1> QED BY <1>2, <1>3

(* A submitter goes on, or returns.                                         *)
LEMMA SendSub ==
  ASSUME TypeOK, NEW s \in Submitters, NEW l \in SubPCs,
         NEW i \in Workers \cup {Robin, OutOfRange}, Send(s, l, i)
  PROVE  /\ sub' \in [Submitters -> Submissions]
         /\ sub'[s].pc = l /\ sub'[s].to = i
         /\ \A u \in Submitters : u # s => sub'[u] = sub[u]
  BY DEF TypeOK, Send, Submissions

LEMMA ReturnSub ==
  ASSUME TypeOK, NEW s \in Submitters, Return(s)
  PROVE  /\ sub' \in [Submitters -> Submissions]
         /\ sub'[s].pc = "idle"
         /\ \A u \in Submitters : u # s => sub'[u] = sub[u]
  BY DEF TypeOK, Return, NoCall, SubPCs, Submissions

(* UfsrvSchedulerPoolCreate establishes the invariant.                      *)
LEMMA InitInv == Init => IInv
<1> SUFFICES ASSUME Init PROVE IInv
  OBVIOUS
<1> USE PoolAssumption DEF Init
<1>0. 0 \in Workers /\ Size \in 1..Size /\ 0 < Size /\ 0 \in 0..(Wrap - 1)
  BY DEF Workers
<1>a. \A c \in Controls : ctl[c].pc = "idle" /\ ctl[c].at = 0 /\ ctl[c].end = Size
  BY Zenon
<1>1. TypeOK
  <2>1. queue \in [Workers -> Seq({"early", "late"})] /\ picked \in [Workers -> Nat]
    OBVIOUS
  <2>2. ctl \in [Controls -> Places]
    BY <1>0 DEF OwnerPCs, Places
  <2>3. sub \in [Submitters -> Submissions]
    BY DEF SubPCs, NoCall, Submissions
  <2> QED BY Zenon, <1>0, <2>1, <2>2, <2>3 DEF TypeOK
<1>2. CallInv
  <2>1. \A s \in Submitters : sub[s].pc = "idle"
    BY DEF NoCall
  <2> QED BY <1>0, <1>a, <2>1 DEF CallInv, Busy, At, Controls
<1>3. WorkerInv
  BY DEF WorkerInv, Range
<1>4. FlagInv
  BY <1>a DEF FlagInv, StartedInv, RunningInv, StoppingInv, Swept, At, Controls
<1>5. ReapInv
  BY <1>a DEF ReapInv, Gone, Controls
<1>6. TurnInv
  <2>1. 0 % Size = 0
    OBVIOUS
  <2> QED BY <2>1 DEF TurnInv, Ahead, Workers
<1> QED BY Zenon, <1>1, <1>2, <1>3, <1>4, <1>5, <1>6 DEF IInv

-----------------------------------------------------------------------------
(* Each conjunct is about a few variables only.                             *)
LEMMA Frame ==
  ASSUME IInv
  PROVE  /\ UNCHANGED <<ctl, sub, freed, crossed>> => CallInv'
         /\ UNCHANGED workerVars => WorkerInv'
         /\ UNCHANGED <<isRunning, up, started, crossed, ctl>> => FlagInv'
         /\ UNCHANGED <<dropped, freed, thread, queue, ctl>> => ReapInv'
         /\ UNCHANGED <<picked, wraps, next>> => TurnInv'
<1> USE DEF IInv
<1>1. UNCHANGED <<ctl, sub, freed, crossed>> => CallInv'
  BY DEF CallInv, Busy, At, Starting, Destroying
<1>2. UNCHANGED workerVars => WorkerInv'
  BY Zenon DEF WorkerInv, workerVars
<1>3. UNCHANGED <<isRunning, up, started, crossed, ctl>> => FlagInv'
  BY DEF FlagInv, StartedInv, RunningInv, StoppingInv, Swept, Busy, At
<1>4. UNCHANGED <<dropped, freed, thread, queue, ctl>> => ReapInv'
  BY DEF ReapInv, Gone
<1>5. UNCHANGED <<picked, wraps, next>> => TurnInv'
  BY DEF TurnInv, Ahead
<1> QED BY Zenon, <1>1, <1>2, <1>3, <1>4, <1>5

(* A submitter's step leaves the control calls alone.                       *)
LEMMA SubCall ==
  ASSUME CallInv, NEW s \in Submitters, UNCHANGED <<ctl, freed, crossed>>,
         sub[s].pc # "idle" \/ ~Destroying,
         sub'[s].pc \in {"submit", "insert"} => sub'[s].to \in Workers,
         \A u \in Submitters : u # s => sub'[u] = sub[u]
  PROVE  CallInv'
<1>1. ~Destroying
  BY Zenon DEF CallInv
<1>2. ~Destroying'
  BY Zenon, <1>1 DEF Destroying
<1>3. \A u \in Submitters : sub'[u].pc \in {"submit", "insert"} => sub'[u].to \in Workers
  BY Zenon DEF CallInv
<1> QED BY Zenon, <1>2, <1>3 DEF CallInv, Busy, At, Starting, Destroying

(* UfsrvSchedulerPoolSubmit and UfsrvSchedulerPoolSubmitTo are called.      *)
LEMMA SubmitInv ==
  ASSUME IInv, NEW s \in Submitters, NEW i \in Workers \cup {Robin, OutOfRange},
         Submit(s, i)
  PROVE  IInv'
<1> USE DEF IInv, Submit, poolVars, workerVars, history
<1>1. sub' \in [Submitters -> Submissions] /\ CallInv'
  BY SendSub, SubCall DEF SubPCs
<1>2. TypeOK'
  BY Zenon, <1>1 DEF TypeOK
<1> QED BY Zenon, Frame, <1>1, <1>2

(* The pool's flag, and the index, say where the job goes.                  *)
LEMMA CheckInv ==
  ASSUME IInv, NEW s \in Submitters, Check(s)
  PROVE  IInv'
<1> USE DEF IInv, poolVars, workerVars, history
<1>a. /\ sub[s].pc = "check" /\ UNCHANGED <<poolVars, workerVars, ctl, dropped, history>>
  BY Zenon DEF Check
<1>1. sub' \in [Submitters -> Submissions] /\ CallInv'
  <2>1. CASE Return(s)
    BY <1>a, <2>1, ReturnSub, SubCall
  <2>2. CASE sub[s].to \in Workers /\ Send(s, "submit", sub[s].to)
    BY <1>a, <2>2, SendSub, SubCall DEF SubPCs
  <2>3. CASE Send(s, "check", Robin) \/ Send(s, "pick", Robin)
    BY <1>a, <2>3, SendSub, SubCall DEF SubPCs
  <2> QED BY Zenon, <2>1, <2>2, <2>3 DEF Check
<1>2. TypeOK'
  BY Zenon, <1>a, <1>1 DEF TypeOK
<1> QED BY Zenon, Frame, <1>a, <1>1, <1>2

(* The fetch_add on next_worker history the worker whose turn it is.          *)
LEMMA PickInv ==
  ASSUME IInv, NEW s \in Submitters, Pick(s)
  PROVE  IInv'
<1> USE PoolAssumption DEF IInv, poolVars, workerVars
<1> DEFINE r == next % Size
<1>a. /\ sub[s].pc = "pick" /\ Send(s, "submit", r)
      /\ next' = (next + 1) % Wrap /\ picked' = [picked EXCEPT ![r] = @ + 1]
      /\ wraps' = IF next + 1 = Wrap THEN wraps + 1 ELSE wraps
      /\ UNCHANGED <<isRunning, freed, workerVars, ctl, dropped, crossed>>
  BY Zenon DEF Pick, FetchAdd
<1>b. next \in 0..(Wrap - 1) /\ picked \in [Workers -> Nat] /\ wraps \in Nat
  BY Zenon DEF TypeOK
<1>n. next \in Nat /\ Size \in Nat \ {0} /\ Wrap \in Nat \ {0}
  BY <1>b
<1>c. r \in 0..(Size - 1) /\ r \in Workers
  BY <1>b, ModRange DEF Workers
<1>d. /\ next + 1 = Wrap => next' = 0
      /\ next + 1 # Wrap => next' = next + 1
  <2>1. next % Wrap = next
    BY <1>b, ModSmall
  <2>2. (next + 1) % Wrap = IF (next % Wrap) + 1 = Wrap THEN 0 ELSE (next % Wrap) + 1
    BY Zenon, <1>n, ModSucc
  <2> QED BY <1>a, <2>1, <2>2
<1>e. next' % Size = IF next + 1 = Wrap \/ r + 1 = Size THEN 0 ELSE r + 1
  <2>1. (next + 1) % Size = IF r + 1 = Size THEN 0 ELSE r + 1
    BY Zenon, <1>n, ModSucc
  <2>2. 0 % Size = 0
    OBVIOUS
  <2> QED BY <1>d, <2>1, <2>2
<1> HIDE DEF r
<1>2. sub' \in [Submitters -> Submissions] /\ CallInv'
  BY <1>a, <1>c, SendSub, SubCall DEF SubPCs
<1>1. TypeOK'
  <2>1. next' \in 0..(Wrap - 1) /\ picked' \in [Workers -> Nat] /\ wraps' \in Nat
    BY <1>a, <1>b, <1>c, <1>d
  <2> QED BY Zenon, <1>a, <1>2, <2>1 DEF TypeOK
<1>3. TurnInv'
  <2> SUFFICES ASSUME NEW i \in Workers, NEW k \in Workers
               PROVE  picked'[i] - picked'[k] <= wraps' + Ahead(i)' - Ahead(k)'
    BY Zenon DEF TurnInv
  <2>1. picked[i] - picked[k] <= wraps + Ahead(i) - Ahead(k)
    BY Zenon DEF TurnInv
  <2>2. /\ picked'[i] = picked[i] + (IF i = r THEN 1 ELSE 0)
        /\ picked'[k] = picked[k] + (IF k = r THEN 1 ELSE 0)
        /\ picked[i] \in Nat /\ picked[k] \in Nat
    BY <1>a, <1>b, <1>c
  <2>3. /\ Ahead(i) = IF i < r THEN 1 ELSE 0
        /\ Ahead(k) = IF k < r THEN 1 ELSE 0
    BY DEF Ahead, r
  <2>4. /\ Ahead(i)' = IF i < next' % Size THEN 1 ELSE 0
        /\ Ahead(k)' = IF k < next' % Size THEN 1 ELSE 0
    BY DEF Ahead
  <2>5. /\ next + 1 = Wrap \/ r + 1 = Size => Ahead(i)' = 0 /\ Ahead(k)' = 0
        /\ ~(next + 1 = Wrap \/ r + 1 = Size) =>
              /\ Ahead(i)' = IF i < r + 1 THEN 1 ELSE 0
              /\ Ahead(k)' = IF k < r + 1 THEN 1 ELSE 0
    BY <1>c, <1>e, <2>4 DEF Workers
  <2> HIDE DEF Ahead
  <2>6. i \in 0..(Size - 1) /\ k \in 0..(Size - 1)
    BY DEF Workers
  <2> QED BY <1>a, <1>b, <1>c, <2>1, <2>2, <2>3, <2>5, <2>6
<1> QED BY Zenon, Frame, <1>a, <1>1, <1>2, <1>3

(* sSubmitToScheduler looks at the worker's flag ...                        *)
LEMMA SubmitCheckInv ==
  ASSUME IInv, NEW s \in Submitters, SubmitCheck(s)
  PROVE  IInv'
<1> USE DEF IInv, poolVars, workerVars, history
<1>a. /\ sub[s].pc = "submit" /\ sub[s].to \in Workers
      /\ UNCHANGED <<poolVars, workerVars, ctl, dropped, history>>
  BY Zenon DEF SubmitCheck, CallInv
<1>1. sub' \in [Submitters -> Submissions] /\ CallInv'
  <2>1. CASE Return(s)
    BY <1>a, <2>1, ReturnSub, SubCall
  <2>2. CASE Send(s, "insert", sub[s].to)
    BY <1>a, <2>2, SendSub, SubCall DEF SubPCs
  <2> QED BY Zenon, <2>1, <2>2 DEF SubmitCheck
<1>2. TypeOK'
  BY Zenon, <1>a, <1>1 DEF TypeOK
<1> QED BY Zenon, Frame, <1>a, <1>1, <1>2

(* ... and inserts the job, which comes early or late.                      *)
LEMMA AppendRange ==
  ASSUME NEW S, NEW q \in Seq(S), NEW j \in S
  PROVE  Append(q, j) \in Seq(S) /\ Range(Append(q, j)) = Range(q) \cup {j}
<1>1. /\ Append(q, j) \in Seq(S) /\ Len(Append(q, j)) = Len(q) + 1
      /\ \A k \in 1..Len(q) : Append(q, j)[k] = q[k]
      /\ Append(q, j)[Len(q) + 1] = j
      /\ DOMAIN q = 1..Len(q) /\ DOMAIN Append(q, j) = 1..(Len(q) + 1)
      /\ Len(q) \in Nat
  OBVIOUS
<1>2. \A x : x \in Range(Append(q, j)) => x \in Range(q) \cup {j}
  BY <1>1 DEF Range
<1>3. \A x : x \in Range(q) \cup {j} => x \in Range(Append(q, j))
  <2>1. Len(q) + 1 \in 1..(Len(q) + 1) /\ \A k \in 1..Len(q) : k \in 1..(Len(q) + 1)
    BY <1>1
  <2> QED BY <1>1, <2>1 DEF Range
<1> QED BY Zenon, <1>1, <1>2, <1>3

LEMMA SubmitInsertInv ==
  ASSUME IInv, NEW s \in Submitters, SubmitInsert(s)
  PROVE  IInv'
<1> USE DEF IInv, poolVars, history
<1> DEFINE i == sub[s].to
           j == IF thread[i] = "loop" THEN "early" ELSE "late"
<1>a. /\ sub[s].pc = "insert" /\ i \in Workers /\ Return(s) /\ ~Destroying
      /\ queue' = [queue EXCEPT ![i] = Append(@, j)]
      /\ UNCHANGED <<poolVars, up, started, joined, thread, ctl, dropped, history>>
  BY DEF SubmitInsert, CallInv
<1>b. /\ queue \in [Workers -> Seq({"early", "late"})] /\ j \in {"early", "late"}
  BY DEF TypeOK
<1>c. /\ queue' \in [Workers -> Seq({"early", "late"})]
      /\ \A k \in Workers : k # i => queue'[k] = queue[k]
      /\ Range(queue'[i]) = Range(queue[i]) \cup {j}
  <2>1. /\ Append(queue[i], j) \in Seq({"early", "late"})
        /\ Range(Append(queue[i], j)) = Range(queue[i]) \cup {j}
    BY <1>a, <1>b, AppendRange
  <2> HIDE DEF i, j
  <2> QED BY <1>a, <1>b, <2>1
<1>1. sub' \in [Submitters -> Submissions] /\ CallInv'
  BY <1>a, ReturnSub, SubCall
<1>2. TypeOK'
  BY Zenon, <1>a, <1>c, <1>1 DEF TypeOK
<1>3. WorkerInv'
  BY <1>a, <1>c DEF WorkerInv
<1>4. ReapInv'
  BY Zenon, <1>a DEF ReapInv, Destroying
<1> QED BY Zenon, Frame, <1>a, <1>1, <1>2, <1>3, <1>4

-----------------------------------------------------------------------------
(* The Stops under way keep what they still have before them ...            *)
LEMMA SweptKept ==
  ASSUME Swept, up' \subseteq up,
         \A c \in Controls : At(c, "stop") => ctl'[c] = ctl[c]
  PROVE  Swept'
  BY Zenon DEF Swept, At

(* ... and nothing runs when there is none.                                 *)
LEMMA SweptDone ==
  ASSUME Swept, \A c \in Controls : ~At(c, "stop")
  PROVE  up = {}
  BY Zenon DEF Swept

(* UfsrvSchedulerPoolStart is called.                                       *)
LEMMA PoolStartInv ==
  ASSUME IInv, PoolStart
  PROVE  IInv'
<1> USE PoolAssumption DEF IInv, poolVars, workerVars, Controls
<1>a. /\ ctl["owner"].pc = "idle" /\ ~freed /\ Enter("owner", "start", Size)
      /\ crossed' = (crossed \/ Busy("stopper"))
      /\ UNCHANGED <<poolVars, workerVars, sub, dropped, picked, wraps>>
  BY Zenon DEF PoolStart, Busy
<1>b. /\ ctl' \in [Controls -> Places]
      /\ ctl'["owner"].pc = "start" /\ ctl'["owner"].at = 0 /\ ctl'["owner"].end = Size
      /\ ctl'["stopper"] = ctl["stopper"]
  BY <1>a, EnterCtl DEF OwnerPCs
<1>c. crossed' \in BOOLEAN /\ (crossed => crossed') /\ (Busy("stopper") => crossed')
  BY Zenon, <1>a
<1>1. TypeOK'
  BY Zenon, <1>a, <1>b, <1>c DEF TypeOK
<1>2. CallInv'
  BY <1>a, <1>b, <1>c DEF CallInv, Busy, At, Starting, Destroying
<1>3. FlagInv'
  <2>1. StartedInv'
    BY <1>a, <1>b DEF FlagInv, StartedInv, At
  <2>2. RunningInv'
    BY <1>a, <1>b, <1>c DEF FlagInv, RunningInv, At, Busy
  <2>3. ~isRunning => Swept'
    BY <1>a, <1>b, SweptKept DEF FlagInv, StoppingInv, At
  <2>4. StoppingInv'
    BY <1>a, <1>b, <2>3 DEF StoppingInv, At
  <2> QED BY Zenon, <2>1, <2>2, <2>4 DEF FlagInv
<1>4. ReapInv'
  BY <1>a, <1>b DEF ReapInv, Gone
<1> QED BY Zenon, Frame, <1>a, <1>1, <1>2, <1>3, <1>4

(* UfsrvSchedulerStart succeeds on a worker.                                *)
LEMMA StartWorkerInv ==
  ASSUME IInv, StartWorker
  PROVE  IInv'
<1> USE PoolAssumption DEF IInv, poolVars, history, Controls
<1> DEFINE i == ctl["owner"].at
<1>a. /\ ctl["owner"].pc = "start" /\ i \notin started /\ i \in Workers
      /\ up' = up \cup {i} /\ started' = started \cup {i}
      /\ thread' = [thread EXCEPT ![i] = "loop"] /\ Loop("owner", "start", "started")
      /\ UNCHANGED <<poolVars, joined, queue, sub, dropped, history>>
  BY DEF StartWorker, At, TypeOK, Places
<1>b. ctl["owner"].end = Size /\ ~freed /\ i \notin joined
  BY <1>a DEF CallInv, At, Busy, TypeOK
<1>c. /\ ~isRunning /\ up \subseteq 0..(i - 1) /\ 0..(i - 1) \subseteq started
      /\ crossed \/ up = 0..(i - 1)
  <2>1. ~isRunning
    BY Zenon, <1>a DEF FlagInv, RunningInv
  <2>2. 0..(i - 1) \subseteq started
    BY Zenon, <1>a DEF FlagInv, StartedInv, At
  <2>3. CASE i = 0
    <3>1. up = {}
      BY <1>a, <2>3 DEF FlagInv, StartedInv, WorkerInv, TypeOK
    <3> QED BY <2>1, <2>2, <2>3, <3>1
  <2>4. CASE i # 0
    BY Zenon, <1>a, <2>1, <2>2, <2>4 DEF FlagInv, StoppingInv, At
  <2> QED BY <2>3, <2>4
<1>d. /\ ctl' \in [Controls -> Places]
      /\ \/ /\ i + 1 < Size /\ ctl'["owner"].at = i + 1
            /\ ctl'["owner"].pc = "start" /\ ctl'["owner"].end = Size
         \/ /\ i + 1 = Size /\ ctl'["owner"].at = 0
            /\ ctl'["owner"].pc = "started" /\ ctl'["owner"].end = Size
      /\ ctl'["stopper"] = ctl["stopper"]
  BY <1>a, <1>b, LoopCtl DEF OwnerPCs
<1>e. thread' \in [Workers -> {"none", "loop", "drain", "exited"}] /\ thread'[i] = "loop"
      /\ \A k \in Workers : k # i => thread'[k] = thread[k]
  BY <1>a DEF TypeOK
<1>f. Busy("stopper") => crossed
  BY <1>a DEF CallInv, Starting
<1> HIDE DEF i
<1>1. TypeOK'
  BY Zenon, <1>a, <1>d, <1>e DEF TypeOK
<1>2. CallInv'
  BY <1>a, <1>b, <1>d, <1>f DEF CallInv, Busy, At, Starting, Destroying, Workers
<1>3. WorkerInv'
  BY <1>a, <1>b, <1>e DEF WorkerInv, TypeOK
<1>4. FlagInv'
  <2>1. /\ i \in Int /\ up' \subseteq 0..i /\ 0..i \subseteq started'
        /\ crossed \/ up' = 0..i
    BY <1>a, <1>c DEF Workers
  <2>2. 0 \in started' /\ started' \subseteq Workers /\ up' \subseteq Workers
    BY <1>a, <2>1 DEF Workers, TypeOK
  <2> HIDE DEF IInv
  <2>3. CASE i + 1 < Size
    <3>1. ctl'["owner"].at - 1 = i /\ ctl'["owner"].pc = "start" /\ ctl'["owner"].at # 0
      BY <1>a, <1>d, <2>1, <2>3 DEF Workers
    <3> QED BY <1>a, <1>c, <2>1, <2>2, <3>1
          DEF FlagInv, StartedInv, RunningInv, StoppingInv, At
  <2>4. CASE i + 1 = Size
    <3>1. i = Size - 1 /\ ctl'["owner"].pc = "started"
      BY <1>d, <2>1, <2>4
    <3>2. started' = Workers /\ (crossed \/ up' = Workers)
      BY <2>1, <2>2, <3>1 DEF Workers
    <3> QED BY <1>a, <1>c, <2>2, <3>1, <3>2
          DEF FlagInv, StartedInv, RunningInv, StoppingInv, At
  <2> QED BY <1>d, <2>3, <2>4
<1>5. ReapInv'
  BY <1>a, <1>b, <1>d DEF ReapInv
<1> QED BY Zenon, Frame, <1>a, <1>1, <1>2, <1>3, <1>4, <1>5

(* UfsrvSchedulerPoolStart raises the pool's flag and returns.              *)
LEMMA PoolStartedInv ==
  ASSUME IInv, PoolStarted
  PROVE  IInv'
<1> USE PoolAssumption DEF IInv, workerVars, history, Controls
<1>a. /\ ctl["owner"].pc = "started" /\ isRunning' = TRUE /\ Enter("owner", "idle", Size)
      /\ UNCHANGED <<next, freed, workerVars, sub, dropped, history>>
  BY Zenon DEF PoolStarted, At
<1>b. /\ ctl' \in [Controls -> Places]
      /\ ctl'["owner"].pc = "idle" /\ ctl'["owner"].at = 0 /\ ctl'["owner"].end = Size
      /\ ctl'["stopper"] = ctl["stopper"]
  BY <1>a, EnterCtl DEF OwnerPCs
<1>c. /\ ~freed /\ (Busy("stopper") => crossed)
      /\ started = Workers /\ (crossed \/ up = Workers)
  BY <1>a DEF CallInv, Busy, Starting, FlagInv, StartedInv, At
<1>1. TypeOK'
  BY Zenon, <1>a, <1>b DEF TypeOK
<1>2. CallInv'
  BY <1>a, <1>b, <1>c DEF CallInv, Busy, At, Starting, Destroying
<1>3. FlagInv'
  <2>1. 0 \in started'
    BY <1>a, <1>c DEF Workers
  <2> HIDE DEF IInv
  <2> QED BY <1>a, <1>b, <1>c, <2>1 DEF FlagInv, StartedInv, RunningInv, StoppingInv, At, Busy
<1>4. ReapInv'
  BY <1>a, <1>b, <1>c DEF ReapInv
<1> QED BY Zenon, Frame, <1>a, <1>1, <1>2, <1>3, <1>4

(* UfsrvSchedulerStart fails on a worker.                                   *)
LEMMA StartFailsInv ==
  ASSUME IInv, StartFails
  PROVE  IInv'
<1> USE PoolAssumption DEF IInv, poolVars, workerVars, history, Controls
<1> DEFINE i == ctl["owner"].at
<1>a. /\ ctl["owner"].pc = "start" /\ i \in Workers
      /\ IF i = 0 THEN Enter("owner", "idle", Size) ELSE Enter("owner", "roll_back", i)
      /\ UNCHANGED <<poolVars, workerVars, sub, dropped, history>>
  BY DEF StartFails, AfterFailure, At, TypeOK, Places
<1>b. ~freed /\ (Busy("stopper") => crossed)
  BY <1>a DEF CallInv, Starting, Busy
<1>c. /\ ctl' \in [Controls -> Places]
      /\ \/ i = 0 /\ ctl'["owner"].pc = "idle" /\ ctl'["owner"].end = Size
         \/ i # 0 /\ ctl'["owner"].pc = "roll_back" /\ ctl'["owner"].end = i
      /\ ctl'["owner"].at = 0 /\ ctl'["stopper"] = ctl["stopper"]
  <2>1. CASE i = 0
    BY <1>a, <2>1, EnterCtl DEF OwnerPCs
  <2>2. CASE i # 0
    <3>1. i \in 1..Size /\ Enter("owner", "roll_back", i)
      BY <1>a, <2>2 DEF Workers
    <3> HIDE DEF i
    <3> QED BY <2>2, <3>1, EnterCtl DEF OwnerPCs
  <2> QED BY <2>1, <2>2
<1> HIDE DEF i
<1>1. TypeOK'
  BY Zenon, <1>a, <1>c DEF TypeOK
<1>2. CallInv'
  BY <1>a, <1>b, <1>c DEF CallInv, Busy, At, Starting, Destroying, Workers
<1>3. FlagInv'
  <2>1. StartedInv'
    BY <1>a, <1>c DEF FlagInv, StartedInv, At
  <2>2. CASE i = 0
    <3>1. RunningInv'
      BY <1>a, <1>c, <2>2 DEF FlagInv, RunningInv, At, Busy
    <3>2. ~isRunning => Swept
      BY <1>a, <2>2 DEF FlagInv, StoppingInv, At, i
    <3>3. ~isRunning => Swept'
      BY <1>a, <1>c, <3>2, SweptKept DEF At
    <3>4. StoppingInv'
      BY <1>a, <1>c, <2>2, <3>3 DEF StoppingInv, At
    <3> QED BY Zenon, <2>1, <3>1, <3>4 DEF FlagInv
  <2>3. CASE i # 0
    <3>1. ~isRunning /\ up \subseteq 0..(i - 1)
      BY <1>a, <2>3 DEF FlagInv, RunningInv, StoppingInv, At, i
    <3>2. RunningInv' /\ StoppingInv'
      BY <1>a, <1>c, <2>3, <3>1 DEF RunningInv, StoppingInv, At
    <3> QED BY Zenon, <2>1, <3>2 DEF FlagInv
  <2> QED BY <2>2, <2>3
<1>4. ReapInv'
  BY <1>a, <1>b, <1>c DEF ReapInv
<1> QED BY Zenon, Frame, <1>a, <1>1, <1>2, <1>3, <1>4

(* Start stops a worker it had started.                                     *)
LEMMA RollBackInv ==
  ASSUME IInv, RollBack
  PROVE  IInv'
<1> USE PoolAssumption DEF IInv, poolVars, history, Controls
<1> DEFINE i == ctl["owner"].at
           n == ctl["owner"].end
<1>a. /\ ctl["owner"].pc = "roll_back" /\ i \in Workers /\ n \in 1..Size
      /\ up' = up \ {i} /\ Loop("owner", "roll_back", "idle")
      /\ UNCHANGED <<poolVars, started, joined, thread, queue, sub, dropped, history>>
  BY DEF RollBack, At, TypeOK, Places
<1>b. ~freed /\ (Busy("stopper") => crossed) /\ ~isRunning /\ up \subseteq i..(n - 1)
  <2>1. ~freed /\ (Busy("stopper") => crossed)
    BY <1>a DEF CallInv, Busy, Starting
  <2>2. ~isRunning
    BY <1>a DEF FlagInv, RunningInv
  <2> QED BY Zenon, <1>a, <2>1, <2>2 DEF FlagInv, StoppingInv, At
<1>c. /\ ctl' \in [Controls -> Places]
      /\ \/ /\ i + 1 < n /\ ctl'["owner"].at = i + 1
            /\ ctl'["owner"].pc = "roll_back" /\ ctl'["owner"].end = n
         \/ /\ i + 1 = n /\ ctl'["owner"].at = 0
            /\ ctl'["owner"].pc = "idle" /\ ctl'["owner"].end = Size
      /\ ctl'["stopper"] = ctl["stopper"]
  <2>1. "roll_back" \in OwnerPCs /\ "idle" \in OwnerPCs
    BY DEF OwnerPCs
  <2> QED BY Zenon, <1>a, <2>1, LoopCtl
<1> HIDE DEF i, n
<1>1. TypeOK'
  <2>1. up' \subseteq Workers
    BY Zenon, <1>a DEF TypeOK
  <2> QED BY Zenon, <1>a, <1>c, <2>1 DEF TypeOK
<1>2. CallInv'
  BY <1>a, <1>b, <1>c DEF CallInv, Busy, At, Starting, Destroying, Workers
<1>3. WorkerInv'
  BY <1>a DEF WorkerInv
<1>4. FlagInv'
  <2>0. ASSUME NEW k \in up' PROVE k \in (i + 1)..(n - 1)
    <3>1. k \in i..(n - 1) /\ k # i /\ i \in 0..(Size - 1) /\ n \in 1..Size
      BY Zenon, <1>a, <1>b, <2>0 DEF Workers
    <3> HIDE DEF IInv
    <3> QED BY <3>1
  <2>1. up' \subseteq (i + 1)..(n - 1)
    BY Zenon, <2>0
  <2>2. StartedInv'
    BY <1>a, <1>c DEF FlagInv, StartedInv, At
  <2>3. i + 1 = n => up' = {}
    BY <1>a, <2>1 DEF Workers
  <2> HIDE DEF IInv
  <2>4. RunningInv' /\ StoppingInv'
    BY <1>a, <1>b, <1>c, <2>1, <2>3 DEF RunningInv, StoppingInv, Swept, At
  <2> QED BY Zenon, <2>2, <2>4 DEF FlagInv
<1>5. ReapInv'
  BY <1>a, <1>b, <1>c DEF ReapInv
<1> QED BY Zenon, Frame, <1>a, <1>1, <1>2, <1>3, <1>4, <1>5

-----------------------------------------------------------------------------
(* UfsrvSchedulerPoolStop is called, by either control thread.              *)
LEMMA PoolStopInv ==
  ASSUME IInv, NEW c \in Controls, PoolStop(c)
  PROVE  IInv'
<1> USE PoolAssumption DEF IInv, workerVars
<1>a. /\ ctl[c].pc = "idle" /\ ~Destroying
      /\ isRunning' = FALSE /\ Enter(c, "stop", Size)
      /\ crossed' = (crossed \/ Starting)
      /\ UNCHANGED <<next, freed, workerVars, sub, dropped, picked, wraps>>
  BY Zenon DEF PoolStop, Busy
<1>b. /\ ctl' \in [Controls -> Places]
      /\ ctl'[c].pc = "stop" /\ ctl'[c].at = 0 /\ ctl'[c].end = Size
      /\ \A d \in Controls : d # c => ctl'[d] = ctl[d]
  BY <1>a, EnterCtl DEF OwnerPCs
<1>c. ctl["owner"].pc \notin {"d_stop", "d_join", "d_reap", "d_wait"} /\ ~freed
  BY <1>a DEF Destroying
<1>d. crossed' \in BOOLEAN /\ (crossed => crossed') /\ (Starting => crossed')
  BY Zenon, <1>a
<1>e. c = "owner" \/ (c = "stopper" /\ ctl'["owner"] = ctl["owner"])
  BY <1>b DEF Controls
<1>1. TypeOK'
  BY Zenon, <1>a, <1>b, <1>d DEF TypeOK
<1>2. CallInv'
  BY <1>a, <1>b, <1>c, <1>d DEF CallInv, Busy, At, Starting, Destroying, Controls
<1>3. FlagInv'
  <2>1. Swept'
    <3>1. up' \subseteq ctl'[c].at..(Size - 1)
      BY <1>a, <1>b DEF TypeOK, Workers
    <3> QED BY Zenon, <1>b, <3>1 DEF Swept, At
  <2>2. RunningInv'
    BY Zenon, <1>a DEF RunningInv
  <2>3. CASE c = "owner"
    <3>1. ctl'["owner"].pc = "stop"
      BY <1>b, <2>3
    <3>2. StartedInv'
      BY <1>a, <3>1 DEF FlagInv, StartedInv, At
    <3>3. StoppingInv'
      BY <2>1, <3>1 DEF StoppingInv, At
    <3> QED BY Zenon, <2>2, <3>2, <3>3 DEF FlagInv
  <2>4. CASE ctl'["owner"] = ctl["owner"]
    <3>1. StartedInv'
      BY <1>a, <1>d, <2>4 DEF FlagInv, StartedInv, At
    <3>2. At("owner", "start") /\ ctl["owner"].at # 0 => ~isRunning /\ Starting
      BY DEF FlagInv, RunningInv, At, Starting
    <3>3. At("owner", "roll_back") => ~isRunning
      BY DEF FlagInv, RunningInv, At
    <3>4. StoppingInv'
      BY <1>a, <1>c, <1>d, <2>1, <2>4, <3>2, <3>3 DEF FlagInv, StoppingInv, At
    <3> QED BY Zenon, <2>2, <3>1, <3>4 DEF FlagInv
  <2> QED BY Zenon, <1>e, <2>3, <2>4
<1>4. ReapInv'
  BY <1>a, <1>b, <1>c DEF ReapInv, Controls
<1> QED BY Zenon, Frame, <1>a, <1>1, <1>2, <1>3, <1>4

(* UfsrvSchedulerStop on a worker.                                          *)
LEMMA StopWorkerInv ==
  ASSUME IInv, NEW c \in Controls, StopWorker(c)
  PROVE  IInv'
<1> USE PoolAssumption DEF IInv, poolVars, history
<1> DEFINE i == ctl[c].at
           after == IF At(c, "stop") THEN "idle" ELSE "d_join"
<1>a. /\ ctl[c].pc \in {"stop", "d_stop"} /\ i \in Workers
      /\ up' = up \ {i} /\ Loop(c, ctl[c].pc, after)
      /\ UNCHANGED <<poolVars, started, joined, thread, queue, sub, dropped, history>>
  BY DEF StopWorker, TypeOK, Places
<1>b. /\ ctl[c].end = Size /\ ~freed /\ after \in OwnerPCs /\ ctl[c].pc \in OwnerPCs
      /\ c = "stopper" => ctl[c].pc = "stop" /\ ~Destroying /\ (Starting => crossed)
      /\ c = "owner" => ~Starting
      /\ ctl["stopper"].pc = "stop" => ctl["owner"].pc # "d_stop"
  BY <1>a DEF CallInv, At, Busy, OwnerPCs, Controls, Starting, Destroying
<1>c. c = "owner" \/ c = "stopper"
  BY DEF Controls
<1>d. /\ ctl' \in [Controls -> Places]
      /\ \/ /\ i + 1 < Size /\ ctl'[c].at = i + 1
            /\ ctl'[c].pc = ctl[c].pc /\ ctl'[c].end = Size
         \/ /\ i + 1 = Size /\ ctl'[c].at = 0
            /\ ctl'[c].pc = after /\ ctl'[c].end = Size
      /\ \A d \in Controls : d # c => ctl'[d] = ctl[d]
  <2> HIDE DEF after
  <2> QED BY ZenonT(30), <1>a, <1>b, LoopCtl
<1>e. \/ ctl[c].pc = "stop" /\ after = "idle"
      \/ ctl[c].pc = "d_stop" /\ after = "d_join"
  <2>1. CASE ctl[c].pc = "stop"
    BY <2>1 DEF At
  <2>2. CASE ctl[c].pc = "d_stop"
    BY <2>2 DEF At
  <2> QED BY Zenon, <1>a, <2>1, <2>2
<1>f. up' \subseteq up /\ i \in Int /\ up \subseteq 0..(Size - 1)
  BY <1>a DEF TypeOK, Workers
<1> HIDE DEF i, after
<1>1. TypeOK'
  BY Zenon, <1>a, <1>d, <1>f DEF TypeOK
<1>2. CallInv'
  <2>1. CASE c = "owner"
    BY SMTT(30), <1>a, <1>b, <1>d, <1>e, <2>1
      DEF CallInv, Busy, At, Starting, Destroying, Controls, Workers
  <2>2. CASE c = "stopper"
    BY SMTT(30), <1>a, <1>b, <1>d, <1>e, <2>2
      DEF CallInv, Busy, At, Starting, Destroying, Controls, Workers
  <2> QED BY <1>c, <2>1, <2>2
<1>3. WorkerInv'
  BY <1>a DEF WorkerInv
<1>4. FlagInv'
  <2>1. CASE ctl[c].pc = "stop"
    <3>1. Swept => Swept'
      <4> SUFFICES ASSUME Swept, up # {} PROVE Swept'
        BY Zenon, <1>f DEF Swept
      <4>1. PICK d \in Controls : At(d, "stop") /\ up \subseteq ctl[d].at..(Size - 1)
        BY Zenon DEF Swept
      <4>2. CASE d = c
        <5>0. ASSUME NEW k \in up' PROVE k \in (i + 1)..(Size - 1)
          <6>1. k \in i..(Size - 1) /\ k # i
            BY Zenon, <1>a, <4>1, <4>2, <5>0 DEF i
          <6> HIDE DEF IInv
          <6> QED BY <1>f, <6>1
        <5>1. up' \subseteq (i + 1)..(Size - 1)
          BY Zenon, <5>0
        <5>2. CASE i + 1 < Size
          <6>1. ctl'[c].at = i + 1 /\ ctl'[c].pc = "stop"
            BY <1>d, <2>1, <5>2
          <6> QED BY Zenon, <5>1, <6>1 DEF Swept, At
        <5>3. CASE i + 1 = Size
          <6>1. up' = {}
            BY <1>f, <5>1, <5>3
          <6> QED BY Zenon, <6>1 DEF Swept
        <5> QED BY Zenon, <1>d, <5>2, <5>3
      <4>3. CASE d # c
        <5>1. ctl'[d] = ctl[d] /\ up' \subseteq ctl[d].at..(Size - 1)
          BY Zenon, <1>d, <1>f, <4>1, <4>3
        <5> QED BY Zenon, <4>1, <5>1 DEF Swept, At
      <4> QED BY Zenon, <4>2, <4>3
    <3>2. CASE c = "owner"
      <4>1. ~isRunning /\ Swept /\ ctl'["owner"].pc \in {"idle", "stop"}
        BY <1>d, <1>e, <2>1, <3>2 DEF FlagInv, RunningInv, StoppingInv, At
      <4>2. StartedInv'
        BY <1>a, <4>1 DEF FlagInv, StartedInv, At
      <4> HIDE DEF IInv
      <4>3. RunningInv' /\ StoppingInv'
        BY <1>a, <3>1, <4>1 DEF RunningInv, StoppingInv, At
      <4> QED BY Zenon, <4>2, <4>3 DEF FlagInv
    <3>3. CASE c = "stopper"
      <4>1. /\ ctl'["owner"] = ctl["owner"] /\ ~Destroying
            /\ Starting => crossed
        BY <1>b, <1>d, <3>3 DEF Controls
      <4>2. StartedInv'
        BY <1>a, <4>1 DEF FlagInv, StartedInv, At, Starting
      <4>3. RunningInv'
        BY <1>a, <2>1, <3>3, <4>1 DEF FlagInv, RunningInv, At, Busy
      <4>4. StoppingInv'
        <5>1. At("owner", "start") \/ At("owner", "roll_back") => crossed
          BY <4>1 DEF Starting, At
        <5> QED BY <1>a, <1>f, <3>1, <4>1, <5>1 DEF FlagInv, StoppingInv, At, Destroying
      <4> QED BY Zenon, <4>2, <4>3, <4>4 DEF FlagInv
    <3> QED BY Zenon, <1>c, <3>2, <3>3
  <2>2. CASE ctl[c].pc = "d_stop"
    <3>1. c = "owner" /\ ~isRunning
      BY <1>b, <1>c, <2>2 DEF FlagInv, RunningInv
    <3>0. ASSUME NEW k \in up' PROVE k \in (i + 1)..(Size - 1)
      <4>1. up \subseteq i..(Size - 1)
        BY Zenon, <2>2, <3>1 DEF FlagInv, StoppingInv, At, i
      <4>2. k \in i..(Size - 1) /\ k # i
        BY Zenon, <1>a, <3>0, <4>1
      <4> HIDE DEF IInv
      <4> QED BY <1>f, <4>2
    <3>2. up' \subseteq (i + 1)..(Size - 1)
      BY Zenon, <3>0
    <3>3. /\ ctl'["owner"].pc \in {"d_stop", "d_join"}
          /\ ctl'["owner"].pc = "d_stop" => ctl'["owner"].at = i + 1
          /\ ctl'["owner"].pc = "d_join" => i + 1 = Size
      BY <1>d, <1>e, <2>2, <3>1
    <3>4. ctl'["owner"].pc = "d_join" => up' = {}
      BY <1>f, <3>2, <3>3
    <3>5. StartedInv'
      BY <1>a, <3>3 DEF FlagInv, StartedInv, At
    <3> HIDE DEF IInv
    <3>6. RunningInv' /\ StoppingInv'
      BY <1>a, <3>1, <3>2, <3>3, <3>4 DEF RunningInv, StoppingInv, Swept, At
    <3> QED BY Zenon, <3>5, <3>6 DEF FlagInv
  <2> QED BY Zenon, <1>a, <2>1, <2>2
<1>5. ReapInv'
  BY <1>a, <1>b, <1>d, <1>e DEF ReapInv, Controls, Destroying
<1> QED BY Zenon, Frame, <1>a, <1>1, <1>2, <1>3, <1>4, <1>5

(* UfsrvSchedulerPoolJoin is called.                                        *)
LEMMA PoolJoinInv ==
  ASSUME IInv, PoolJoin
  PROVE  IInv'
<1> USE PoolAssumption DEF IInv, poolVars, workerVars, history, Controls
<1>a. /\ ctl["owner"].pc = "idle" /\ ~freed /\ Enter("owner", "join", Size)
      /\ UNCHANGED <<poolVars, workerVars, sub, dropped, history>>
  BY Zenon DEF PoolJoin, Busy
<1>b. /\ ctl' \in [Controls -> Places]
      /\ ctl'["owner"].pc = "join" /\ ctl'["owner"].at = 0 /\ ctl'["owner"].end = Size
      /\ ctl'["stopper"] = ctl["stopper"]
  BY <1>a, EnterCtl DEF OwnerPCs
<1>1. TypeOK'
  BY Zenon, <1>a, <1>b DEF TypeOK
<1>2. CallInv'
  <2>1. \A d \in Controls : ctl'[d].at < ctl'[d].end /\ (ctl'[d].pc = "roll_back" \/ ctl'[d].end = Size)
    BY <1>b DEF CallInv, At
  <2>2. ~Starting' /\ ~Destroying'
    BY <1>a, <1>b DEF Starting, Destroying
  <2> QED BY Zenon, <1>a, <1>b, <2>1, <2>2 DEF CallInv, Busy, At
<1>3. FlagInv'
  <2>1. StartedInv' /\ RunningInv'
    BY <1>a, <1>b DEF FlagInv, StartedInv, RunningInv, At, Busy
  <2>2. ~isRunning => Swept'
    BY <1>a, <1>b, SweptKept DEF FlagInv, StoppingInv, At
  <2>3. StoppingInv'
    BY <1>a, <1>b, <2>2 DEF StoppingInv, At
  <2> QED BY Zenon, <2>1, <2>3 DEF FlagInv
<1>4. ReapInv'
  BY <1>a, <1>b DEF ReapInv
<1> QED BY Zenon, Frame, <1>a, <1>1, <1>2, <1>3, <1>4

(* UfsrvSchedulerJoin on a worker: its thread has exited when Join counts   *)
(* it as joined.                                                            *)
LEMMA JoinedAfterExit ==
  ASSUME IInv, NEW i \in Workers, NeedsJoin(i) => thread[i] = "exited"
  PROVE  /\ JoinedAfter(i) \subseteq started
         /\ \A k \in JoinedAfter(i) : thread[k] = "exited"
  BY DEF IInv, TypeOK, WorkerInv, JoinedAfter, NeedsJoin

LEMMA JoinWorkerInv ==
  ASSUME IInv, JoinWorker
  PROVE  IInv'
<1> USE PoolAssumption DEF IInv, poolVars, history
<1> DEFINE i == ctl["owner"].at
           after == IF At("owner", "join") THEN "idle" ELSE "d_reap"
<1>a. /\ ctl["owner"].pc \in {"join", "d_join"} /\ i \in Workers
      /\ joined' = JoinedAfter(i) /\ Loop("owner", ctl["owner"].pc, after)
      /\ UNCHANGED <<poolVars, up, started, thread, queue, sub, dropped, history>>
  BY SMTT(30) DEF JoinWorker, TypeOK, Places, Controls
<1>b. /\ ctl["owner"].end = Size /\ ~freed /\ after \in OwnerPCs
      /\ ctl["owner"].pc \in OwnerPCs /\ "owner" \in Controls
      /\ ctl["owner"].pc = "d_join" => ctl["stopper"].pc = "idle"
  BY <1>a DEF CallInv, At, Busy, OwnerPCs, Controls, Destroying
<1>c. joined' \subseteq started /\ \A k \in joined' : thread[k] = "exited"
  <2>1. NeedsJoin(i) => thread[i] = "exited"
    BY Zenon DEF JoinWorker, NeedsJoin
  <2> QED BY Zenon, <1>a, <2>1, JoinedAfterExit
<1>d. /\ ctl' \in [Controls -> Places]
      /\ \/ /\ i + 1 < Size /\ ctl'["owner"].at = i + 1
            /\ ctl'["owner"].pc = ctl["owner"].pc /\ ctl'["owner"].end = Size
         \/ /\ i + 1 = Size /\ ctl'["owner"].at = 0
            /\ ctl'["owner"].pc = after /\ ctl'["owner"].end = Size
      /\ \A d \in Controls : d # "owner" => ctl'[d] = ctl[d]
  <2> HIDE DEF after
  <2> QED BY ZenonT(30), <1>a, <1>b, LoopCtl
<1>e. \/ ctl["owner"].pc = "join" /\ after = "idle"
      \/ ctl["owner"].pc = "d_join" /\ after = "d_reap"
  <2>1. CASE ctl["owner"].pc = "join"
    BY <2>1 DEF At
  <2>2. CASE ctl["owner"].pc = "d_join"
    BY <2>2 DEF At
  <2> QED BY Zenon, <1>a, <2>1, <2>2
<1>f. ctl'["stopper"] = ctl["stopper"]
  BY Zenon, <1>d DEF Controls
<1> HIDE DEF i, after
<1>1. TypeOK'
  BY Zenon, <1>a, <1>c, <1>d DEF TypeOK
<1>2. CallInv'
  BY SMTT(30), <1>a, <1>b, <1>d, <1>e, <1>f
    DEF CallInv, Busy, At, Starting, Destroying, Controls, Workers
<1>3. WorkerInv'
  BY Zenon, <1>a, <1>c DEF WorkerInv
<1>4. FlagInv'
  <2>1. ctl'["owner"].pc \in {"idle", "join", "d_join", "d_reap"}
    BY Zenon, <1>d, <1>e
  <2>2. isRunning => ctl'["owner"].pc \in {"idle", "join"}
    BY <1>a, <1>d, <1>e DEF FlagInv, RunningInv
  <2>3. StartedInv'
    BY <1>a, <2>1 DEF FlagInv, StartedInv, At
  <2>4. RunningInv'
    BY <1>a, <1>f, <2>1, <2>2 DEF FlagInv, RunningInv, At, Busy
  <2>5. ~isRunning => Swept
    BY <1>a DEF FlagInv, StoppingInv, At
  <2>6. \A d \in Controls : At(d, "stop") => ctl'[d] = ctl[d]
    BY <1>a, <1>d DEF At
  <2>7. ~isRunning => Swept'
    BY Zenon, <1>a, <2>5, <2>6, SweptKept
  <2> HIDE DEF IInv
  <2>8. StoppingInv'
    BY <1>a, <2>1, <2>7 DEF StoppingInv, At
  <2> QED BY Zenon, <2>3, <2>4, <2>8 DEF FlagInv
<1>5. ReapInv'
  <2>1. ctl'["owner"].pc \in {"d_reap", "d_wait"} => ctl'["owner"].at = 0
    BY <1>a, <1>d, <1>e
  <2> QED BY <1>a, <1>b, <2>1 DEF ReapInv, Gone, Workers
<1> QED BY Zenon, Frame, <1>a, <1>1, <1>2, <1>3, <1>4, <1>5

(* UfsrvSchedulerPoolDestroy is called, alone.                              *)
LEMMA PoolDestroyInv ==
  ASSUME IInv, PoolDestroy
  PROVE  IInv'
<1> USE PoolAssumption DEF IInv, workerVars, history, Controls
<1> DEFINE l == IF isRunning THEN "d_stop" ELSE "d_reap"
<1>a. /\ ctl["owner"].pc = "idle" /\ ctl["stopper"].pc = "idle" /\ ~freed
      /\ \A s \in Submitters : sub[s].pc = "idle"
      /\ isRunning' = FALSE /\ Enter("owner", l, Size)
      /\ UNCHANGED <<next, freed, workerVars, sub, dropped, history>>
  BY Zenon DEF PoolDestroy, Busy
<1>b. l \in {"d_stop", "d_reap"} /\ (l = "d_reap" => ~isRunning)
  OBVIOUS
<1> HIDE DEF l
<1>c. /\ ctl' \in [Controls -> Places]
      /\ ctl'["owner"].pc = l /\ ctl'["owner"].at = 0 /\ ctl'["owner"].end = Size
      /\ ctl'["stopper"] = ctl["stopper"]
  BY SMTT(30), <1>a, <1>b, EnterCtl DEF OwnerPCs
<1>1. TypeOK'
  BY Zenon, <1>a, <1>c DEF TypeOK
<1>2. CallInv'
  BY SMTT(30), <1>a, <1>b, <1>c DEF CallInv, Busy, At, Starting, Destroying
<1>3. FlagInv'
  <2>1. up' \subseteq 0..(Size - 1)
    BY <1>a DEF TypeOK, Workers
  <2>2. l = "d_reap" => up' = {}
    <3>1. ~isRunning => Swept
      BY <1>a DEF FlagInv, StoppingInv, At
    <3>2. \A c \in Controls : ~At(c, "stop")
      BY <1>a DEF At
    <3> QED BY Zenon, <1>a, <1>b, <3>1, <3>2, SweptDone
  <2>3. StartedInv'
    BY <1>a, <1>b, <1>c DEF FlagInv, StartedInv, At
  <2> HIDE DEF IInv
  <2>4. RunningInv'
    BY Zenon, <1>a DEF RunningInv
  <2>5. CASE l = "d_stop"
    <3>1. ctl'["owner"].pc = "d_stop" /\ up' \subseteq ctl'["owner"].at..(Size - 1)
      BY Zenon, <1>c, <2>1, <2>5
    <3>2. StoppingInv'
      BY <3>1 DEF StoppingInv, At
    <3> QED BY Zenon, <2>3, <2>4, <3>2 DEF FlagInv
  <2>6. CASE l = "d_reap"
    <3>1. ctl'["owner"].pc = "d_reap" /\ Swept'
      BY Zenon, <1>c, <2>2, <2>6 DEF Swept
    <3>2. StoppingInv'
      BY <3>1 DEF StoppingInv, At
    <3> QED BY Zenon, <2>3, <2>4, <3>2 DEF FlagInv
  <2> QED BY Zenon, <1>b, <2>5, <2>6
<1>4. ReapInv'
  BY <1>a, <1>c DEF ReapInv, Gone, Workers
<1> QED BY Zenon, Frame, <1>a, <1>1, <1>2, <1>3, <1>4

(* UfsrvSchedulerDestroy begins with a worker: Destroy has stopped it, or   *)
(* it was not running.                                                      *)
LEMMA DestroyWorkerInv ==
  ASSUME IInv, DestroyWorker
  PROVE  IInv'
<1> USE PoolAssumption DEF IInv, poolVars, history
<1>a. /\ ctl["owner"].pc = "d_reap" /\ up' \subseteq up
      /\ ctl' = [ctl EXCEPT !["owner"].pc = "d_wait"]
      /\ UNCHANGED <<poolVars, started, joined, thread, queue, sub, dropped, history>>
  BY DEF DestroyWorker, At
<1>b. /\ ctl' \in [Controls -> Places]
      /\ ctl'["owner"].pc = "d_wait" /\ ctl'["owner"].at = ctl["owner"].at
      /\ ctl'["owner"].end = ctl["owner"].end /\ ctl'["stopper"] = ctl["stopper"]
  BY Zenon, <1>a DEF TypeOK, Places, OwnerPCs, Controls
<1>c. ~isRunning /\ ctl["stopper"].pc = "idle" /\ up = {}
  <2>1. ctl["stopper"].pc = "idle"
    BY <1>a DEF CallInv, Busy, Destroying
  <2>2. ~isRunning /\ Swept
    BY <1>a DEF FlagInv, RunningInv, StoppingInv, At
  <2>3. \A c \in Controls : ~At(c, "stop")
    BY <1>a, <2>1 DEF At, Controls
  <2> QED BY Zenon, <2>1, <2>2, <2>3, SweptDone
<1>1. TypeOK'
  BY Zenon, <1>a, <1>b DEF TypeOK
<1>2. CallInv'
  BY <1>a, <1>b DEF CallInv, Busy, At, Starting, Destroying, Controls
<1>3. WorkerInv'
  BY Zenon, <1>a DEF WorkerInv
<1>4. FlagInv'
  <2>1. StartedInv'
    BY <1>a, <1>b DEF FlagInv, StartedInv, At
  <2>2. RunningInv' /\ StoppingInv'
    BY <1>a, <1>b, <1>c DEF RunningInv, StoppingInv, Swept, At
  <2> QED BY Zenon, <2>1, <2>2 DEF FlagInv
<1>5. ReapInv'
  BY <1>a, <1>b DEF ReapInv, Gone
<1> QED BY Zenon, Frame, <1>a, <1>1, <1>2, <1>3, <1>4, <1>5

(* UfsrvSchedulerDestroy has waited for the worker: what it frees with the  *)
(* queue came late, and nothing follows.                                    *)
LEMMA ReapWorkerInv ==
  ASSUME IInv, ReapWorker
  PROVE  IInv'
<1> USE PoolAssumption DEF IInv, history
<1> DEFINE i == ctl["owner"].at
<1>a. /\ ctl["owner"].pc = "d_wait" /\ i \in Workers
      /\ NeedsJoin(i) => thread[i] = "exited"
      /\ joined' = JoinedAfter(i) /\ dropped' = (dropped \/ "early" \in Range(queue[i]))
      /\ queue' = [queue EXCEPT ![i] = <<>>] /\ Loop("owner", "d_reap", "idle")
      /\ freed' = (i + 1 = Size)
      /\ UNCHANGED <<isRunning, next, up, started, thread, sub, history>>
  BY SMTT(30) DEF ReapWorker, At, TypeOK, Places, Controls
<1>b. /\ ctl["owner"].end = Size /\ ~freed /\ ctl["stopper"].pc = "idle"
      /\ \A s \in Submitters : sub[s].pc = "idle"
  BY <1>a DEF CallInv, At, Busy, Destroying, Controls
<1>c. joined' \subseteq started /\ \A k \in joined' : thread[k] = "exited"
  BY Zenon, <1>a, JoinedAfterExit
<1>d. thread[i] \in {"none", "exited"} /\ "early" \notin Range(queue[i])
  <2>1. thread[i] \in {"none", "exited"}
    BY Zenon, <1>a DEF NeedsJoin, WorkerInv
  <2> QED BY Zenon, <1>a, <2>1 DEF WorkerInv
<1>e. /\ queue' \in [Workers -> Seq({"early", "late"})] /\ queue'[i] = <<>>
      /\ \A k \in Workers : k # i => queue'[k] = queue[k]
  BY <1>a DEF TypeOK
<1>f. /\ ctl' \in [Controls -> Places]
      /\ \/ /\ i + 1 < Size /\ ctl'["owner"].at = i + 1
            /\ ctl'["owner"].pc = "d_reap" /\ ctl'["owner"].end = Size
         \/ /\ i + 1 = Size /\ ctl'["owner"].at = 0
            /\ ctl'["owner"].pc = "idle" /\ ctl'["owner"].end = Size
      /\ \A d \in Controls : d # "owner" => ctl'[d] = ctl[d]
  <2>1. "owner" \in Controls /\ "d_reap" \in OwnerPCs /\ "idle" \in OwnerPCs
    BY DEF Controls, OwnerPCs
  <2> QED BY ZenonT(30), <1>a, <1>b, <2>1, LoopCtl
<1>g. ctl'["stopper"] = ctl["stopper"]
  BY Zenon, <1>f DEF Controls
<1>h. ~isRunning /\ up = {}
  <2>1. ~isRunning /\ Swept
    BY <1>a DEF FlagInv, RunningInv, StoppingInv, At
  <2>2. \A c \in Controls : ~At(c, "stop")
    BY <1>a, <1>b DEF At, Controls
  <2> QED BY Zenon, <2>1, <2>2, SweptDone
<1> HIDE DEF i
<1>i. freed' => i + 1 = Size /\ ctl'["owner"].pc = "idle"
  <2>1. freed' => i + 1 = Size
    BY Zenon, <1>a
  <2>2. i + 1 = Size => ~(i + 1 < Size)
    BY <1>a DEF Workers
  <2> QED BY Zenon, <1>f, <2>1, <2>2
<1>1. TypeOK'
  <2>1. freed' \in BOOLEAN
    BY Zenon, <1>a
  <2> QED BY Zenon, <1>a, <1>c, <1>e, <1>f, <2>1 DEF TypeOK
<1>2. CallInv'
  <2>1. \A d \in Controls : d = "owner" \/ d = "stopper"
    BY DEF Controls
  <2>2. \A d \in Controls : ctl'[d].at < ctl'[d].end /\ ctl'[d].end = Size
    BY <1>b, <1>f, <1>g, <2>1 DEF CallInv, At, Workers, Controls
  <2>3. freed' => \A d \in Controls : ctl'[d].pc = "idle"
    BY Zenon, <1>b, <1>g, <1>i, <2>1
  <2> QED BY Zenon, <1>a, <1>b, <1>g, <2>2, <2>3 DEF CallInv, Busy
<1>3. WorkerInv'
  <2>1. "early" \notin Range(<<>>)
    BY DEF Range
  <2> QED BY Zenon, <1>a, <1>c, <1>e, <2>1 DEF WorkerInv
<1>4. FlagInv'
  <2>1. ctl'["owner"].pc \in {"idle", "d_reap"}
    BY Zenon, <1>f
  <2>2. StartedInv'
    BY <1>a, <2>1 DEF FlagInv, StartedInv, At
  <2> HIDE DEF IInv
  <2>3. RunningInv' /\ StoppingInv'
    BY <1>a, <1>h, <2>1 DEF RunningInv, StoppingInv, Swept, At
  <2> QED BY Zenon, <2>2, <2>3 DEF FlagInv
<1>5. ReapInv'
  <2>1. \A k \in Workers : k < i + 1 => Gone(k)'
    <3> SUFFICES ASSUME NEW k \in Workers, k < i + 1 PROVE Gone(k)'
      BY Zenon
    <3>1. k = i \/ k < i
      BY <1>a DEF Workers
    <3>2. k < i => Gone(k)
      BY Zenon, <1>a DEF ReapInv, i
    <3> QED BY Zenon, <1>a, <1>d, <1>e, <3>1, <3>2 DEF Gone
  <2>2. ~dropped'
    BY Zenon, <1>a, <1>d DEF ReapInv
  <2>3. i + 1 = Size => \A k \in Workers : k < i + 1
    BY <1>a DEF Workers
  <2>4. freed' => \A k \in Workers : Gone(k)'
    BY Zenon, <1>i, <2>1, <2>3
  <2>5. ctl'["owner"].pc \in {"d_reap", "d_wait"} => ctl'["owner"].at = i + 1
    BY Zenon, <1>f
  <2> QED BY Zenon, <2>1, <2>2, <2>4, <2>5 DEF ReapInv
<1> QED BY Zenon, Frame, <1>a, <1>1, <1>2, <1>3, <1>4, <1>5

-----------------------------------------------------------------------------
(* A worker's thread runs a job.                                            *)
LEMMA TailRange ==
  ASSUME NEW S, NEW q \in Seq(S), q # <<>>
  PROVE  Tail(q) \in Seq(S) /\ Range(Tail(q)) \subseteq Range(q)
<1>1. /\ Tail(q) \in Seq(S) /\ DOMAIN Tail(q) = 1..(Len(q) - 1) /\ DOMAIN q = 1..Len(q)
      /\ \A k \in 1..(Len(q) - 1) : Tail(q)[k] = q[k+1] /\ k+1 \in 1..Len(q)
  OBVIOUS
<1> QED BY <1>1 DEF Range

LEMMA RunJobInv ==
  ASSUME IInv, NEW i \in Workers, RunJob(i)
  PROVE  IInv'
<1> USE DEF IInv, poolVars, history
<1>a. /\ thread[i] \in {"loop", "drain"} /\ queue[i] # <<>>
      /\ queue' = [queue EXCEPT ![i] = Tail(@)]
      /\ UNCHANGED <<poolVars, up, started, joined, thread, sub, ctl, dropped, history>>
  BY Zenon DEF RunJob
<1>b. /\ queue' \in [Workers -> Seq({"early", "late"})]
      /\ \A k \in Workers : k # i => queue'[k] = queue[k]
  <2>1. queue \in [Workers -> Seq({"early", "late"})]
    BY Zenon DEF TypeOK
  <2>2. Tail(queue[i]) \in Seq({"early", "late"})
    BY <1>a, <2>1, TailRange
  <2> QED BY <1>a, <2>1, <2>2
<1>1. TypeOK'
  BY Zenon, <1>a, <1>b DEF TypeOK
<1>2. WorkerInv'
  BY <1>a, <1>b DEF WorkerInv
<1>3. ReapInv'
  BY <1>a, <1>b DEF ReapInv, Gone
<1> QED BY Zenon, Frame, <1>a, <1>1, <1>2, <1>3

(* A worker's thread leaves its loop, or exits.                             *)
LEMMA LeaveInv ==
  ASSUME IInv, NEW i \in Workers, Leave(i)
  PROVE  IInv'
<1> USE DEF IInv, poolVars, history
<1>a. /\ \/ thread[i] = "loop" /\ thread'[i] = "drain" /\ i \notin up
         \/ thread[i] = "drain" /\ thread'[i] = "exited" /\ queue[i] = <<>>
      /\ thread' \in [Workers -> {"none", "loop", "drain", "exited"}]
      /\ \A k \in Workers : k # i => thread'[k] = thread[k]
      /\ UNCHANGED <<poolVars, up, started, joined, queue, sub, ctl, dropped, history>>
  BY DEF Leave, TypeOK
<1>1. TypeOK'
  BY Zenon, <1>a DEF TypeOK
<1>2. WorkerInv'
  <2>1. "early" \notin Range(<<>>)
    BY DEF Range
  <2> QED BY <1>a, <2>1 DEF WorkerInv
<1>3. ReapInv'
  BY <1>a DEF ReapInv, Gone
<1> QED BY Zenon, Frame, <1>a, <1>1, <1>2, <1>3

-----------------------------------------------------------------------------
(* Every step keeps the invariant.                                          *)
LEMMA NextInv == IInv /\ [Next]_vars => IInv'
<1> SUFFICES ASSUME IInv, [Next]_vars PROVE IInv'
  OBVIOUS
<1>1. CASE UNCHANGED vars
  <2>1. TypeOK'
    BY Zenon, <1>1 DEF IInv, TypeOK, vars, poolVars, workerVars, history
  <2> QED BY Zenon, <1>1, <2>1, Frame DEF IInv, vars, poolVars, workerVars, history
<1>2. ASSUME NEW s \in Submitters, SubmitStep(s) PROVE IInv'
  BY Zenon, <1>2, CheckInv, PickInv, SubmitCheckInv, SubmitInsertInv DEF SubmitStep
<1>3. CASE OwnerStep
  <2>1. "owner" \in Controls
    BY DEF Controls
  <2> QED BY Zenon, <1>3, <2>1, StartWorkerInv, PoolStartedInv, StartFailsInv, RollBackInv,
        StopWorkerInv, JoinWorkerInv, DestroyWorkerInv, ReapWorkerInv DEF OwnerStep
<1>4. CASE StopWorker("stopper")
  BY <1>4, StopWorkerInv DEF Controls
<1>5. CASE Finished
  BY Zenon, <1>1, <1>5 DEF Finished
<1> QED BY Zenon, <1>1, <1>2, <1>3, <1>4, <1>5, SubmitInv, PoolStartInv, PoolJoinInv,
      PoolDestroyInv, PoolStopInv, RunJobInv, LeaveInv DEF Next, WorkerStep

(* The invariant holds throughout, whatever is called and in which order.   *)
THEOREM Invariance == Spec => []IInv
  BY InitInv, NextInv, PTL DEF Spec

(* Between control calls no worker runs while the pool's flag is down, and  *)
(* all do while it is up unless a Stop met a UfsrvSchedulerPoolStart,       *)
(* whatever failed in Start.                                                *)
THEOREM FlagsAgreeHolds == Spec => []FlagsAgree
<1>1. IInv => FlagsAgree
  <2> SUFFICES ASSUME IInv, \A c \in Controls : ~Busy(c)
               PROVE  IF isRunning THEN crossed \/ up = Workers ELSE up = {}
    BY Zenon DEF IInv, FlagsAgree
  <2>1. ctl["owner"].pc = "idle" /\ \A c \in Controls : ~At(c, "stop")
    BY DEF Busy, At, Controls
  <2>2. CASE isRunning
    BY Zenon, <2>2 DEF IInv, FlagInv, RunningInv
  <2>3. CASE ~isRunning
    <3>1. Swept
      BY <2>1, <2>3 DEF IInv, FlagInv, StoppingInv, At
    <3> QED BY Zenon, <2>1, <2>3, <3>1, SweptDone
  <2> QED BY Zenon, <2>2, <2>3
<1> QED BY <1>1, Invariance, PTL

(* UfsrvSchedulerPoolSubmit spreads the work: two workers never differ by   *)
(* more than one pick, plus one for each turn of the counter, for any size  *)
(* of the pool and any range of the counter.                                *)
THEOREM BalancedHolds == Spec => []Balanced
<1>1. IInv => Balanced
  <2> SUFFICES ASSUME IInv, NEW i \in Workers, NEW k \in Workers
               PROVE  picked[i] - picked[k] <= 1 + wraps
    BY Zenon DEF Balanced
  <2>1. picked[i] - picked[k] <= wraps + Ahead(i) - Ahead(k)
    BY Zenon DEF IInv, TurnInv
  <2>2. Ahead(i) \in {0, 1} /\ Ahead(k) \in {0, 1}
    BY DEF Ahead
  <2>3. picked[i] \in Nat /\ picked[k] \in Nat /\ wraps \in Nat
    BY DEF IInv, TypeOK
  <2> QED BY <2>1, <2>2, <2>3
<1> QED BY <1>1, Invariance, PTL

(* UfsrvSchedulerPoolDestroy frees the pool after every worker's thread has *)
(* exited and its queue is empty, and frees no job queued in time.          *)
THEOREM PoolFreedLastHolds == Spec => []PoolFreedLast
<1>1. IInv => PoolFreedLast
  BY Zenon DEF IInv, ReapInv, Gone, CallInv, Destroying, PoolFreedLast
<1> QED BY <1>1, Invariance, PTL
=============================================================================
