------------------------------- MODULE Chains -------------------------------
(***************************************************************************)
(* What the chains and queues of the library do to their elements: linking *)
(* in front, appending, taking the first, taking one out of the middle.    *)
(* A chain without repetition is an injective sequence, its elements are   *)
(* its range.                                                              *)
(***************************************************************************)
EXTENDS Integers, Sequences, Functions, TLAPS

(* Membership in a chain, by position.                                      *)
LEMMA Members ==
  ASSUME NEW S, NEW s \in Seq(S), NEW x
  PROVE  x \in Range(s) <=> \E i \in 1..Len(s) : x = s[i]
<1>1. DOMAIN s = 1..Len(s)
  OBVIOUS
<1> QED BY <1>1 DEF Range

LEMMA Within ==
  ASSUME NEW S, NEW s \in Seq(S)
  PROVE  \A x \in Range(s) : x \in S
<1>1. \A i \in 1..Len(s) : s[i] \in S
  OBVIOUS
<1>2. ASSUME NEW x \in Range(s) PROVE x \in S
  <2>1. \E i \in 1..Len(s) : x = s[i]
    BY Members
  <2> QED BY Zenon, <1>1, <2>1
<1> QED BY Zenon, <1>2

(* Pushing a node in front of the chain: RegisterEx.                        *)
LEMMA ConsElements ==
  ASSUME NEW S, NEW s \in Seq(S), NEW n \in S, n \notin Range(s), IsInjective(s)
  PROVE  /\ <<n>> \o s \in Seq(S)
         /\ Range(<<n>> \o s) = Range(s) \cup {n}
         /\ IsInjective(<<n>> \o s)
<1> DEFINE c == <<n>> \o s
<1>1. /\ c \in Seq(S) /\ Len(c) = Len(s) + 1 /\ c[1] = n
      /\ \A i \in 1..Len(s) : c[i+1] = s[i]
      /\ \A i \in 2..Len(c) : c[i] = s[i-1] /\ i-1 \in 1..Len(s)
      /\ Len(s) \in Nat
  OBVIOUS
<1> HIDE DEF c
<1>2. ASSUME NEW x PROVE x \in Range(c) <=> x \in Range(s) \cup {n}
  <2>1. x \in Range(c) <=> \E i \in 1..Len(c) : x = c[i]
    BY <1>1, Members
  <2>2. x \in Range(s) <=> \E i \in 1..Len(s) : x = s[i]
    BY Members
  <2>3. ASSUME NEW i \in 1..Len(c) PROVE i = 1 \/ i \in 2..Len(c)
    BY <1>1
  <2>4. ASSUME NEW i \in 1..Len(s) PROVE i+1 \in 1..Len(c) /\ 1 \in 1..Len(c)
    BY <1>1
  <2>5. 1 \in 1..Len(c)
    BY <1>1
  <2>6. x \in Range(c) => x \in Range(s) \cup {n}
    BY <1>1, <2>1, <2>2, <2>3
  <2>7. x \in Range(s) \cup {n} => x \in Range(c)
    BY <1>1, <2>1, <2>2, <2>4, <2>5
  <2> QED BY <2>6, <2>7
<1>3. IsInjective(c)
  <2> SUFFICES ASSUME NEW i \in 1..Len(c), NEW j \in 1..Len(c), c[i] = c[j]
               PROVE  i = j
    BY DEF IsInjective
  <2>1. \A k \in 1..Len(s) : s[k] # n
    BY Members
  <2>2. CASE i = 1 \/ j = 1
    BY <1>1, <2>1, <2>2
  <2>3. CASE i # 1 /\ j # 1
    <3>1. i-1 \in 1..Len(s) /\ j-1 \in 1..Len(s) /\ s[i-1] = s[j-1]
      BY <1>1, <2>3
    <3>2. i-1 = j-1
      BY <3>1 DEF IsInjective
    <3> QED BY <3>2
  <2> QED BY <2>2, <2>3
<1> QED BY <1>1, <1>2, <1>3 DEF c

(* Joining at the end: mpsc_queue_insert.                                   *)
(* The same, element by element.                                            *)
LEMMA Linked ==
  ASSUME NEW S, NEW s \in Seq(S), NEW n \in S, n \notin Range(s), IsInjective(s),
         NEW c, c = <<n>> \o s
  PROVE  /\ c \in Seq(S) /\ IsInjective(c)
         /\ \A x : x \in Range(c) <=> x \in Range(s) \/ x = n
<1>1. /\ <<n>> \o s \in Seq(S) /\ Range(<<n>> \o s) = Range(s) \cup {n}
      /\ IsInjective(<<n>> \o s)
  BY ConsElements
<1> QED BY Zenon, <1>1

LEMMA AppendElements ==
  ASSUME NEW S, NEW q \in Seq(S), NEW j \in S, j \notin Range(q), IsInjective(q)
  PROVE  /\ Append(q, j) \in Seq(S) /\ Append(q, j) # <<>>
         /\ Range(Append(q, j)) = Range(q) \cup {j}
         /\ IsInjective(Append(q, j))
<1> DEFINE c == Append(q, j)
<1>1. /\ c \in Seq(S) /\ Len(q) \in Nat /\ Len(c) = Len(q) + 1
      /\ c[Len(q) + 1] = j
      /\ \A i \in 1..Len(q) : c[i] = q[i]
      /\ DOMAIN c = 1..Len(c) /\ DOMAIN q = 1..Len(q)
  OBVIOUS
<1> HIDE DEF c
<1>2. \A i \in 1..Len(c) : i \in 1..Len(q) \/ i = Len(q) + 1
  BY <1>1
<1>3. 1..Len(q) \subseteq 1..Len(c) /\ Len(q) + 1 \in 1..Len(c)
  BY <1>1
<1>4. ASSUME NEW x PROVE x \in Range(c) <=> x \in Range(q) \cup {j}
  <2>1. x \in Range(c) <=> \E i \in 1..Len(c) : x = c[i]
    BY <1>1, Members
  <2>2. x \in Range(q) <=> \E i \in 1..Len(q) : x = q[i]
    BY Members
  <2> QED BY <1>1, <1>2, <1>3, <2>1, <2>2
<1>5. \A i \in 1..Len(q) : q[i] # j
  BY Members
<1>6. IsInjective(c)
  BY <1>1, <1>2, <1>5 DEF IsInjective
<1>7. c # <<>>
  BY <1>1
<1> QED BY <1>1, <1>4, <1>6, <1>7 DEF c

(* Taking the first: Cancel's walk, mpsc_queue_pop.                         *)
LEMMA TailElements ==
  ASSUME NEW S, NEW q \in Seq(S), q # <<>>, IsInjective(q)
  PROVE  /\ Head(q) \in S /\ Head(q) \in Range(q)
         /\ Tail(q) \in Seq(S)
         /\ Range(Tail(q)) = Range(q) \ {Head(q)}
         /\ IsInjective(Tail(q))
<1> DEFINE c == Tail(q)
<1>1. /\ c \in Seq(S) /\ Len(q) \in Nat /\ Len(q) > 0 /\ Len(c) = Len(q) - 1
      /\ Head(q) = q[1] /\ q[1] \in S
      /\ \A i \in 1..Len(c) : c[i] = q[i+1] /\ i+1 \in 1..Len(q)
      /\ \A i \in 2..Len(q) : q[i] = c[i-1] /\ i-1 \in 1..Len(c)
      /\ DOMAIN c = 1..Len(c) /\ DOMAIN q = 1..Len(q)
  OBVIOUS
<1> HIDE DEF c
<1>2. ASSUME NEW x PROVE x \in Range(c) <=> x \in Range(q) \ {Head(q)}
  <2>1. x \in Range(c) <=> \E i \in 1..Len(c) : x = c[i]
    BY <1>1, Members
  <2>2. x \in Range(q) <=> \E i \in 1..Len(q) : x = q[i]
    BY Members
  <2>3. ASSUME NEW i \in 1..Len(c) PROVE c[i] \in Range(q) /\ c[i] # Head(q)
    <3>1. i+1 \in 1..Len(q) /\ 1 \in 1..Len(q) /\ i+1 # 1 /\ c[i] = q[i+1]
      BY <1>1
    <3>2. q[i+1] # q[1]
      BY <1>1, <3>1 DEF IsInjective
    <3> QED BY <1>1, <3>1, <3>2, Members
  <2>4. ASSUME NEW i \in 1..Len(q), q[i] # Head(q) PROVE \E k \in 1..Len(c) : q[i] = c[k]
    <3>1. i \in 2..Len(q)
      BY <1>1, <2>4
    <3> QED BY <1>1, <3>1
  <2> QED BY <2>1, <2>2, <2>3, <2>4
<1>3. IsInjective(c)
  <2> SUFFICES ASSUME NEW a \in 1..Len(c), NEW b \in 1..Len(c), c[a] = c[b] PROVE a = b
    BY <1>1 DEF IsInjective
  <2>1. q[a+1] = q[b+1] /\ a+1 \in 1..Len(q) /\ b+1 \in 1..Len(q)
    BY <1>1
  <2>2. a+1 = b+1
    BY <1>1, <2>1 DEF IsInjective
  <2> QED BY <2>2
<1>4. Head(q) \in Range(q)
  BY <1>1, Members
<1> QED BY <1>1, <1>2, <1>3, <1>4 DEF c

(* The same, member by member.                                              *)
LEMMA TailMembers ==
  ASSUME NEW S, NEW q \in Seq(S), q # <<>>, IsInjective(q)
  PROVE  \A x : x \in Range(Tail(q)) <=> x \in Range(q) /\ x # Head(q)
<1>1. Range(Tail(q)) = Range(q) \ {Head(q)}
  BY TailElements
<1> QED BY Zenon, <1>1

(* Taking one node out of the middle: Unregister.                           *)
LEMMA RemoveElements ==
  ASSUME NEW S, NEW s \in Seq(S), NEW k \in 1..Len(s), IsInjective(s)
  PROVE  LET c == SubSeq(s, 1, k-1) \o SubSeq(s, k+1, Len(s)) IN
           c \in Seq(S) /\ Range(c) = Range(s) \ {s[k]} /\ IsInjective(c)
<1> DEFINE n == s[k]
           c == SubSeq(s, 1, k-1) \o SubSeq(s, k+1, Len(s))
<1>1. k \in 1..Len(s) /\ s[k] = n /\ Len(s) \in Nat
  OBVIOUS
<1>2. DOMAIN s = 1..Len(s)
  OBVIOUS
<1> HIDE DEF n
<1>3. /\ SubSeq(s, 1, k-1) \in Seq(S) /\ Len(SubSeq(s, 1, k-1)) = k-1
      /\ \A i \in 1..k-1 : SubSeq(s, 1, k-1)[i] = s[i]
  BY <1>1
<1>4. /\ SubSeq(s, k+1, Len(s)) \in Seq(S)
      /\ Len(SubSeq(s, k+1, Len(s))) = Len(s) - k
      /\ \A i \in 1..Len(s)-k : SubSeq(s, k+1, Len(s))[i] = s[k+i]
  BY <1>1
<1>5. /\ c \in Seq(S) /\ Len(c) = Len(s) - 1
      /\ \A i \in 1..Len(c) : c[i] = IF i < k THEN s[i] ELSE s[i+1]
  <2> DEFINE a == SubSeq(s, 1, k-1)
             b == SubSeq(s, k+1, Len(s))
  <2>1. a \in Seq(S) /\ b \in Seq(S) /\ Len(a) = k-1 /\ Len(b) = Len(s) - k
    BY <1>3, <1>4
  <2> HIDE DEF a, b
  <2>2. /\ a \o b \in Seq(S) /\ Len(a \o b) = Len(a) + Len(b)
        /\ \A i \in 1..Len(a)+Len(b) :
             (a \o b)[i] = IF i <= Len(a) THEN a[i] ELSE b[i - Len(a)]
    <3>1. a \in Seq(S) /\ b \in Seq(S)
      BY <2>1
    <3> QED BY <3>1
  <2>3. ASSUME NEW i \in 1..Len(s)-1
        PROVE  (a \o b)[i] = IF i < k THEN s[i] ELSE s[i+1]
    <3>1. CASE i < k
      BY <1>1, <1>3, <2>1, <2>2, <3>1 DEF a
    <3>2. CASE ~(i < k)
      <4>1. i - (k-1) \in 1..Len(s)-k /\ k + (i - (k-1)) = i+1
        BY <1>1, <3>2
      <4>2. b[i - (k-1)] = s[i+1]
        BY <1>4, <4>1 DEF b
      <4> QED BY <1>1, <2>1, <2>2, <3>2, <4>2
    <3> QED BY <3>1, <3>2
  <2>4. c = a \o b
    BY DEF a, b
  <2>5. Len(a) + Len(b) = Len(s) - 1
    BY <1>1, <2>1
  <2> QED BY <2>2, <2>3, <2>4, <2>5
<1> HIDE DEF c
<1>6. ASSUME NEW x PROVE x \in Range(c) <=> x \in Range(s) \ {n}
  <2>1. x \in Range(c) <=> \E i \in 1..Len(c) : x = c[i]
    BY <1>5, Members
  <2>2. x \in Range(s) <=> \E i \in 1..Len(s) : x = s[i]
    BY Members
  <2>3. ASSUME NEW i \in 1..Len(c)
        PROVE  \E j \in 1..Len(s) : j # k /\ c[i] = s[j]
    <3>1. CASE i < k BY <1>1, <1>5, <3>1
    <3>2. CASE ~(i < k)
      <4>1. i+1 \in 1..Len(s) /\ i+1 # k /\ c[i] = s[i+1]
        BY <1>1, <1>5, <3>2
      <4> QED BY <4>1
    <3> QED BY <3>1, <3>2
  <2>4. ASSUME NEW j \in 1..Len(s), j # k
        PROVE  \E i \in 1..Len(c) : c[i] = s[j]
    <3>1. CASE j < k BY <1>1, <1>5, <3>1
    <3>2. CASE ~(j < k)
      <4>1. j-1 \in 1..Len(c) /\ ~(j-1 < k) /\ (j-1)+1 = j
        BY <1>1, <1>5, <2>4, <3>2
      <4> QED BY <1>5, <4>1
    <3> QED BY <3>1, <3>2
  <2>5. \A j \in 1..Len(s) : s[j] = n <=> j = k
    BY <1>1, <1>2 DEF IsInjective
  <2>6. x \in Range(c) => \E j \in 1..Len(s) : j # k /\ x = s[j]
    BY <2>1, <2>3
  <2>7. ASSUME NEW j \in 1..Len(s), j # k PROVE s[j] \in Range(c)
    BY <1>5, <2>4, <2>7, Members
  <2> QED BY <2>2, <2>5, <2>6, <2>7
<1>7. IsInjective(c)
  <2> SUFFICES ASSUME NEW i \in 1..Len(c), NEW j \in 1..Len(c), c[i] = c[j]
               PROVE  i = j
    BY <1>5 DEF IsInjective
  <2> DEFINE f(x) == IF x < k THEN x ELSE x+1
  <2>1. /\ f(i) \in 1..Len(s) /\ f(j) \in 1..Len(s)
        /\ c[i] = s[f(i)] /\ c[j] = s[f(j)]
    BY <1>1, <1>5
  <2>2. f(i) = f(j)
    BY <1>2, <2>1 DEF IsInjective
  <2> QED BY <1>1, <2>2
<1> QED BY <1>5, <1>6, <1>7 DEF c, n

(* The empty chain: after Create, and once everything was taken.            *)
LEMMA EmptyElements == Range(<<>>) = {} /\ IsInjective(<<>>)
  BY DEF Range, IsInjective

-----------------------------------------------------------------------------
(* A reference count says how many holders there are: n counts the set S    *)
(* when 1..n and S correspond one to one.  The lemmas say what taking and   *)
(* dropping a reference do to it.                                           *)
LEMMA Enumeration ==
  ASSUME NEW n \in Nat, NEW S
  PROVE  ExistsBijection(1..n, S) <=>
           \E f \in [1..n -> S] : /\ \A i, j \in 1..n : f[i] = f[j] => i = j
                                  /\ \A x \in S : \E i \in 1..n : f[i] = x
<1>1. ASSUME NEW f \in [1..n -> S]
      PROVE  f \in Bijection(1..n, S) <=> /\ \A i, j \in 1..n : f[i] = f[j] => i = j
                                          /\ \A x \in S : \E i \in 1..n : f[i] = x
  BY Zenon DEF Bijection, Injection, Surjection, IsInjective
<1>2. Bijection(1..n, S) \subseteq [1..n -> S]
  BY Zenon DEF Bijection, Injection
<1> QED BY Zenon, <1>1, <1>2 DEF ExistsBijection

LEMMA CountNone ==
  ASSUME NEW S
  PROVE  ExistsBijection(1..0, S) <=> S = {}
<1>1. ASSUME ExistsBijection(1..0, S) PROVE S = {}
  BY <1>1, Enumeration
<1>2. ASSUME S = {} PROVE ExistsBijection(1..0, S)
  <2>1. [i \in 1..0 |-> i] \in [1..0 -> S] /\ \A i \in 1..0 : FALSE
    BY <1>2
  <2>2. 0 \in Nat
    OBVIOUS
  <2> QED BY Zenon, <1>2, <2>1, <2>2, Enumeration
<1> QED BY <1>1, <1>2

LEMMA CountAdd ==
  ASSUME NEW n \in Nat, NEW S, ExistsBijection(1..n, S), NEW x, x \notin S
  PROVE  ExistsBijection(1..(n+1), S \cup {x})
<1>1. PICK f \in [1..n -> S] : /\ \A i, j \in 1..n : f[i] = f[j] => i = j
                               /\ \A y \in S : \E i \in 1..n : f[i] = y
  BY Enumeration
<1> DEFINE g == [i \in 1..(n+1) |-> IF i = n+1 THEN x ELSE f[i]]
<1>2. n+1 \in 1..(n+1) /\ g[n+1] = x /\ n+1 \in Nat
  OBVIOUS
<1>3. \A i \in 1..n : i \in 1..(n+1) /\ g[i] = f[i] /\ f[i] \in S
  OBVIOUS
<1>4. \A i \in 1..(n+1) : i = n+1 \/ i \in 1..n
  OBVIOUS
<1>5. DOMAIN g = 1..(n+1) /\ g = [i \in 1..(n+1) |-> g[i]]
  OBVIOUS
<1> HIDE DEF g
<1>6. g \in [1..(n+1) -> S \cup {x}]
  BY <1>2, <1>3, <1>4, <1>5
<1>7. \A i, j \in 1..(n+1) : g[i] = g[j] => i = j
  BY Zenon, <1>1, <1>2, <1>3, <1>4
<1>8. \A y \in S \cup {x} : \E i \in 1..(n+1) : g[i] = y
  BY Zenon, <1>1, <1>2, <1>3
<1> DEFINE N == n+1
          T == S \cup {x}
<1>9. N \in Nat /\ g \in [1..N -> T] /\ (\A i, j \in 1..N : g[i] = g[j] => i = j)
      /\ \A y \in T : \E i \in 1..N : g[i] = y
  BY Zenon, <1>2, <1>6, <1>7, <1>8
<1> HIDE DEF N, T
<1>10. ExistsBijection(1..N, T)
  BY ZenonT(30), <1>9, Enumeration
<1> QED BY Zenon, <1>10 DEF N, T

LEMMA CountRemove ==
  ASSUME NEW n \in Nat, NEW S, ExistsBijection(1..n, S), NEW x \in S
  PROVE  n > 0 /\ ExistsBijection(1..(n-1), S \ {x})
<1>1. PICK f \in [1..n -> S] : /\ \A i, j \in 1..n : f[i] = f[j] => i = j
                               /\ \A y \in S : \E i \in 1..n : f[i] = y
  BY Enumeration
<1>2. PICK k \in 1..n : f[k] = x
  BY <1>1
<1>3. n > 0 /\ n-1 \in Nat /\ n \in 1..n
  OBVIOUS
<1> DEFINE g == [i \in 1..(n-1) |-> IF i = k THEN f[n] ELSE f[i]]
<1>4. \A i \in 1..(n-1) : i \in 1..n /\ i # n
  OBVIOUS
<1>5. g \in [1..(n-1) -> S \ {x}]
  BY <1>1, <1>2, <1>3, <1>4
<1>6. \A i, j \in 1..(n-1) : g[i] = g[j] => i = j
  BY <1>1, <1>2, <1>3, <1>4
<1>7. ASSUME NEW y \in S \ {x} PROVE \E i \in 1..(n-1) : g[i] = y
  <2>1. PICK i \in 1..n : f[i] = y
    BY <1>1
  <2>2. CASE i = n
    <3>1. k \in 1..(n-1) /\ g[k] = y
      BY <1>2, <1>3, <2>1, <2>2
    <3> QED BY Zenon, <3>1
  <2>3. CASE i # n
    <3>1. i \in 1..(n-1) /\ g[i] = y
      BY <1>2, <1>3, <2>1, <2>3
    <3> QED BY Zenon, <3>1
  <2> QED BY <2>2, <2>3
<1> HIDE DEF g
<1> QED BY ZenonT(30), <1>3, <1>5, <1>6, <1>7, Enumeration

(* The last reference has one holder.                                       *)
LEMMA CountOne ==
  ASSUME NEW S, ExistsBijection(1..1, S), NEW x \in S
  PROVE  S = {x}
<1>1. 1 \in Nat /\ 1-1 = 0
  OBVIOUS
<1>2. ExistsBijection(1..(1-1), S \ {x})
  BY Zenon, <1>1, CountRemove
<1>3. S \ {x} = {}
  BY Zenon, <1>1, <1>2, CountNone
<1> QED BY <1>3
=============================================================================
