------------------------ MODULE GnssTracking_proofs -------------------------
(***************************************************************************)
(* Proofs about GnssTracking, for every number of sessions and of clients, *)
(* every menu of options and every bound on updates, configurations,       *)
(* restarts of the modem and the backlog, under two hypotheses:            *)
(*                                                                         *)
(*   SentOnce: the modem does not restart (MaxCrashes = 0), or its         *)
(*   capabilities are known when the adapter is built.  Otherwise the      *)
(*   commands stored before its first opening are sent again after each    *)
(*   restart and handled a second time, and TLC shows the properties       *)
(*   below violated.                                                       *)
(*                                                                         *)
(*   Settled: the options given to a session whose client does not wait    *)
(*   for its answers have no distance.  A change of kind takes two answers *)
(*   of the modem, and a client that sends a second change between them    *)
(*   gets its session into both tables, as TLC shows too.                  *)
(*                                                                         *)
(* Three of the theorems are about a modem that does not restart at all:   *)
(* between a restart and the news of it the calls queued do not serve the  *)
(* table, a refused stop leaves the session of a removed client, and a     *)
(* refused stop that was to begin a restart is not answered.               *)
(* AnswersBalance needs besides that every start comes with its options:   *)
(* one without them is dropped, and its client waits for ever.             *)
(*                                                                         *)
(* The invariant has a part about the fix and a part about the sessions.   *)
(* The first says that the fix to which the calls in the queue of the      *)
(* modem come suits the table of time-based sessions, unless everything is *)
(* still to be restarted (Reopening): each function of the adapter is      *)
(* shown to take a table that is served to one that is.  A call is refused *)
(* only before the modem is open again, so the news of that is behind each *)
(* refusal (Heeded), and undoes what its continuation did to the table.    *)
(* The second says of every session, whatever the others do, how many      *)
(* answers are owed for it, which continuations may be waited for in which *)
(* state of the tables, who sees to it that the modem runs it (Covered),   *)
(* and what is left of it once its client has gone.                        *)
(***************************************************************************)
EXTENDS GnssTracking, WellFoundedInduction, SequenceTheorems, FiniteSetTheorems, TLAPS

-----------------------------------------------------------------------------
(* Queues: what is in them, and how many of a set.                         *)

\* A sequence, of whatever elements.
AnySeq(q) == \E S : q \in Seq(S)

\* What is in it.
In(q) == {q[i] : i \in 1..Len(q)}

\* The places in a queue of the members of a set.
Places(q, A) == {i \in 1..Len(q) : q[i] \in A}

\* How many they are.
Count(q, A) == Cardinality(Places(q, A))

\* One more.
LEMMA AppendAt ==
  ASSUME NEW q, NEW m, AnySeq(q)
  PROVE  /\ AnySeq(Append(q, m)) /\ Len(q) \in Nat /\ Len(Append(q, m)) = Len(q) + 1
         /\ \A i \in 1..Len(q) : Append(q, m)[i] = q[i]
         /\ Append(q, m)[Len(q) + 1] = m
         /\ In(Append(q, m)) = In(q) \cup {m} /\ Append(q, m) # << >>
  <1>1. PICK S : q \in Seq(S)
    BY DEF AnySeq
  <1> DEFINE T == S \union {m}
             r == Append(q, m)
  <1>2. q \in Seq(T) /\ m \in T
    BY <1>1, SeqMonotonic
  <1> HIDE DEF T
  <1>3. /\ r \in Seq(T) /\ Len(q) \in Nat /\ Len(r) = Len(q) + 1
        /\ \A i \in 1..Len(q) : r[i] = q[i]
        /\ r[Len(q) + 1] = m
    BY <1>2, AppendProperties, LenProperties
  <1> HIDE DEF r
  <1>4. 1..Len(r) = 1..Len(q) \cup {Len(q) + 1}
    BY <1>3
  <1>5. In(r) = In(q) \cup {m} /\ r # << >>
    BY <1>3, <1>4 DEF In
  <1> QED BY <1>3, <1>5 DEF AnySeq, r

\* Two in a row.
LEMMA ConcatAt ==
  ASSUME NEW q, NEW r, AnySeq(q), AnySeq(r)
  PROVE  /\ AnySeq(q \o r) /\ Len(q) \in Nat /\ Len(r) \in Nat /\ Len(q \o r) = Len(q) + Len(r)
         /\ \A i \in 1..Len(q) : (q \o r)[i] = q[i]
         /\ \A i \in 1..Len(r) : (q \o r)[Len(q) + i] = r[i]
         /\ In(q \o r) = In(q) \cup In(r)
  <1>1. PICK S : q \in Seq(S)
    BY DEF AnySeq
  <1>2. PICK R : r \in Seq(R)
    BY DEF AnySeq
  <1> DEFINE T == S \union R
             p == q \o r
  <1>3. q \in Seq(T) /\ r \in Seq(T)
    BY <1>1, <1>2, SeqMonotonic
  <1> HIDE DEF T
  <1>4. /\ p \in Seq(T) /\ Len(p) = Len(q) + Len(r)
        /\ \A i \in 1..Len(q) : p[i] = q[i]
        /\ \A i \in 1..Len(r) : p[Len(q) + i] = r[i]
    BY <1>3, ConcatProperties
  <1>5. Len(q) \in Nat /\ Len(r) \in Nat
    BY <1>3, LenProperties
  <1> HIDE DEF p
  <1>6. \A i \in 1..Len(p) : i \in 1..Len(q) \/ (i - Len(q) \in 1..Len(r) /\ p[i] = r[i - Len(q)])
    <2> SUFFICES ASSUME NEW i \in 1..Len(p), i \notin 1..Len(q)
                 PROVE  i - Len(q) \in 1..Len(r) /\ p[i] = r[i - Len(q)]
      OBVIOUS
    <2>1. i - Len(q) \in 1..Len(r) /\ Len(q) + (i - Len(q)) = i
      BY <1>4, <1>5
    <2> QED BY <1>4, <2>1
  <1>7. In(p) = In(q) \cup In(r)
    <2>1. ASSUME NEW x \in In(p) PROVE x \in In(q) \cup In(r)
      BY <1>4, <1>5, <1>6, <2>1 DEF In
    <2>2. ASSUME NEW x \in In(q) PROVE x \in In(p)
      BY <1>4, <1>5, <2>2 DEF In
    <2>3. ASSUME NEW x \in In(r) PROVE x \in In(p)
      <3>1. PICK i \in 1..Len(r) : x = r[i]
        BY <2>3 DEF In
      <3>2. Len(q) + i \in 1..Len(p)
        BY <1>4, <1>5
      <3> QED BY <1>4, <3>1, <3>2 DEF In
    <2> QED BY <2>1, <2>2, <2>3
  <1> QED BY <1>4, <1>5, <1>7 DEF AnySeq, p

\* Without the first.
LEMMA TailAt ==
  ASSUME NEW q, AnySeq(q), q # << >>
  PROVE  /\ AnySeq(Tail(q)) /\ Len(q) \in Nat \ {0} /\ Len(Tail(q)) \in Nat
         /\ Len(q) = Len(Tail(q)) + 1 /\ Head(q) = q[1]
         /\ \A i \in 1..Len(Tail(q)) : Tail(q)[i] = q[i + 1]
         /\ In(q) = In(Tail(q)) \cup {Head(q)}
  <1> DEFINE r == Tail(q)
  <1>1. PICK S : q \in Seq(S)
    BY DEF AnySeq
  <1>2. /\ r \in Seq(S) /\ Len(q) \in Nat \ {0} /\ Len(r) = Len(q) - 1
        /\ Head(q) = q[1]
        /\ \A i \in 1..Len(r) : r[i] = q[i + 1]
    BY <1>1, HeadTailProperties, LenProperties, EmptySeq
  <1>3. AnySeq(r)
    BY <1>2 DEF AnySeq
  <1> HIDE DEF r
  <1>4. /\ \A i \in 1..Len(r) : i + 1 \in 1..Len(q)
        /\ \A i \in 1..Len(q) : i # 1 => i - 1 \in 1..Len(r) /\ r[i - 1] = q[i]
        /\ 1 \in 1..Len(q)
    BY <1>2
  <1>5. In(q) = In(r) \cup {Head(q)}
    <2>1. ASSUME NEW x \in In(q) PROVE x \in In(r) \cup {Head(q)}
      BY <1>2, <1>4, <2>1 DEF In
    <2>2. ASSUME NEW x \in In(r) \cup {Head(q)} PROVE x \in In(q)
      BY <1>2, <1>4, <2>2 DEF In
    <2> QED BY <2>1, <2>2
  <1> QED BY <1>2, <1>3, <1>5 DEF r

\* None.
LEMMA NoneAt == AnySeq(<< >>) /\ In(<< >>) = {} /\ Len(<< >>) = 0
  <1>1. << >> \in Seq({}) /\ Len(<< >>) = 0
    OBVIOUS
  <1> QED BY <1>1 DEF AnySeq, In

\* What is appended to the second of two is appended to both.
LEMMA ConcatAppend ==
  ASSUME NEW q, NEW r, NEW m, AnySeq(q), AnySeq(r)
  PROVE  q \o Append(r, m) = Append(q \o r, m)
  <1> PICK A : q \in Seq(A) BY DEF AnySeq
  <1> PICK B : r \in Seq(B) BY DEF AnySeq
  <1> DEFINE T == A \union B \union {m}
  <1>1. q \in Seq(T) /\ r \in Seq(T) /\ m \in T
    BY SeqMonotonic
  <1> HIDE DEF T
  <1>2. <<m>> \in Seq(T) /\ q \o r \in Seq(T)
    BY <1>1, ConcatProperties
  <1>3. Append(r, m) = r \o <<m>> /\ Append(q \o r, m) = (q \o r) \o <<m>>
    BY <1>1, <1>2, AppendIsConcat
  <1> QED BY <1>1, <1>2, <1>3, ConcatAssociative

\* A queue with none behind it.
LEMMA ConcatNone ==
  ASSUME NEW q, AnySeq(q)
  PROVE  q \o << >> = q
  <1> PICK A : q \in Seq(A) BY DEF AnySeq
  <1> QED BY ConcatEmptySeq

\* Places moved by k are as many.
LEMMA Moved ==
  ASSUME NEW n \in Nat, NEW S \in SUBSET (1..n), NEW k \in Nat
  PROVE  /\ IsFiniteSet(S) /\ Cardinality(S) \in Nat
         /\ IsFiniteSet({i + k : i \in S})
         /\ Cardinality({i + k : i \in S}) = Cardinality(S)
  <1> DEFINE T == {i + k : i \in S}
             f == [i \in S |-> i + k]
  <1>1. IsFiniteSet(S)
    <2>1. IsFiniteSet(1..n)
      BY FS_Interval
    <2> QED BY <2>1, FS_Subset
  <1>2. f \in [S -> T] /\ \A t \in T : \E i \in S : f[i] = t
    OBVIOUS
  <1>3. \A i, j \in S : f[i] = f[j] => i = j
    OBVIOUS
  <1>4. f \in Bijection(S, T)
    BY <1>2, <1>3 DEF Bijection, Injection, Surjection, IsInjective
  <1>5. ExistsBijection(S, T)
    BY <1>4 DEF ExistsBijection
  <1> HIDE DEF T
  <1>6. IsFiniteSet(T) /\ Cardinality(T) = Cardinality(S)
    BY <1>1, <1>5, FS_Bijection
  <1> QED BY <1>1, <1>6, FS_CardinalityType DEF T

\* A number of places, which is 0 when none is in the queue.
LEMMA CountIs ==
  ASSUME NEW q, NEW A, AnySeq(q)
  PROVE  /\ Count(q, A) \in Nat
         /\ IsFiniteSet(Places(q, A))
         /\ Count(q, A) = 0 <=> In(q) \cap A = {}
  <1> DEFINE P == Places(q, A)
  <1>1. Len(q) \in Nat
    <2> PICK S : q \in Seq(S) BY DEF AnySeq
    <2> QED BY LenProperties
  <1>2. P \in SUBSET (1..Len(q))
    BY DEF Places
  <1>3. IsFiniteSet(P) /\ Cardinality(P) \in Nat
    BY <1>1, <1>2, Moved
  <1>4. Cardinality(P) = 0 <=> P = {}
    BY <1>3, FS_EmptySet
  <1>5. P = {} <=> In(q) \cap A = {}
    BY DEF Places, In
  <1> QED BY <1>3, <1>4, <1>5 DEF Count

\* What two queues hold together.
LEMMA CountConcat ==
  ASSUME NEW q, NEW r, NEW A, AnySeq(q), AnySeq(r)
  PROVE  Count(q \o r, A) = Count(q, A) + Count(r, A)
  <1> DEFINE p == q \o r
             n == Len(q)
             S == Places(q, A)
             R == Places(r, A)
             T == {i + n : i \in R}
  <1>1. /\ AnySeq(p) /\ n \in Nat /\ Len(r) \in Nat /\ Len(p) = n + Len(r)
        /\ \A i \in 1..n : p[i] = q[i]
        /\ \A i \in 1..Len(r) : p[n + i] = r[i]
    BY ConcatAt
  <1> HIDE DEF p, n
  <1>2. S \in SUBSET (1..n) /\ R \in SUBSET (1..Len(r))
    BY DEF Places, n
  <1>3. /\ IsFiniteSet(S) /\ Cardinality(S) \in Nat
        /\ IsFiniteSet(T) /\ Cardinality(T) = Cardinality(R) /\ Cardinality(R) \in Nat
    BY <1>1, <1>2, Moved
  <1>4. S \cap T = {}
    BY <1>1, <1>2
  <1>5. Places(p, A) = S \cup T
    <2>1. ASSUME NEW i \in Places(p, A) PROVE i \in S \cup T
      <3>1. i \in 1..Len(p) /\ p[i] \in A
        BY <2>1 DEF Places
      <3>2. CASE i \in 1..n
        BY <1>1, <3>1, <3>2 DEF Places, n
      <3>3. CASE i \notin 1..n
        <4>1. i - n \in 1..Len(r) /\ n + (i - n) = i /\ (i - n) + n = i
          BY <1>1, <3>1, <3>3
        <4>2. r[i - n] \in A
          BY <1>1, <3>1, <4>1
        <4>3. i - n \in R
          BY <4>1, <4>2 DEF Places
        <4> QED BY <4>1, <4>3
      <3> QED BY <3>2, <3>3
    <2>2. ASSUME NEW i \in S PROVE i \in Places(p, A)
      BY <1>1, <2>2 DEF Places, n
    <2>3. ASSUME NEW i \in R PROVE i + n \in Places(p, A)
      <3>1. i \in 1..Len(r) /\ r[i] \in A
        BY <2>3 DEF Places
      <3>2. i + n \in 1..Len(p) /\ i + n = n + i
        BY <1>1, <3>1
      <3> QED BY <1>1, <3>1, <3>2 DEF Places
    <2> QED BY <2>1, <2>2, <2>3
  <1> HIDE DEF S, R, T
  <1>6. Cardinality(S \cup T) = Cardinality(S) + Cardinality(T) - Cardinality(S \cap T)
    BY <1>3, FS_Union
  <1>7. Cardinality(S \cap T) = 0
    BY <1>4, FS_EmptySet
  <1>8. Cardinality(S \cup T) = Cardinality(S) + Cardinality(R)
    BY <1>3, <1>6, <1>7
  <1> QED BY <1>5, <1>8 DEF Count, S, R, T, p

\* One alone.
LEMMA CountOne ==
  ASSUME NEW m, NEW A
  PROVE  /\ AnySeq(<<m>>) /\ In(<<m>>) = {m}
         /\ Count(<<m>>, A) = IF m \in A THEN 1 ELSE 0
         /\ Count(<< >>, A) = 0
  <1>1. <<m>> \in Seq({m}) /\ Len(<<m>>) = 1 /\ <<m>>[1] = m /\ 1..1 = {1}
    OBVIOUS
  <1>2. Places(<<m>>, A) = IF m \in A THEN {1} ELSE {}
    BY <1>1 DEF Places
  <1>3. Count(<<m>>, A) = IF m \in A THEN 1 ELSE 0
    BY <1>2, FS_Singleton, FS_EmptySet DEF Count
  <1>4. Count(<< >>, A) = 0
    BY NoneAt, CountIs
  <1> QED BY <1>1, <1>3, <1>4 DEF AnySeq, In

\* One more, and one less.
LEMMA CountAppend ==
  ASSUME NEW q, NEW m, NEW A, AnySeq(q)
  PROVE  Count(Append(q, m), A) = Count(q, A) + IF m \in A THEN 1 ELSE 0
  <1> PICK S : q \in Seq(S) BY DEF AnySeq
  <1> DEFINE T == S \union {m}
  <1>1. q \in Seq(T) /\ m \in T
    BY SeqMonotonic
  <1> HIDE DEF T
  <1>2. Append(q, m) = q \o <<m>>
    BY <1>1, AppendIsConcat
  <1>3. AnySeq(<<m>>) /\ Count(<<m>>, A) = IF m \in A THEN 1 ELSE 0
    BY CountOne
  <1>4. Count(q \o <<m>>, A) = Count(q, A) + Count(<<m>>, A)
    BY <1>3, CountConcat
  <1> QED BY <1>2, <1>3, <1>4

\* The number without the first.
LEMMA CountTail ==
  ASSUME NEW q, NEW A, AnySeq(q), q # << >>
  PROVE  Count(q, A) = Count(Tail(q), A) + IF Head(q) \in A THEN 1 ELSE 0
  <1> DEFINE h == <<Head(q)>>
             r == h \o Tail(q)
  <1>1. /\ AnySeq(Tail(q)) /\ Len(q) \in Nat \ {0} /\ Len(Tail(q)) \in Nat
        /\ Len(q) = Len(Tail(q)) + 1 /\ Head(q) = q[1]
        /\ \A i \in 1..Len(Tail(q)) : Tail(q)[i] = q[i + 1]
    BY TailAt
  <1>2. h \in Seq({Head(q)}) /\ Len(h) = 1 /\ h[1] = Head(q) /\ 1 \in 1..1
    OBVIOUS
  <1>3. AnySeq(h)
    BY <1>2 DEF AnySeq
  <1> HIDE DEF h
  <1>4. /\ AnySeq(r) /\ Len(r) = 1 + Len(Tail(q)) /\ r[1] = Head(q)
        /\ \A i \in 1..Len(Tail(q)) : r[1 + i] = Tail(q)[i]
    <2>1. /\ AnySeq(r) /\ Len(r) = Len(h) + Len(Tail(q))
          /\ \A i \in 1..Len(h) : r[i] = h[i]
          /\ \A i \in 1..Len(Tail(q)) : r[Len(h) + i] = Tail(q)[i]
      BY <1>1, <1>3, ConcatAt
    <2> HIDE DEF r
    <2> QED BY <1>2, <2>1
  <1> HIDE DEF r
  <1>5. ASSUME NEW i \in 1..Len(q) PROVE r[i] = q[i]
    <2>1. CASE i = 1
      BY <1>1, <1>4, <2>1
    <2>2. CASE i # 1
      <3>1. i - 1 \in 1..Len(Tail(q)) /\ 1 + (i - 1) = i /\ (i - 1) + 1 = i
        BY <1>1, <2>2
      <3> QED BY <1>1, <1>4, <3>1
    <2> QED BY <2>1, <2>2
  <1>6. r = q
    <2>1. Len(r) = Len(q)
      BY <1>1, <1>4
    <2>2. PICK S : q \in Seq(S)
      BY DEF AnySeq
    <2>3. PICK R : r \in Seq(R)
      BY <1>4 DEF AnySeq
    <2>4. q \in Seq(S \union R) /\ r \in Seq(S \union R)
      BY <2>2, <2>3, SeqMonotonic
    <2> QED BY <1>5, <2>1, <2>4, SeqEqual
  <1>7. Count(r, A) = Count(h, A) + Count(Tail(q), A)
    BY <1>1, <1>3, CountConcat DEF r
  <1>8. Count(h, A) = IF Head(q) \in A THEN 1 ELSE 0
    BY CountOne DEF h
  <1>9. Count(Tail(q), A) \in Nat
    BY <1>1, CountIs
  <1> QED BY <1>6, <1>7, <1>8, <1>9

\* A set put in a row.
LEMMA RowOfSet ==
  ASSUME NEW S, IsFiniteSet(S)
  PROVE  AnySeq(SetToSeq(S)) /\ In(SetToSeq(S)) = S
  <1> DEFINE n == Cardinality(S)
             g == SetToSeq(S)
  <1>1. n \in Nat /\ ExistsBijection(1..n, S)
    BY FS_CardinalityType
  <1>2. PICK f : f \in Bijection(1..n, S)
    BY <1>1 DEF ExistsBijection
  <1>3. f \in [1..n -> S] /\ IsInjective(f)
    BY <1>2 DEF Bijection, Injection
  <1>4. g \in [1..n -> S] /\ IsInjective(g)
    BY <1>3 DEF SetToSeq
  <1>5. g \in Seq(S) /\ Len(g) = n
    BY <1>1, <1>4, SeqDef, LenProperties
  <1>6. g \in Injection(1..n, S)
    BY <1>4 DEF Injection
  <1>7. Cardinality(1..n) = n
    BY <1>1, FS_Interval
  <1>8. g \in Surjection(1..n, S)
    BY <1>6, <1>7, FS_Injection
  <1>9. \A x \in S : \E i \in 1..n : g[i] = x
    BY <1>8 DEF Surjection
  <1>10. In(g) = S
    <2>1. \A i \in 1..n : g[i] \in S
      BY <1>4
    <2> HIDE DEF g, n
    <2> QED BY <1>5, <1>9, <2>1 DEF In
  <1> QED BY <1>5, <1>10 DEF AnySeq

-----------------------------------------------------------------------------
(* The numbers of the sessions.                                            *)

\* The order of the numbers, as a relation.
Less == {p \in Nat \X Nat : p[1] < p[2]}

\* The order of the numbers descends to an end.
LEMMA LessIsWellFounded == IsWellFoundedOn(Less, Nat)
  BY NatLessThanWellFounded, Zenon DEF OpToRel, Less

\* A set of numbers that is not empty has a least one.
LEMMA Minimum ==
  ASSUME NEW T \in SUBSET Nat, T # {}
  PROVE  \E m \in T : \A n \in T : m <= n
  <1>1. PICK m \in T : \A n \in T : ~(<<n, m>> \in Less)
    BY LessIsWellFounded, WFMin, Zenon
  <1>2. ASSUME NEW n \in T PROVE m <= n
    <2>1. <<n, m>> \in Less <=> n < m
      BY DEF Less
    <2> QED BY <1>1, <2>1
  <1> QED BY <1>2

\* Some places that are not none have a last one.
LEMMA Greatest ==
  ASSUME NEW n \in Nat, NEW T \in SUBSET (1..n), T # {}
  PROVE  Max(T) \in T /\ \A i \in T : i <= Max(T)
  <1> DEFINE U == {n - i : i \in T}
  <1>1. U \in SUBSET Nat /\ U # {}
    OBVIOUS
  <1>2. PICK u \in U : \A x \in U : u <= x
    BY <1>1, Minimum
  <1>3. PICK m \in T : u = n - m
    BY <1>2
  <1>4. \A i \in T : n - i \in U
    OBVIOUS
  <1> HIDE DEF U
  <1>5. \A i \in T : m >= i
    BY <1>2, <1>3, <1>4
  <1>6. Max(T) \in T /\ \A i \in T : Max(T) >= i
    BY <1>5 DEF Max
  <1> QED BY <1>6

\* The number of sessions.
N == Cardinality(Sessions)

\* The sessions.
LEMMA SessionsAre == N \in Nat /\ IsFiniteSet(Sessions) /\ Sessions = 1..N
  BY TrackingAssumption, FS_CardinalityType DEF N

\* The work of StopTimeBased is done session by session.
LEMMA StopsInTurn ==
  ASSUME NEW c
  PROVE  \E f : /\ f[0] = Now
                /\ \A k \in Sessions : f[k] = StopOne(f[k - 1], k, c)
                /\ StopTimeBased(c) = f[N]
  <1> DEFINE Turns(j, f) == f = [k \in 0..j |-> IF k = 0 THEN Now ELSE StopOne(f[k - 1], k, c)]
             T == {j \in 0..N : ~\E f : Turns(j, f)}
             f == CHOOSE f : Turns(N, f)
  <1> USE SessionsAre
  <1>1. T = {}
    <2> SUFFICES ASSUME T # {} PROVE FALSE
      OBVIOUS
    <2>1. T \in SUBSET Nat
      OBVIOUS
    <2>2. PICK m \in T : \A j \in T : m <= j
      BY <2>1, Minimum
    <2>3. m # 0
      <3>1. Turns(0, [k \in 0..0 |-> Now])
        BY 0..0 = {0}
      <3> QED BY <2>2, <3>1
    <2>4. m \in 1..N /\ m - 1 \in 0..N /\ m - 1 \notin T
      <3>1. T \subseteq 0..N
        OBVIOUS
      <3> HIDE DEF T
      <3> QED BY <2>2, <2>3, <3>1
    <2>5. PICK g : Turns(m - 1, g)
      BY <2>4
    <2> DEFINE h == [k \in 0..m |-> IF k = m THEN StopOne(g[m - 1], m, c) ELSE g[k]]
    <2>6. /\ \A k \in 0..m - 1 : g[k] = IF k = 0 THEN Now ELSE StopOne(g[k - 1], k, c)
          /\ \A k \in 0..m - 1 : h[k] = g[k]
          /\ h[m] = StopOne(g[m - 1], m, c)
      BY <2>4, <2>5
    <2>7. h = [k \in 0..m |-> h[k]]
      BY Zenon
    <2> HIDE DEF h
    <2>8. \A k \in 0..m : h[k] = IF k = 0 THEN Now ELSE StopOne(h[k - 1], k, c)
      <3>1. ASSUME NEW k \in 0..m, k # m
            PROVE  h[k] = IF k = 0 THEN Now ELSE StopOne(h[k - 1], k, c)
        <4>1. k \in 0..m - 1 /\ (k # 0 => k - 1 \in 0..m - 1)
          BY <2>4, <3>1
        <4> QED BY <2>6, <4>1
      <3>2. h[m] = StopOne(h[m - 1], m, c) /\ m # 0
        <4>1. m - 1 \in 0..m - 1
          BY <2>4
        <4> QED BY <2>3, <2>6, <4>1
      <3> QED BY <3>1, <3>2
    <2>9. Turns(m, h)
      BY <2>7, <2>8, Zenon
    <2> QED BY <2>2, <2>9
  <1>2. Turns(N, f)
    <2>1. N \in 0..N
      OBVIOUS
    <2>2. \E g : Turns(N, g)
      BY <1>1, <2>1
    <2> QED BY <2>2, Zenon
  <1>3. StopTimeBased(c) = f[N]
    BY Zenon DEF StopTimeBased, N
  <1> HIDE DEF f
  <1>4. f[0] = Now
    BY <1>2
  <1>5. ASSUME NEW k \in Sessions PROVE f[k] = StopOne(f[k - 1], k, c)
    <2>1. k \in 0..N /\ k # 0
      OBVIOUS
    <2> QED BY <1>2, <2>1
  <1> QED BY <1>3, <1>4, <1>5

-----------------------------------------------------------------------------
(* Options, tables and the work of a handler.                              *)

\* The options of a time-based session, as the table holds them.
TimeOpts == {o \in TrackingOptions : o.size = 1 /\ o.distance = 0 /\ o.interval >= MinInterval}
\* Those of a distance-based session.
DistOpts == {o \in TrackingOptions : o.size = 1 /\ o.distance = 1 /\ o.interval >= MinInterval}

\* The tables of sessions with options in O.
Tables(O) == UNION {[D -> O] : D \in SUBSET Sessions}

\* The continuations of the calls about the fix.
Plain == {"started", "updated", "stopped"}

\* Those of the calls about distance.
Spacing == {"startedDistance", "stoppedDistance", "switchToTime",
            "restartDistance", "restartedDistance"}

\* Those that run when the modem has stopped a distance-based session that is in its table.
Ending == {"stoppedDistance", "restartDistance", "erase"}

\* The options a continuation keeps.
Keeping(then, kept) ==
    /\ then \in {"restartDistance", "restartedDistance"} => kept \in DistOpts
    /\ then \in {"switchToTime", "updated"} => kept \in TimeOpts

\* The calls about the fix, those about distance, and the calls of a handler.
Fixings ==
    {c \in Bodies : /\ c.op \in {"startTime", "stopFix"}
                    /\ c.op = "startTime" => c.o.interval >= MinInterval
                    /\ c.then \in Plain \cup {"none"}
                    /\ c.then # "none" => c.s \in Sessions
                    /\ Keeping(c.then, c.kept)}
Spacings ==
    {c \in Bodies : /\ c.op \in {"startDistance", "stopDistance"}
                    /\ c.op = "stopDistance" => c.then \in Ending \cup {"switchToTime"}
                    /\ c.then \in Spacing \cup {"erase", "none"}
                    /\ c.s \in Sessions
                    /\ Keeping(c.then, c.kept)}

\* The calls a handler may make.
Orders == Fixings \cup Spacings

\* The work of a handler.
Works == [time : Tables(TimeOpts), dist : Tables(DistOpts), nHz : BOOLEAN, spe : BOOLEAN,
          calls : Seq(Orders), owed : [Sessions -> Int]]

USE DEF MinInterval, M1, M2, M4

\* What a table is.
LEMMA TableIs ==
  ASSUME NEW O, NEW f
  PROVE  f \in Tables(O) <=> /\ f = [s \in DOMAIN f |-> f[s]]
                             /\ DOMAIN f \subseteq Sessions /\ \A s \in DOMAIN f : f[s] \in O
  <1>1. ASSUME f \in Tables(O)
        PROVE  /\ f = [s \in DOMAIN f |-> f[s]]
               /\ DOMAIN f \subseteq Sessions /\ \A s \in DOMAIN f : f[s] \in O
    <2>1. PICK D \in SUBSET Sessions : f \in [D -> O]
      BY <1>1 DEF Tables
    <2> QED BY <2>1
  <1>2. ASSUME f = [s \in DOMAIN f |-> f[s]], DOMAIN f \subseteq Sessions,
               \A s \in DOMAIN f : f[s] \in O
        PROVE  f \in Tables(O)
    <2>1. f \in [DOMAIN f -> O]
      BY <1>2
    <2> QED BY <1>2, <2>1 DEF Tables
  <1> QED BY <1>1, <1>2

\* A session more, and a session less.
LEMMA WithIs ==
  ASSUME NEW O, NEW f \in Tables(O), NEW s \in Sessions, NEW o \in O
  PROVE  /\ With(f, s, o) \in Tables(O)
         /\ DOMAIN With(f, s, o) = DOMAIN f \cup {s}
         /\ With(f, s, o)[s] = o
         /\ \A t \in DOMAIN f : t # s => With(f, s, o)[t] = f[t]
  <1> DEFINE g == With(f, s, o)
  <1>1. DOMAIN f \subseteq Sessions /\ \A t \in DOMAIN f : f[t] \in O
    BY TableIs
  <1>2. /\ g = [t \in DOMAIN g |-> g[t]]
        /\ DOMAIN g = DOMAIN f \cup {s} /\ g[s] = o
        /\ \A t \in DOMAIN f : t # s => g[t] = f[t]
    BY DEF With
  <1> HIDE DEF g
  <1>3. DOMAIN g \subseteq Sessions /\ \A t \in DOMAIN g : g[t] \in O
    BY <1>1, <1>2
  <1> QED BY <1>2, <1>3, TableIs DEF g

\* A table without one of its sessions.
LEMMA WithoutIs ==
  ASSUME NEW O, NEW f \in Tables(O), NEW s
  PROVE  /\ Without(f, s) \in Tables(O)
         /\ DOMAIN Without(f, s) = DOMAIN f \ {s}
         /\ \A t \in DOMAIN f : t # s => Without(f, s)[t] = f[t]
  <1> DEFINE g == Without(f, s)
  <1>1. DOMAIN f \subseteq Sessions /\ \A t \in DOMAIN f : f[t] \in O
    BY TableIs
  <1>2. /\ g = [t \in DOMAIN g |-> g[t]]
        /\ DOMAIN g = DOMAIN f \ {s}
        /\ \A t \in DOMAIN f : t # s => g[t] = f[t]
    BY DEF Without, Restrict
  <1> HIDE DEF g
  <1>3. DOMAIN g \subseteq Sessions /\ \A t \in DOMAIN g : g[t] \in O
    BY <1>1, <1>2
  <1> QED BY <1>2, <1>3, TableIs DEF g

\* A function without one of its arguments.
LEMMA WithoutHolds ==
  ASSUME NEW f, NEW s
  PROVE  /\ DOMAIN Without(f, s) = DOMAIN f \ {s}
         /\ \A t \in DOMAIN f : t # s => Without(f, s)[t] = f[t]
  BY DEF Without, Restrict

\* The options at the head of a table that is not empty.
LEMMA SmallestIs ==
  ASSUME NEW f \in Tables(TimeOpts), DOMAIN f # {}
  PROVE  /\ SmallestInterval(f) \in TimeOpts
         /\ \A s \in DOMAIN f : SmallestInterval(f).interval <= f[s].interval
         /\ \E s \in DOMAIN f : SmallestInterval(f) = f[s]
  <1> DEFINE Best(s) == \A t \in DOMAIN f :
                f[s].interval < f[t].interval \/ (f[s].interval = f[t].interval /\ s <= t)
             T == {f[s].interval : s \in DOMAIN f}
  <1>1. /\ DOMAIN f \subseteq Nat
        /\ \A s \in DOMAIN f : f[s] \in TimeOpts /\ f[s].interval \in Nat
    BY TableIs, SessionsAre DEF TimeOpts, TrackingOptions
  <1>2. T \in SUBSET Nat /\ T # {}
    BY <1>1
  <1>3. PICK i \in T : \A j \in T : i <= j
    BY <1>2, Minimum
  <1> DEFINE U == {s \in DOMAIN f : f[s].interval = i}
  <1>4. U \in SUBSET Nat /\ U # {}
    BY <1>1
  <1>5. PICK s \in U : \A t \in U : s <= t
    BY <1>4, Minimum
  <1>6. Best(s)
    <2> SUFFICES ASSUME NEW t \in DOMAIN f
                 PROVE  \/ f[s].interval < f[t].interval
                        \/ f[s].interval = f[t].interval /\ s <= t
      OBVIOUS
    <2>1. f[s].interval = i /\ i <= f[t].interval /\ i \in Nat /\ f[t].interval \in Nat
      BY <1>1, <1>2, <1>3, <1>5
    <2>2. f[t].interval = i => s <= t
      BY <1>5
    <2> QED BY <2>1, <2>2
  <1> DEFINE b == CHOOSE x \in DOMAIN f : Best(x)
  <1>7. b \in DOMAIN f /\ Best(b)
    <2>1. s \in DOMAIN f
      BY <1>5
    <2> HIDE DEF Best
    <2> QED BY <1>6, <2>1
  <1>8. SmallestInterval(f) = f[b]
    BY DEF SmallestInterval
  <1> HIDE DEF b
  <1>9. \A t \in DOMAIN f : f[b].interval <= f[t].interval
    BY <1>1, <1>7
  <1> QED BY <1>1, <1>7, <1>8, <1>9

\* The smallest power mode of a table is one of the modes.
LEMMA SmallestPowerIs ==
  ASSUME NEW f \in Tables(TimeOpts), DOMAIN f # {}
  PROVE  SmallestPower(f) \in {M1, M2, M4}
  <1> DEFINE T == {f[s].power : s \in DOMAIN f}
  <1>1. \A s \in DOMAIN f : f[s].power \in {M1, M2, M4}
    BY TableIs DEF TimeOpts, TrackingOptions
  <1>2. T \in SUBSET Nat /\ T # {} /\ T \subseteq {M1, M2, M4}
    BY <1>1
  <1>3. PICK i \in T : \A j \in T : i <= j
    BY <1>2, Minimum
  <1> HIDE DEF T
  <1>4. Min(T) \in T
    BY <1>3 DEF Min
  <1> QED BY <1>2, <1>4 DEF SmallestPower, T

\* Options with another interval, and with another power.
LEMMA OptionsWith ==
  ASSUME NEW o \in TimeOpts
  PROVE  /\ o \in TrackingOptions /\ o.interval \in Nat /\ o.interval >= MinInterval
         /\ \A i \in Nat : i >= MinInterval =>
               [o EXCEPT !.interval = i] \in TimeOpts /\ [o EXCEPT !.interval = i].interval = i
         /\ \A p \in {M1, M2, M4} :
               /\ [o EXCEPT !.power = p] \in TimeOpts
               /\ [o EXCEPT !.power = p].interval = o.interval
  BY DEF TimeOpts, TrackingOptions

\* The options the fix is restarted with: as fast as the table and the session ask.
LEMMA MultiplexedIs ==
  ASSUME NEW f \in Tables(TimeOpts), DOMAIN f # {}, NEW o \in TimeOpts
  PROVE  /\ Multiplexed(f, o) \in TimeOpts
         /\ Multiplexed(f, o).interval <= o.interval
         /\ \A s \in DOMAIN f : Multiplexed(f, o).interval <= f[s].interval
  <1> DEFINE b == SmallestInterval(f)
             p == IF Finer(f, o) THEN o.power ELSE b.power
             i == IF Faster(f, o) THEN o.interval ELSE b.interval
  <1>1. /\ b \in TimeOpts /\ \A s \in DOMAIN f : b.interval <= f[s].interval
        /\ \A s \in DOMAIN f : f[s].interval \in Nat
    BY SmallestIs, TableIs DEF TimeOpts, TrackingOptions
  <1> HIDE DEF b
  <1>2. /\ i \in Nat /\ i >= MinInterval /\ i <= o.interval /\ i <= b.interval
        /\ p \in {M1, M2, M4}
    BY <1>1 DEF TimeOpts, TrackingOptions, Faster, b
  <1>3. Multiplexed(f, o) = [b EXCEPT !.interval = i, !.power = p]
    BY DEF Multiplexed, b
  <1> HIDE DEF i, p
  <1>4. [b EXCEPT !.interval = i, !.power = p] \in TimeOpts
        /\ [b EXCEPT !.interval = i, !.power = p].interval = i
    BY <1>1, <1>2 DEF TimeOpts, TrackingOptions
  <1>5. b.interval \in Nat /\ o.interval \in Nat
    BY <1>1 DEF TimeOpts, TrackingOptions
  <1> QED BY <1>1, <1>2, <1>3, <1>4, <1>5

-----------------------------------------------------------------------------
(* The fix a queue of calls comes to.                                      *)

\* What the modem may be running.
Engines == [on : BOOLEAN, interval : Nat, power : {M1, M2, M4}, dist : SUBSET (Sessions \cup {0})]

\* The engine and its queue.
EngineOK == AnySeq(engq) /\ In(engq) \subseteq Orders \cup {OpenCall} /\ engine \in Engines

\* The call that opens the modem has no session and no continuation.
LEMMA OpenIs == OpenCall \in Bodies /\ OpenCall.op = "open" /\ OpenCall.then = "none"
  BY DEF OpenCall, Bodies, Malformed, TrackingOptions

\* What a call makes of the engine.
LEMMA RunsIs ==
  ASSUME NEW e \in Engines, NEW c \in Orders \cup {OpenCall}
  PROVE  /\ Runs(e, c) \in Engines
         /\ c.op = "startTime" => Runs(e, c).on /\ Runs(e, c).interval = c.o.interval
         /\ c.op = "stopFix" => ~Runs(e, c).on
         /\ c.op \notin {"startTime", "stopFix"} =>
               Runs(e, c).on = e.on /\ Runs(e, c).interval = e.interval
  <1>1. c \in Bodies
    BY OpenIs DEF Orders, Fixings, Spacings
  <1>2. CASE c.op = "startTime"
    BY <1>1, <1>2 DEF Runs, Engines, Bodies, TrackingOptions
  <1>3. CASE c.op = "stopFix"
    BY <1>3 DEF Runs, Engines, EngineOff
  <1>4. CASE c.op = "startDistance"
    BY <1>1, <1>4 DEF Runs, Engines, Bodies
  <1>5. CASE c.op = "stopDistance"
    BY <1>5 DEF Runs, Engines
  <1>6. CASE c.op = "open"
    BY <1>6 DEF Runs, Engines
  <1> QED BY <1>1, <1>2, <1>3, <1>4, <1>5, <1>6 DEF Bodies

\* One call more.
LEMMA FixAppend ==
  ASSUME NEW q, NEW c, AnySeq(q)
  PROVE  Commanding(Append(q, c)) =
            IF c.op \in {"startTime", "stopFix"} THEN Runs(engine, c) ELSE Commanding(q)
  <1> DEFINE r == Append(q, c)
             n == Len(q)
  <1>1. /\ n \in Nat /\ Len(r) = n + 1
        /\ \A i \in 1..n : r[i] = q[i]
        /\ r[n + 1] = c
    BY AppendAt
  <1> HIDE DEF r
  <1>2. CASE c.op \in {"startTime", "stopFix"}
    <2>1. FixCalls(r) \in SUBSET (1..n + 1) /\ n + 1 \in FixCalls(r)
      BY <1>1, <1>2 DEF FixCalls
    <2>2. Max(FixCalls(r)) \in FixCalls(r) /\ \A i \in FixCalls(r) : i <= Max(FixCalls(r))
      <3>1. n + 1 \in Nat /\ FixCalls(r) # {}
        BY <1>1, <2>1
      <3> QED BY <2>1, <3>1, Greatest
    <2>3. Max(FixCalls(r)) = n + 1
      BY <1>1, <2>1, <2>2
    <2> QED BY <1>1, <1>2, <2>1, <2>3 DEF Commanding, r
  <1>3. CASE c.op \notin {"startTime", "stopFix"}
    <2>1. FixCalls(r) = FixCalls(q)
      BY <1>1, <1>3 DEF FixCalls
    <2>2. CASE FixCalls(q) = {}
      BY <1>3, <2>1, <2>2 DEF Commanding, r
    <2>3. CASE FixCalls(q) # {}
      <3>1. FixCalls(q) \in SUBSET (1..n)
        BY DEF FixCalls
      <3>2. Max(FixCalls(q)) \in 1..n
        BY <1>1, <2>3, <3>1, Greatest
      <3> QED BY <1>1, <1>3, <2>1, <2>3, <3>2 DEF Commanding, r
    <2> QED BY <2>2, <2>3
  <1> QED BY <1>2, <1>3

\* Calls that are not about the fix.
LEMMA FixRow ==
  ASSUME NEW q, NEW p, AnySeq(q), AnySeq(p),
         \A c \in In(p) : c.op \notin {"startTime", "stopFix"}
  PROVE  Commanding(q \o p) = Commanding(q)
  <1> DEFINE r == q \o p
             n == Len(q)
  <1>1. /\ n \in Nat /\ Len(p) \in Nat /\ Len(r) = n + Len(p)
        /\ \A i \in 1..n : r[i] = q[i]
        /\ \A i \in 1..Len(p) : r[n + i] = p[i]
    BY ConcatAt
  <1> HIDE DEF r
  <1>2. ASSUME NEW i \in 1..Len(r), i \notin 1..n PROVE r[i].op \notin {"startTime", "stopFix"}
    <2>1. i - n \in 1..Len(p) /\ n + (i - n) = i
      BY <1>1, <1>2
    <2>2. r[i] = p[i - n]
      BY <1>1, <2>1
    <2>3. p[i - n] \in In(p)
      BY <2>1 DEF In
    <2> QED BY <2>2, <2>3
  <1>3. FixCalls(r) = FixCalls(q)
    <2>1. ASSUME NEW i \in FixCalls(r) PROVE i \in FixCalls(q)
      BY <1>1, <1>2, <2>1 DEF FixCalls
    <2>2. ASSUME NEW i \in FixCalls(q) PROVE i \in FixCalls(r)
      BY <1>1, <2>2 DEF FixCalls
    <2> QED BY <2>1, <2>2
  <1>4. CASE FixCalls(q) = {}
    BY <1>3, <1>4 DEF Commanding, r
  <1>5. CASE FixCalls(q) # {}
    <2>1. FixCalls(q) \in SUBSET (1..n)
      BY DEF FixCalls
    <2>2. Max(FixCalls(q)) \in 1..n
      BY <1>1, <1>5, <2>1, Greatest
    <2> QED BY <1>1, <1>3, <1>5, <2>2 DEF Commanding, r
  <1> QED BY <1>4, <1>5

\* What the fix will be does not change when the modem makes the first call.
LEMMA FixTail ==
  ASSUME EngineOK, engq # << >>, engq' = Tail(engq), engine' = Runs(engine, Head(engq))
  PROVE  Commanded'.on = Commanded.on /\ (Commanded.on => Commanded'.interval = Commanded.interval)
  <1> DEFINE q == engq
             r == Tail(engq)
             n == Len(r)
             h == Head(q)
  <1>1. /\ n \in Nat /\ Len(q) = n + 1 /\ h = q[1]
        /\ \A i \in 1..n : r[i] = q[i + 1]
        /\ In(q) = In(r) \cup {h}
    BY TailAt DEF EngineOK
  <1>2. \A i \in 1..n + 1 : q[i] \in Orders \cup {OpenCall}
    BY <1>1 DEF In, EngineOK
  <1>3. h \in Orders \cup {OpenCall} /\ engine \in Engines
    BY <1>1, <1>2 DEF EngineOK
  <1>4. Commanded' = IF FixCalls(r) = {} THEN Runs(engine, h)
                     ELSE Runs(Runs(engine, h), r[Max(FixCalls(r))])
    BY DEF Commanded, Commanding, FixCalls
  <1>5. Commanded = IF FixCalls(q) = {} THEN engine ELSE Runs(engine, q[Max(FixCalls(q))])
    BY DEF Commanded, Commanding
  <1> HIDE DEF q, r, h
  <1>6. FixCalls(r) \in SUBSET (1..n) /\ FixCalls(q) \in SUBSET (1..n + 1)
    BY <1>1 DEF FixCalls
  <1>7. \A i \in 1..n : i \in FixCalls(r) <=> i + 1 \in FixCalls(q)
    BY <1>1 DEF FixCalls
  <1>8. CASE FixCalls(r) # {}
    <2> DEFINE m == Max(FixCalls(r))
    <2>1. m \in FixCalls(r) /\ \A i \in FixCalls(r) : i <= m
      BY <1>1, <1>6, <1>8, Greatest
    <2>2. m \in 1..n /\ m + 1 \in FixCalls(q) /\ r[m] = q[m + 1] /\ m + 1 \in 1..n + 1
      BY <1>1, <1>6, <1>7, <2>1
    <2>3. Max(FixCalls(q)) \in FixCalls(q) /\ \A i \in FixCalls(q) : i <= Max(FixCalls(q))
      <3>1. n + 1 \in Nat /\ FixCalls(q) # {}
        BY <1>1, <2>2
      <3> QED BY <1>6, <3>1, Greatest
    <2>4. Max(FixCalls(q)) = m + 1
      <3> DEFINE k == Max(FixCalls(q))
      <3>1. k \in 1..n + 1 /\ m + 1 <= k
        BY <1>6, <2>2, <2>3
      <3>2. k - 1 \in 1..n /\ (k - 1) + 1 = k
        BY <1>1, <2>2, <3>1
      <3>3. k - 1 \in FixCalls(r)
        BY <1>7, <2>3, <3>2
      <3>4. k - 1 <= m
        BY <2>1, <3>3
      <3> HIDE DEF k, m
      <3>5. k = m + 1
        BY <1>1, <2>2, <3>1, <3>4
      <3> QED BY <3>5 DEF k
    <2> DEFINE c == q[m + 1]
    <2>5. c \in Orders \cup {OpenCall} /\ c.op \in {"startTime", "stopFix"}
      BY <1>2, <2>2 DEF FixCalls, q
    <2>6. Commanded' = Runs(Runs(engine, h), c) /\ Commanded = Runs(engine, c)
      BY <1>4, <1>5, <1>8, <2>2, <2>4
    <2>7. Runs(engine, h) \in Engines
      BY <1>3, RunsIs
    <2> HIDE DEF c
    <2>8. /\ c.op = "startTime" => Commanded'.on /\ Commanded.on
                                   /\ Commanded'.interval = Commanded.interval
          /\ c.op = "stopFix" => ~Commanded'.on /\ ~Commanded.on
      BY <1>3, <2>5, <2>6, <2>7, RunsIs
    <2>9. Commanded \in Engines /\ Commanded' \in Engines
      BY <1>3, <2>5, <2>6, <2>7, RunsIs
    <2> QED BY <2>5, <2>8, <2>9 DEF Engines
  <1>9. CASE FixCalls(r) = {}
    <2>1. \A i \in FixCalls(q) : i = 1
      <3> SUFFICES ASSUME NEW i \in FixCalls(q), i # 1 PROVE FALSE
        OBVIOUS
      <3>1. i - 1 \in 1..n /\ (i - 1) + 1 = i
        BY <1>1, <1>6
      <3> QED BY <1>7, <1>9, <3>1
    <2>2. CASE h.op \in {"startTime", "stopFix"}
      <3>1. 1 \in FixCalls(q)
        BY <1>1, <2>2 DEF FixCalls
      <3>2. FixCalls(q) = {1}
        BY <2>1, <3>1
      <3>3. Max({1}) = 1
        BY DEF Max
      <3>4. Commanded = Runs(engine, h)
        BY <1>1, <1>5, <3>2, <3>3
      <3> QED BY <1>4, <1>9, <3>4
    <2>3. CASE h.op \notin {"startTime", "stopFix"}
      <3>1. 1 \notin FixCalls(q)
        BY <1>1, <2>3 DEF FixCalls
      <3>2. FixCalls(q) = {}
        BY <2>1, <3>1
      <3> QED BY <1>3, <1>4, <1>5, <1>9, <2>3, <3>2, RunsIs
    <2> QED BY <2>2, <2>3
  <1> QED BY <1>8, <1>9

-----------------------------------------------------------------------------
(* What the operators on the work of a handler do.                         *)

\* What the fix will be once the calls of the work have been made.
FixOf(w) == Commanding(engq \o w.calls)

\* The message that the modem is open.
Ups == [type : {"engineUp"}]

\* The modem has restarted, and the adapter has not yet heard that it is open again.
Reopening == MaxCrashes > 0 /\ (OpenCall \in In(engq) \/ In(msgs) \cap Ups # {})

\* The fix suits a session with interval i, and all those of table f; if the modem never
\* restarts it is off when there is none.
Suited(w, i) ==
    FixOf(w).on /\ FixOf(w).interval <= i /\ (w.nHz => FixOf(w).interval = MinInterval)
Suits(w, f) ==
    /\ DOMAIN f = {} => ~w.spe /\ (MaxCrashes = 0 => ~FixOf(w).on)
    /\ \A s \in DOMAIN f : Suited(w, f[s].interval)

\* The fix that the queue and the work come to serves a session with interval i, and the
\* sessions of table f: it suits them, or all sessions are to be restarted.
Fixed(w, i) == Reopening \/ Suited(w, i)
ServesTable(w, f) == Reopening \/ Suits(w, f)

\* The tables and the needs are those of w.
Same(w, v) == v \in Works /\ v.time = w.time /\ v.dist = w.dist /\ v.nHz = w.nHz

\* One answer less is waited for by the client of s, if the adapter knows it.
OneLess(owing, s) == IF Owner[s] \in clients THEN [owing EXCEPT ![s] = @ - 1] ELSE owing

\* One answer has been given for s, or a call made whose answer, to one of the continuations K,
\* will be one.
Answers(w, v, s, K) ==
    /\ Same(w, v)
    /\ \/ v.calls = w.calls /\ v.owed = OneLess(w.owed, s)
       \/ /\ v.owed = w.owed
          /\ \E c \in Fixings : c.s = s /\ c.then \in K /\ v.calls = Append(w.calls, c)

\* The fix a work comes to.
LEMMA FixType ==
  ASSUME EngineOK, NEW w \in Works
  PROVE  /\ FixOf(w) \in Engines
         /\ AnySeq(w.calls) /\ In(w.calls) \subseteq Orders /\ AnySeq(engq \o w.calls)
         /\ AnySeq(engq)
  <1> DEFINE q == engq \o w.calls
  <1>1. w.calls \in Seq(Orders)
    BY DEF Works
  <1>2. AnySeq(w.calls)
    BY <1>1 DEF AnySeq
  <1>3. In(w.calls) \subseteq Orders
    BY <1>1, ElementOfSeq DEF In
  <1>4. AnySeq(q) /\ In(q) = In(engq) \cup In(w.calls) /\ Len(q) \in Nat
    <2>1. AnySeq(q) /\ In(q) = In(engq) \cup In(w.calls)
      BY <1>2, ConcatAt DEF EngineOK
    <2> HIDE DEF q
    <2>2. PICK S : q \in Seq(S)
      BY <2>1 DEF AnySeq
    <2> QED BY <2>1, <2>2, LenProperties
  <1> HIDE DEF q
  <1>5. In(q) \subseteq Orders \cup {OpenCall}
    BY <1>3, <1>4 DEF EngineOK
  <1>6. Commanding(q) \in Engines
    <2>1. CASE FixCalls(q) = {}
      BY <2>1 DEF Commanding, EngineOK
    <2>2. CASE FixCalls(q) # {}
      <3>1. FixCalls(q) \in SUBSET (1..Len(q))
        BY DEF FixCalls
      <3>2. Max(FixCalls(q)) \in 1..Len(q)
        BY <1>4, <2>2, <3>1, Greatest
      <3>3. q[Max(FixCalls(q))] \in Orders \cup {OpenCall}
        BY <1>5, <3>2 DEF In
      <3> QED BY <2>2, <3>3, RunsIs DEF Commanding, EngineOK
    <2> QED BY <2>1, <2>2
  <1> QED BY <1>2, <1>3, <1>4, <1>6 DEF FixOf, q, EngineOK

\* A call more.
LEMMA CallIs ==
  ASSUME EngineOK, NEW w \in Works, NEW c \in Orders
  PROVE  LET v == [w EXCEPT !.calls = Append(@, c)]
         IN  /\ Same(w, v) /\ v.owed = w.owed /\ v.spe = w.spe /\ v.calls = Append(w.calls, c)
             /\ FixOf(v) = IF c.op \in {"startTime", "stopFix"} THEN Runs(engine, c) ELSE FixOf(w)
  <1> DEFINE v == [w EXCEPT !.calls = Append(@, c)]
  <1>1. AnySeq(w.calls) /\ AnySeq(engq \o w.calls) /\ AnySeq(engq)
    BY FixType
  <1>2. v.calls = Append(w.calls, c)
    BY DEF Works
  <1>3. engq \o v.calls = Append(engq \o w.calls, c)
    BY <1>1, <1>2, ConcatAppend
  <1>4. FixOf(v) = IF c.op \in {"startTime", "stopFix"} THEN Runs(engine, c) ELSE FixOf(w)
    BY <1>1, <1>3, FixAppend DEF FixOf
  <1>5. Append(w.calls, c) \in Seq(Orders)
    BY AppendProperties DEF Works
  <1>6. Same(w, v) /\ v.owed = w.owed /\ v.spe = w.spe
    BY <1>5 DEF Same, Works
  <1> QED BY <1>2, <1>4, <1>6

\* An answer.
LEMMA ReportIs ==
  ASSUME NEW w \in Works, NEW s \in Sessions, NEW K
  PROVE  LET v == ReportResponse(w, s)
         IN  Answers(w, v, s, K) /\ v.spe = w.spe /\ v.calls = w.calls /\ FixOf(v) = FixOf(w)
  <1> DEFINE v == ReportResponse(w, s)
  <1>1. CASE Owner[s] \in clients
    <2>1. v = [w EXCEPT !.owed[s] = @ - 1]
      BY <1>1 DEF ReportResponse
    <2> DEFINE x == [w.owed EXCEPT ![s] = @ - 1]
    <2>a. x \in [Sessions -> Int] /\ v = [w EXCEPT !.owed = x]
      BY <2>1 DEF Works
    <2> HIDE DEF x, v
    <2>2. /\ v \in Works /\ v.time = w.time /\ v.dist = w.dist /\ v.nHz = w.nHz
          /\ v.spe = w.spe /\ v.calls = w.calls /\ v.owed = x
      BY <2>a DEF Works
    <2> QED BY <1>1, <2>2 DEF Answers, Same, OneLess, FixOf, v, x
  <1>2. CASE Owner[s] \notin clients
    <2>1. v = w
      BY <1>2 DEF ReportResponse
    <2> QED BY <1>2, <2>1 DEF Answers, Same, OneLess, FixOf
  <1> QED BY <1>1, <1>2

\* Malformed options are options.
LEMMA MalformedIs == Malformed \in TrackingOptions
  BY DEF Malformed, TrackingOptions

\* A fix is started, as often as it is asked to be and as the engine hub needs.
LEMMA StartFixIs ==
  ASSUME EngineOK, NEW w \in Works, NEW s \in Sessions \cup {0}, NEW o \in TimeOpts,
         NEW then \in {"none", "started", "updated"}, NEW kept \in TrackingOptions,
         then # "none" => s \in Sessions, then = "updated" => kept \in TimeOpts
  PROVE  LET v == StartFix(w, s, o, then, kept)
         IN  /\ Same(w, v) /\ v.owed = w.owed
             /\ \E c \in Fixings : c.s = s /\ c.then = then /\ v.calls = Append(w.calls, c)
             /\ Suited(v, o.interval)
  <1> DEFINE v == StartFix(w, s, o, then, kept)
             a == AtNHz(w, o)
             c == [op |-> "startTime", s |-> s, o |-> a, then |-> then, kept |-> kept]
             u == [w EXCEPT !.calls = Append(@, c)]
             b == w.spe \/ (w.nHz /\ o.interval > MinInterval)
  <1>1. /\ a \in TimeOpts /\ a \in TrackingOptions
        /\ a.interval <= o.interval /\ a.interval >= MinInterval
        /\ w.nHz => a.interval = MinInterval
    BY DEF AtNHz, TimeOpts, TrackingOptions
  <1> HIDE DEF a
  <1>2. c \in Bodies
    BY <1>1 DEF Bodies
  <1>3. /\ c \in Fixings /\ c \in Orders /\ c.op = "startTime" /\ c.o = a
        /\ c.s = s /\ c.then = then
    BY <1>1, <1>2 DEF Fixings, Orders, Plain, Keeping
  <1>4. /\ Same(w, u) /\ u.owed = w.owed /\ u.spe = w.spe /\ u.calls = Append(w.calls, c)
        /\ FixOf(u) = Runs(engine, c)
    BY <1>3, CallIs
  <1>5. v = [u EXCEPT !.spe = b]
    BY <1>4 DEF StartFix, Call, a
  <1> HIDE DEF u, c
  <1>6. b \in BOOLEAN /\ u \in Works
    BY <1>4 DEF Works, Same
  <1> HIDE DEF b
  <1>7. v \in Works /\ v.time = u.time /\ v.dist = u.dist /\ v.nHz = u.nHz /\ v.owed = u.owed
        /\ v.calls = u.calls
    BY <1>5, <1>6 DEF Works
  <1>8. FixOf(v) = Runs(engine, c)
    BY <1>4, <1>7 DEF FixOf
  <1>9. FixOf(v).on /\ FixOf(v).interval = a.interval
    BY <1>3, <1>8, RunsIs DEF EngineOK
  <1>10. Suited(v, o.interval)
    BY <1>1, <1>4, <1>7, <1>9 DEF Suited, Same
  <1> QED BY <1>3, <1>4, <1>7, <1>10 DEF Same

\* The fix is started, or need not be: it is answered for either way.
LEMMA StartOrAnswerIs ==
  ASSUME EngineOK, NEW w \in Works, NEW s \in Sessions, NEW o \in TimeOpts,
         NEW then \in {"started", "updated"}, NEW kept \in TrackingOptions,
         then = "updated" => kept \in TimeOpts
  PROVE  LET v == StartOrAnswer(w, s, o, then, kept)
         IN  /\ Answers(w, v, s, {then})
             /\ \/ w.nHz /\ w.spe /\ FixOf(v) = FixOf(w) /\ v.spe = w.spe
                \/ Fixed(v, o.interval)
  <1>1. CASE w.nHz /\ w.spe
    BY <1>1, ReportIs DEF StartOrAnswer
  <1>2. CASE ~(w.nHz /\ w.spe)
    <2> DEFINE v == StartFix(w, s, o, then, kept)
    <2>1. StartOrAnswer(w, s, o, then, kept) = v
      BY <1>2 DEF StartOrAnswer
    <2>2. /\ Same(w, v) /\ v.owed = w.owed
          /\ \E c \in Fixings : c.s = s /\ c.then = then /\ v.calls = Append(w.calls, c)
          /\ Suited(v, o.interval)
      BY StartFixIs
    <2> HIDE DEF v
    <2>3. Answers(w, v, s, {then})
      BY <2>2 DEF Answers
    <2> QED BY <2>1, <2>2, <2>3 DEF Fixed
  <1> QED BY <1>1, <1>2

\* A fix that nobody asked to change still suits what it suited.
LEMMA FixedStill ==
  ASSUME NEW w, NEW v, NEW i, Fixed(w, i), FixOf(v) = FixOf(w), v.nHz = w.nHz
  PROVE  Fixed(v, i)
  BY DEF Fixed, Suited

\* A fix that suits a session suits one that asks for less.
LEMMA FixedMore ==
  ASSUME EngineOK, NEW w \in Works, NEW i \in Nat, NEW j \in Nat, i <= j, Fixed(w, i)
  PROVE  Fixed(w, j)
  <1>1. FixOf(w).interval \in Nat
    BY FixType DEF Engines
  <1> QED BY <1>1 DEF Fixed, Suited

\* A fix at the shortest interval suits every session.
LEMMA ShortestSuits ==
  ASSUME EngineOK, NEW w \in Works, NEW i \in Nat, NEW j \in Nat, j >= MinInterval,
         Fixed(w, i), w.nHz
  PROVE  Fixed(w, j)
  BY FixType DEF Fixed, Suited, Engines

\* A session is started: the table it will be in is served.
LEMMA StartMultiplexIs ==
  ASSUME EngineOK, NEW w \in Works, NEW s \in Sessions, NEW o \in TimeOpts, ServesTable(w, w.time)
  PROVE  LET v == StartTimeBasedTrackingMultiplex(w, s, o)
         IN  Answers(w, v, s, {"started"}) /\ ServesTable(v, With(w.time, s, o))
  <1> DEFINE f == w.time
             v == StartTimeBasedTrackingMultiplex(w, s, o)
             g == With(f, s, o)
  <1>1. f \in Tables(TimeOpts) /\ \A t \in DOMAIN f : f[t] \in TimeOpts
    BY TableIs DEF Works
  <1>2. /\ DOMAIN g = DOMAIN f \cup {s} /\ g[s] = o
        /\ \A t \in DOMAIN f : t # s => g[t] = f[t]
    BY DEF With
  <1>3. Malformed \in TrackingOptions
    BY MalformedIs
  <1>4. \A p \in TimeOpts : p.interval \in Nat /\ p.interval >= MinInterval
    BY DEF TimeOpts, TrackingOptions
  <1> HIDE DEF f, v, g
  <1>5. CASE DOMAIN f = {}
    <2>1. v = StartOrAnswer(w, s, o, "started", Malformed)
      BY <1>5 DEF v, f, StartTimeBasedTrackingMultiplex, StartTimeBasedTracking
    <2>2. Reopening \/ ~w.spe
      BY <1>5 DEF ServesTable, Suits, Fixed, f
    <2>3. Answers(w, v, s, {"started"}) /\ Fixed(v, o.interval)
      BY <1>3, <2>1, <2>2, StartOrAnswerIs DEF Fixed
    <2>4. ServesTable(v, g)
      BY <1>2, <1>5, <2>3 DEF ServesTable, Suits, Fixed
    <2> QED BY <2>3, <2>4 DEF v, g, f
  <1>6. CASE DOMAIN f # {} /\ (Faster(f, o) \/ Finer(f, o))
    <2> DEFINE p == Multiplexed(f, o)
    <2>1. v = StartOrAnswer(w, s, p, "started", Malformed)
      BY <1>6 DEF v, f, StartTimeBasedTrackingMultiplex, StartTimeBasedTracking
    <2>2. /\ p \in TimeOpts /\ p.interval <= o.interval
          /\ \A t \in DOMAIN f : p.interval <= f[t].interval
      BY <1>1, <1>6, MultiplexedIs
    <2> HIDE DEF p
    <2>3. /\ Answers(w, v, s, {"started"})
          /\ \/ w.nHz /\ w.spe /\ FixOf(v) = FixOf(w) /\ v.spe = w.spe
             \/ Fixed(v, p.interval)
      BY <1>3, <2>1, <2>2, StartOrAnswerIs
    <2>4. v \in Works /\ v.nHz = w.nHz
      BY <2>3 DEF Answers, Same
    <2>5. ASSUME NEW i \in Nat, i >= MinInterval, p.interval <= i PROVE Fixed(v, i)
      <3>1. CASE Fixed(v, p.interval)
        BY <1>4, <2>2, <2>4, <2>5, <3>1, FixedMore
      <3>2. CASE w.nHz /\ w.spe /\ FixOf(v) = FixOf(w)
        <4>1. PICK t \in DOMAIN f : TRUE
          BY <1>6
        <4>2. Fixed(w, f[t].interval)
          BY <4>1 DEF ServesTable, Suits, Fixed, f
        <4> QED BY <1>1, <1>4, <2>4, <2>5, <3>2, <4>2, ShortestSuits, FixedStill
      <3> QED BY <2>3, <3>1, <3>2
    <2>6. ServesTable(v, g)
      BY <1>1, <1>2, <1>4, <2>2, <2>5 DEF ServesTable, Suits, Fixed
    <2> QED BY <2>3, <2>6 DEF v, g, f
  <1>7. CASE DOMAIN f # {} /\ ~(Faster(f, o) \/ Finer(f, o))
    <2>1. v = ReportResponse(w, s)
      BY <1>7 DEF v, f, StartTimeBasedTrackingMultiplex
    <2>2. Answers(w, v, s, {"started"}) /\ FixOf(v) = FixOf(w) /\ v.nHz = w.nHz
      BY <2>1, ReportIs DEF Answers, Same
    <2>3. \A t \in DOMAIN f : Fixed(v, f[t].interval)
      BY <2>2, FixedStill DEF ServesTable, Suits, Fixed, f
    <2>4. PICK t \in DOMAIN f : SmallestInterval(f) = f[t]
      BY <1>1, <1>7, SmallestIs
    <2>5. f[t].interval <= o.interval
      BY <1>1, <1>4, <1>7, <2>4 DEF Faster
    <2>6. Fixed(v, o.interval)
      BY <1>1, <1>4, <2>2, <2>3, <2>4, <2>5, FixedMore DEF Answers, Same
    <2>7. ServesTable(v, g)
      BY <1>2, <2>3, <2>6 DEF ServesTable, Suits, Fixed
    <2> QED BY <2>2, <2>7 DEF v, g, f
  <1> QED BY <1>5, <1>6, <1>7

\* A session is updated.
LEMMA UpdateMultiplexIs ==
  ASSUME EngineOK, NEW w \in Works, NEW s \in DOMAIN w.time, NEW o \in TimeOpts,
         ServesTable(w, w.time)
  PROVE  LET v == UpdateTrackingMultiplex(w, s, o)
         IN  Answers(w, v, s, {"updated"}) /\ ServesTable(v, With(w.time, s, o))
  <1> DEFINE f == w.time
             others == Without(f, s)
             v == UpdateTrackingMultiplex(w, s, o)
             g == With(f, s, o)
  <1>1. /\ f \in Tables(TimeOpts) /\ s \in Sessions
        /\ \A t \in DOMAIN f : f[t] \in TimeOpts /\ f[t] \in TrackingOptions
    BY TableIs DEF Works, TimeOpts
  <1>2. /\ DOMAIN g = DOMAIN f \cup {s} /\ g[s] = o
        /\ \A t \in DOMAIN f : t # s => g[t] = f[t]
    BY DEF With
  <1>3. /\ others \in Tables(TimeOpts) /\ DOMAIN others = DOMAIN f \ {s}
        /\ \A t \in DOMAIN others : others[t] = f[t]
    <2>1. others \in Tables(TimeOpts)
      BY <1>1, WithoutIs
    <2> QED BY <2>1, WithoutHolds, ZenonT(40)
  <1>4. \A p \in TimeOpts : p.interval \in Nat /\ p.interval >= MinInterval
    BY DEF TimeOpts, TrackingOptions
  <1>5. s \in DOMAIN f /\ \A t \in DOMAIN f : Fixed(w, f[t].interval)
    BY DEF ServesTable, Suits, Fixed
  <1>6. v = IF f[s].interval = o.interval /\ f[s].power = o.power THEN ReportResponse(w, s)
            ELSE IF DOMAIN others = {} THEN StartOrAnswer(w, s, o, "updated", f[s])
            ELSE IF Faster(others, o) \/ Finer(others, o)
                 THEN StartOrAnswer(w, s, Multiplexed(others, o), "updated", f[s])
                 ELSE ReportResponse(w, s)
    BY DEF UpdateTrackingMultiplex, UpdateTracking
  <1> HIDE DEF f, v, g, others
  <1>7. ASSUME NEW p \in TimeOpts, p.interval <= o.interval,
               \A t \in DOMAIN others : p.interval <= f[t].interval,
               v = StartOrAnswer(w, s, p, "updated", f[s])
        PROVE  Answers(w, v, s, {"updated"}) /\ ServesTable(v, g)
    <2>1. /\ Answers(w, v, s, {"updated"})
          /\ \/ w.nHz /\ w.spe /\ FixOf(v) = FixOf(w) /\ v.spe = w.spe
             \/ Fixed(v, p.interval)
      BY <1>1, <1>5, <1>7, StartOrAnswerIs
    <2>2. v \in Works /\ v.nHz = w.nHz
      BY <2>1 DEF Answers, Same
    <2>3. ASSUME NEW i \in Nat, i >= MinInterval, p.interval <= i PROVE Fixed(v, i)
      <3>1. CASE Fixed(v, p.interval)
        BY <1>4, <1>7, <2>2, <2>3, <3>1, FixedMore
      <3>2. CASE w.nHz /\ w.spe /\ FixOf(v) = FixOf(w)
        BY <1>1, <1>4, <1>5, <2>2, <2>3, <3>2, ShortestSuits, FixedStill
      <3> QED BY <2>1, <3>1, <3>2
    <2>4. ServesTable(v, g)
      BY <1>1, <1>2, <1>3, <1>4, <1>7, <2>3 DEF ServesTable, Suits, Fixed
    <2> QED BY <2>1, <2>4
  <1>8. ASSUME v = ReportResponse(w, s), Fixed(w, o.interval)
        PROVE  Answers(w, v, s, {"updated"}) /\ ServesTable(v, g)
    <2>1. Answers(w, v, s, {"updated"}) /\ FixOf(v) = FixOf(w) /\ v.nHz = w.nHz
      BY <1>1, <1>8, ReportIs DEF Answers, Same
    <2>2. Fixed(v, o.interval) /\ \A t \in DOMAIN f : Fixed(v, f[t].interval)
      BY <1>5, <1>8, <2>1, FixedStill
    <2> QED BY <1>2, <2>1, <2>2 DEF ServesTable, Suits, Fixed
  <1>9. CASE f[s].interval = o.interval /\ f[s].power = o.power
    BY <1>5, <1>6, <1>8, <1>9 DEF v, g, f
  <1>10. CASE ~(f[s].interval = o.interval /\ f[s].power = o.power) /\ DOMAIN others = {}
    <2>1. o.interval <= o.interval
      BY <1>4
    <2> QED BY <1>6, <1>7, <1>10, <2>1 DEF v, g, f
  <1>11. CASE /\ ~(f[s].interval = o.interval /\ f[s].power = o.power) /\ DOMAIN others # {}
              /\ Faster(others, o) \/ Finer(others, o)
    <2> DEFINE p == Multiplexed(others, o)
    <2>1. /\ p \in TimeOpts /\ p.interval <= o.interval
          /\ \A t \in DOMAIN others : p.interval <= others[t].interval
      BY <1>3, <1>11, MultiplexedIs
    <2>2. v = StartOrAnswer(w, s, p, "updated", f[s])
      BY <1>6, <1>11
    <2> HIDE DEF p
    <2> QED BY <1>3, <1>7, <2>1, <2>2 DEF v, g, f
  <1>12. CASE /\ ~(f[s].interval = o.interval /\ f[s].power = o.power) /\ DOMAIN others # {}
              /\ ~(Faster(others, o) \/ Finer(others, o))
    <2>1. v = ReportResponse(w, s)
      BY <1>6, <1>12
    <2>2. PICK t \in DOMAIN others : SmallestInterval(others) = others[t]
      BY <1>3, <1>12, SmallestIs
    <2>3. t \in DOMAIN f /\ f[t].interval <= o.interval
      BY <1>1, <1>3, <1>4, <1>12, <2>2 DEF Faster
    <2>4. Fixed(w, o.interval)
      BY <1>1, <1>4, <1>5, <2>3, FixedMore
    <2> QED BY <1>8, <2>1, <2>4 DEF v, g, f
  <1> QED BY <1>9, <1>10, <1>11, <1>12

\* A session is stopped: what is left of the table is served.
LEMMA StopMultiplexIs ==
  ASSUME EngineOK, NEW w \in Works, NEW s \in DOMAIN w.time, ServesTable(w, w.time)
  PROVE  LET v == StopTimeBasedTrackingMultiplex(w, s)
         IN  Answers(w, v, s, {"started", "stopped"}) /\ ServesTable(v, Without(w.time, s))
  <1> DEFINE f == w.time
             others == Without(f, s)
             v == StopTimeBasedTrackingMultiplex(w, s)
  <1>1. /\ f \in Tables(TimeOpts) /\ s \in Sessions /\ DOMAIN f \subseteq Sessions
        /\ \A t \in DOMAIN f : f[t] \in TimeOpts /\ f[t] \in TrackingOptions
    BY TableIs DEF Works, TimeOpts
  <1>2. /\ others \in Tables(TimeOpts) /\ DOMAIN others = DOMAIN f \ {s}
        /\ \A t \in DOMAIN others : others[t] = f[t]
    <2>1. others \in Tables(TimeOpts)
      BY <1>1, WithoutIs
    <2> QED BY <2>1, WithoutHolds, ZenonT(40)
  <1>3. \A p \in TimeOpts : p.interval \in Nat /\ p.interval >= MinInterval
    BY DEF TimeOpts, TrackingOptions
  <1>4. s \in DOMAIN f /\ \A t \in DOMAIN f : Fixed(w, f[t].interval)
    BY DEF ServesTable, Suits, Fixed
  <1>5. Malformed \in TrackingOptions
    BY MalformedIs
  <1>6. v = IF Cardinality(DOMAIN f) = 1 THEN StopTracking(w, s)
            ELSE IF Faster(others, f[s]) \/ Finer(others, f[s])
                 THEN StartOrAnswer(w, s,
                        [SmallestInterval(others) EXCEPT !.power = SmallestPower(others)],
                        "started", Malformed)
                 ELSE ReportResponse(w, s)
    BY DEF StopTimeBasedTrackingMultiplex, StartTimeBasedTracking
  <1>7. Cardinality(DOMAIN f) = 1 <=> DOMAIN others = {}
    <2>1. IsFiniteSet(DOMAIN f)
      BY <1>1, SessionsAre, FS_Subset
    <2>2. Cardinality(DOMAIN f) = 1 <=> \E x : DOMAIN f = {x}
      BY <2>1, FS_Singleton
    <2> HIDE DEF f, others
    <2> QED BY <1>2, <1>4, <2>2
  <1> HIDE DEF f, v, others
  <1>8. CASE DOMAIN others = {}
    <2> DEFINE c == [op |-> "stopFix", s |-> s, o |-> Malformed, then |-> "stopped",
                     kept |-> Malformed]
               u == [w EXCEPT !.calls = Append(@, c)]
    <2>1. c \in Bodies
      BY <1>1, <1>5 DEF Bodies
    <2>2. c \in Fixings /\ c \in Orders /\ c.op = "stopFix" /\ c.s = s /\ c.then = "stopped"
      BY <1>1, <2>1 DEF Fixings, Orders, Plain, Keeping
    <2>3. /\ Same(w, u) /\ u.owed = w.owed /\ u.calls = Append(w.calls, c)
          /\ FixOf(u) = Runs(engine, c)
      BY <2>2, CallIs
    <2>4. v = [u EXCEPT !.spe = FALSE]
      BY <1>6, <1>7, <1>8 DEF StopTracking, Call
    <2> HIDE DEF c, u
    <2>5. /\ v \in Works /\ v.time = u.time /\ v.dist = u.dist /\ v.nHz = u.nHz
          /\ v.owed = u.owed /\ v.calls = u.calls /\ ~v.spe
      BY <2>3, <2>4 DEF Works, Same
    <2>6. ~FixOf(v).on
      BY <2>2, <2>3, <2>5, RunsIs DEF FixOf, EngineOK
    <2>7. Answers(w, v, s, {"started", "stopped"})
      BY <2>2, <2>3, <2>5 DEF Answers, Same
    <2>8. ServesTable(v, others)
      BY <1>8, <2>5, <2>6 DEF ServesTable, Suits, Fixed
    <2> QED BY <2>7, <2>8 DEF v, f, others
  <1>9. CASE DOMAIN others # {} /\ (Faster(others, f[s]) \/ Finer(others, f[s]))
    <2> DEFINE b == SmallestInterval(others)
               p == [b EXCEPT !.power = SmallestPower(others)]
    <2>1. v = StartOrAnswer(w, s, p, "started", Malformed)
      BY <1>6, <1>7, <1>9
    <2>2. b \in TimeOpts /\ \A t \in DOMAIN others : b.interval <= others[t].interval
      BY <1>2, <1>9, SmallestIs
    <2>3. SmallestPower(others) \in {M1, M2, M4}
      BY <1>2, <1>9, SmallestPowerIs
    <2>4. p \in TimeOpts /\ \A t \in DOMAIN others : p.interval <= others[t].interval
      BY <2>2, <2>3, OptionsWith
    <2> HIDE DEF p
    <2>a. /\ Answers(w, v, s, {"started"})
          /\ \/ w.nHz /\ w.spe /\ FixOf(v) = FixOf(w) /\ v.spe = w.spe
             \/ Fixed(v, p.interval)
      BY <1>1, <1>5, <2>1, <2>4, StartOrAnswerIs
    <2>5. /\ Answers(w, v, s, {"started", "stopped"})
          /\ \/ w.nHz /\ w.spe /\ FixOf(v) = FixOf(w) /\ v.spe = w.spe
             \/ Fixed(v, p.interval)
      BY <2>a DEF Answers
    <2>6. v \in Works /\ v.nHz = w.nHz
      BY <2>5 DEF Answers, Same
    <2>7. ASSUME NEW i \in Nat, i >= MinInterval, p.interval <= i PROVE Fixed(v, i)
      <3>1. CASE Fixed(v, p.interval)
        BY <1>3, <2>4, <2>6, <2>7, <3>1, FixedMore
      <3>2. CASE w.nHz /\ w.spe /\ FixOf(v) = FixOf(w)
        BY <1>1, <1>3, <1>4, <2>6, <2>7, <3>2, ShortestSuits, FixedStill
      <3> QED BY <2>5, <3>1, <3>2
    <2>8. ServesTable(v, others)
      BY <1>1, <1>2, <1>3, <1>9, <2>4, <2>7 DEF ServesTable, Suits, Fixed
    <2> QED BY <2>5, <2>8 DEF v, f, others
  <1>10. CASE DOMAIN others # {} /\ ~(Faster(others, f[s]) \/ Finer(others, f[s]))
    <2>1. v = ReportResponse(w, s)
      BY <1>6, <1>7, <1>10
    <2>2. Answers(w, v, s, {"started", "stopped"}) /\ FixOf(v) = FixOf(w) /\ v.nHz = w.nHz
      BY <1>1, <2>1, ReportIs DEF Answers, Same
    <2>3. \A t \in DOMAIN others : Fixed(v, others[t].interval)
      BY <1>2, <1>4, <2>2, FixedStill
    <2>4. ServesTable(v, others)
      BY <1>10, <2>3 DEF ServesTable, Suits, Fixed
    <2> QED BY <2>2, <2>4 DEF v, f, others
  <1> QED BY <1>8, <1>9, <1>10

\* What a function gives of a finite set is finite.
LEMMA FiniteImage ==
  ASSUME NEW S, IsFiniteSet(S), NEW f, DOMAIN f = S
  PROVE  IsFiniteSet({f[s] : s \in S})
  <1> DEFINE T == {f[s] : s \in S}
             h == [s \in S |-> f[s]]
  <1>1. h \in [S -> T] /\ \A t \in T : \E s \in S : h[s] = t
    OBVIOUS
  <1>2. h \in Surjection(S, T)
    BY <1>1 DEF Surjection
  <1> HIDE DEF h, T
  <1>3. IsFiniteSet(T)
    BY <1>2, FS_Surjection
  <1> QED BY <1>3 DEF T

\* A call for each of some sessions, that is not about the fix.
LEMMA CallEachIs ==
  ASSUME EngineOK, NEW w \in Works, NEW op \in {"startDistance", "stopDistance"},
         NEW then \in {"none", "erase"}, op = "stopDistance" => then = "erase",
         NEW f, DOMAIN f \subseteq Sessions,
         \A s \in DOMAIN f : f[s] \in TrackingOptions
  PROVE  LET v == CallEach(w, op, f, then)
         IN  /\ Same(w, v) /\ v.owed = w.owed /\ v.spe = w.spe /\ FixOf(v) = FixOf(w)
             /\ In(v.calls) = In(w.calls) \cup
                   {[op |-> op, s |-> s, o |-> f[s], then |-> then, kept |-> Malformed] :
                       s \in DOMAIN f}
  <1> DEFINE v == CallEach(w, op, f, then)
             g == [s \in DOMAIN f |->
                     [op |-> op, s |-> s, o |-> f[s], then |-> then, kept |-> Malformed]]
             S == {[op |-> op, s |-> s, o |-> f[s], then |-> then, kept |-> Malformed] :
                     s \in DOMAIN f}
             r == SetToSeq(S)
  <1>1. IsFiniteSet(S)
    <2>1. IsFiniteSet(DOMAIN f)
      BY SessionsAre, FS_Subset
    <2>2. S = {g[s] : s \in DOMAIN f}
      OBVIOUS
    <2>3. DOMAIN g = DOMAIN f
      OBVIOUS
    <2> HIDE DEF g, S
    <2> QED BY <2>1, <2>2, <2>3, FiniteImage
  <1>2. \A c \in S : c \in Spacings /\ c.op \notin {"startTime", "stopFix"}
    BY MalformedIs DEF Spacings, Bodies, Keeping, Ending
  <1> HIDE DEF S
  <1>3. AnySeq(r) /\ In(r) = S
    BY <1>1, RowOfSet
  <1>4. /\ AnySeq(w.calls) /\ AnySeq(engq \o w.calls) /\ AnySeq(engq)
        /\ In(w.calls) \subseteq Orders
    BY FixType
  <1>5. v = [w EXCEPT !.calls = @ \o r]
    BY DEF CallEach, S
  <1> HIDE DEF r, v
  <1>6. AnySeq(w.calls \o r) /\ In(w.calls \o r) = In(w.calls) \cup S
    BY <1>3, <1>4, ConcatAt
  <1>7. w.calls \o r \in Seq(Orders)
    <2>1. r \in Seq(Orders)
      <3>1. PICK A : r \in Seq(A)
        BY <1>3 DEF AnySeq
      <3>2. Len(r) \in Nat /\ r \in [1..Len(r) -> A]
        BY <3>1, LenProperties
      <3>3. \A i \in 1..Len(r) : r[i] \in Orders
        BY <1>2, <1>3 DEF In, Orders
      <3>4. r \in [1..Len(r) -> Orders]
        BY <3>2, <3>3
      <3> QED BY <3>2, <3>4, SeqDef
    <2> QED BY <2>1, ConcatProperties DEF Works
  <1>8. /\ v \in Works /\ v.time = w.time /\ v.dist = w.dist /\ v.nHz = w.nHz
        /\ v.owed = w.owed /\ v.spe = w.spe /\ v.calls = w.calls \o r
    BY <1>5, <1>7 DEF Works
  <1>9. engq \o v.calls = (engq \o w.calls) \o r
    <2>1. engq \o (w.calls \o r) = (engq \o w.calls) \o r
      <3>1. AnySeq(engq) /\ AnySeq(w.calls) /\ AnySeq(r)
        BY <1>3, <1>4
      <3>2. PICK A : engq \in Seq(A)
        BY <3>1 DEF AnySeq
      <3>3. PICK B : w.calls \in Seq(B)
        BY <3>1 DEF AnySeq
      <3>4. PICK C : r \in Seq(C)
        BY <3>1 DEF AnySeq
      <3> DEFINE T == A \union B \union C
                 k == w.calls
      <3>5. engq \in Seq(T) /\ k \in Seq(T) /\ r \in Seq(T)
        BY <3>2, <3>3, <3>4, SeqMonotonic
      <3> HIDE DEF T, k
      <3>6. (engq \o k) \o r = engq \o (k \o r)
        BY <3>5, ConcatAssociative
      <3> QED BY <3>6 DEF k
    <2> QED BY <1>8, <2>1, Zenon
  <1>10. FixOf(v) = FixOf(w)
    BY <1>2, <1>3, <1>4, <1>9, FixRow DEF FixOf
  <1> QED BY <1>6, <1>8, <1>10 DEF Same, v, S

\* The sessions are what they were, and nobody is answered nor will be.
Hushed(w, v) ==
    /\ Same(w, v) /\ v.owed = w.owed
    /\ \A c \in In(v.calls) : c \in In(w.calls) \/ c.then = "none"

\* The fix is stopped for a while.
LEMMA SuspendIs ==
  ASSUME EngineOK, NEW w \in Works
  PROVE  /\ Hushed(w, SuspendSessions(w))
         /\ DOMAIN w.time = {} => SuspendSessions(w) = w
  <1> DEFINE v == SuspendSessions(w)
             c == [op |-> "stopFix", s |-> 0, o |-> Malformed, then |-> "none",
                   kept |-> Malformed]
             u == [w EXCEPT !.calls = Append(@, c)]
  <1>1. CASE DOMAIN w.time = {}
    BY <1>1 DEF SuspendSessions, Hushed, Same
  <1>2. CASE DOMAIN w.time # {}
    <2>1. c \in Bodies
      BY MalformedIs DEF Bodies
    <2>2. c \in Fixings /\ c \in Orders /\ c.then = "none"
      BY <2>1 DEF Fixings, Orders, Keeping
    <2>3. v = [u EXCEPT !.spe = FALSE]
      BY <1>2 DEF SuspendSessions, Call
    <2> HIDE DEF c
    <2>4. Same(w, u) /\ u.owed = w.owed /\ u.calls = Append(w.calls, c)
      BY <2>2, CallIs
    <2> HIDE DEF u
    <2>5. /\ v \in Works /\ v.time = u.time /\ v.dist = u.dist /\ v.nHz = u.nHz
          /\ v.owed = u.owed /\ v.calls = u.calls
      BY <2>3, <2>4 DEF Works, Same
    <2>6. In(Append(w.calls, c)) = In(w.calls) \cup {c}
      BY FixType, AppendAt
    <2> QED BY <1>2, <2>2, <2>4, <2>5, <2>6 DEF Hushed, Same
  <1> QED BY <1>1, <1>2

\* The sessions are started again: the table is suited, and each of those with a distance called
\* for.
LEMMA RestartIs ==
  ASSUME EngineOK, NEW w \in Works, MaxCrashes = 0 /\ DOMAIN w.time = {} => ~FixOf(w).on
  PROVE  LET v == RestartSessions(w)
         IN  /\ Hushed(w, v) /\ Suits(v, v.time)
             /\ \A t \in DOMAIN v.dist :
                   \E c \in In(v.calls) : c.op = "startDistance" /\ c.s = t
  <1> DEFINE x == [w EXCEPT !.spe = FALSE]
             u == RestartTimeBased(x)
             v == RestartSessions(w)
  <1>1. /\ x \in Works /\ x.time = w.time /\ x.dist = w.dist /\ x.nHz = w.nHz
        /\ x.owed = w.owed /\ x.calls = w.calls /\ x.spe = FALSE
    BY DEF Works
  <1>2. FixOf(x) = FixOf(w)
    BY <1>1 DEF FixOf
  <1> HIDE DEF x
  <1>3. /\ w.time \in Tables(TimeOpts) /\ \A t \in DOMAIN w.time : w.time[t] \in TimeOpts
        /\ DOMAIN w.dist \subseteq Sessions
        /\ \A t \in DOMAIN w.dist : w.dist[t] \in TrackingOptions
    BY TableIs DEF Works, DistOpts
  <1>4. Hushed(w, u) /\ Suits(u, w.time)
    <2>1. CASE DOMAIN w.time = {}
      BY <1>1, <1>2, <2>1 DEF RestartTimeBased, Hushed, Same, Suits
    <2>2. CASE DOMAIN w.time # {}
      <3> DEFINE b == SmallestInterval(w.time)
                 o == [b EXCEPT !.power = SmallestPower(w.time)]
      <3>1. b \in TimeOpts /\ \A t \in DOMAIN w.time : b.interval <= w.time[t].interval
        BY <1>3, <2>2, SmallestIs
      <3>2. SmallestPower(w.time) \in {M1, M2, M4}
        BY <1>3, <2>2, SmallestPowerIs
      <3>3. o \in TimeOpts /\ \A t \in DOMAIN w.time : o.interval <= w.time[t].interval
        BY <3>1, <3>2, OptionsWith
      <3>4. u = StartFix(x, 0, o, "none", Malformed)
        BY <1>1, <2>2 DEF RestartTimeBased
      <3> HIDE DEF o, u
      <3>5. /\ Same(x, u) /\ u.owed = x.owed /\ Suited(u, o.interval)
            /\ \E c \in Fixings : c.s = 0 /\ c.then = "none" /\ u.calls = Append(x.calls, c)
        <4>1. 0 \in Sessions \cup {0} /\ "none" \in {"none", "started", "updated"}
          OBVIOUS
        <4>2. x \in Works /\ o \in TimeOpts /\ Malformed \in TrackingOptions
          BY <1>1, <3>3, MalformedIs
        <4>3. EngineOK /\ "none" # "updated"
          BY <1>1
        <4>4. LET a == StartFix(x, 0, o, "none", Malformed)
              IN  /\ Same(x, a) /\ a.owed = x.owed /\ Suited(a, o.interval)
                  /\ \E c \in Fixings : c.s = 0 /\ c.then = "none"
                                       /\ a.calls = Append(x.calls, c)
          BY <4>1, <4>2, <4>3, StartFixIs
        <4> QED BY <3>4, <4>4, Zenon
      <3>6. AnySeq(w.calls)
        BY FixType
      <3>7. Hushed(w, u)
        BY <1>1, <3>5, <3>6, AppendAt DEF Hushed, Same
      <3>8. ASSUME NEW t \in DOMAIN w.time PROVE Suited(u, w.time[t].interval)
        <4>1. o.interval \in Nat /\ w.time[t].interval \in Nat /\ o.interval <= w.time[t].interval
          BY <1>3, <3>3 DEF TimeOpts, TrackingOptions
        <4>2. FixOf(u).interval \in Nat
          BY <3>5, FixType DEF Same, Engines
        <4> QED BY <3>5, <4>1, <4>2 DEF Suited
      <3> QED BY <2>2, <3>7, <3>8 DEF Suits
    <2> QED BY <2>1, <2>2
  <1> DEFINE S == {[op |-> "startDistance", s |-> s, o |-> w.dist[s], then |-> "none",
                    kept |-> Malformed] : s \in DOMAIN w.dist}
  <1>5. v = CallEach(u, "startDistance", w.dist, "none")
    BY DEF RestartSessions, x
  <1> HIDE DEF u
  <1>6. u \in Works
    BY <1>4 DEF Hushed, Same
  <1> HIDE DEF v
  <1>7. /\ Same(u, v) /\ v.owed = u.owed /\ v.spe = u.spe /\ FixOf(v) = FixOf(u)
        /\ In(v.calls) = In(u.calls) \cup S
    BY <1>3, <1>5, <1>6, CallEachIs
  <1>8. /\ \A c \in S : c.then = "none"
        /\ \A t \in DOMAIN w.dist : \E c \in S : c.op = "startDistance" /\ c.s = t
    <2>1. \A c \in S : c.then = "none"
      OBVIOUS
    <2>2. ASSUME NEW t \in DOMAIN w.dist PROVE \E c \in S : c.op = "startDistance" /\ c.s = t
      <3> DEFINE c == [op |-> "startDistance", s |-> t, o |-> w.dist[t], then |-> "none",
                       kept |-> Malformed]
      <3>1. c \in S /\ c.op = "startDistance" /\ c.s = t
        OBVIOUS
      <3> QED BY <3>1
    <2> QED BY <2>1, <2>2
  <1> HIDE DEF S
  <1>9. Hushed(w, v)
    BY <1>4, <1>7, <1>8 DEF Hushed, Same
  <1>10. Suits(v, w.time) /\ v.time = w.time /\ v.dist = w.dist
    BY <1>4, <1>7, <1>9 DEF Suits, Suited, Same, Hushed
  <1>11. \A t \in DOMAIN v.dist : \E c \in In(v.calls) : c.op = "startDistance" /\ c.s = t
    BY <1>7, <1>8, <1>10
  <1> QED BY <1>9, <1>10, <1>11 DEF v

-----------------------------------------------------------------------------
(* The invariant.                                                          *)

\* Every start comes with its options.
Filled == \A s \in Sessions : \A o \in Menu[s] : o.size = 1

\* And besides the modem does not restart.
Complete == Filled /\ MaxCrashes = 0

\* No command is stored until the first opening, to be sent again after a restart.
SentOnce == MaxCrashes = 0 \/ KnownAtInit

\* A session whose client does not wait for answers is time-based for ever.
Settled == \A s \in Sessions \ Patient : \A o \in Menu[s] \cup Retune[s] : o.distance = 0

\* The commands about options.
Asking ==
    {m \in Commands : /\ m.type = "start" /\ Filled => m.o.size = 1
                      /\ m.s \notin Patient => m.o.distance = 0}

\* The answers of the modem, which refuses no call unless it has restarted.
Telling ==
    {m \in [type : {"answer"}, s : Sessions, then : Plain \cup Spacing \cup {"erase"},
            kept : TrackingOptions, ok : BOOLEAN] :
        Keeping(m.then, m.kept) /\ (MaxCrashes = 0 => m.ok)}

\* The messages of the adapter.
Messages ==
    Asking \cup [type : {"stop"}, s : Sessions] \cup [type : {"removeClient"}, c : Clients]
    \cup [type : {"config"}] \cup Ups \cup [type : {"nHz"}, needed : BOOLEAN] \cup Telling

\* What is in the queues and the tables.
Typed ==
    /\ AnySeq(msgs) /\ In(msgs) \subseteq Messages
    /\ EngineOK
    /\ AnySeq(pending) /\ In(pending) \subseteq Asking
    /\ \A m \in In(pending) : m.o.distance > 0
    /\ Now \in Works
    /\ started \in Nat /\ capsKnown \in BOOLEAN /\ up \in BOOLEAN
    /\ used \in [updates : Nat, configs : Nat, crashes : Nat]

\* A modem that does not restart is opened once, and makes no call before.
Opening ==
    MaxCrashes = 0 =>
        /\ Count(msgs, Ups) + Count(engq, {OpenCall}) + (IF capsKnown THEN 1 ELSE 0) <= 1
        /\ ~up => engq # << >> /\ Head(engq).op = "open"

\* The modem has refused a call.
Refusal(m) == m.type = "answer" /\ ~m.ok

\* Behind each refusal in a queue is the message that the modem is open.
Heeded(q) ==
    \A i \in 1..Len(q) : Refusal(q[i]) => \E j \in 1..Len(q) : i < j /\ q[j] \in Ups

\* A modem that restarts is opened again, and the adapter hears of it after each refusal.
Restarts ==
    MaxCrashes > 0 =>
        /\ capsKnown /\ pending = << >>
        /\ ~up => OpenCall \in In(engq)
        /\ OpenCall \in In(engq) \/ Heeded(msgs)

\* A client is removed after it has gone.
Leaving ==
    /\ live \subseteq clients
    /\ \A m \in In(msgs) : m.type = "removeClient" => m.c \notin live

\* What has been called for serves the table.
Serving == ServesTable(Now, timeBased)

\* Continuation then is to run for session s, now or when the modem has answered.
Awaits(s, then) ==
    \/ \E c \in In(engq) : c.s = s /\ c.then = then /\ then # "none"
    \/ \E m \in In(msgs) : m.type = "answer" /\ m.s = s /\ m.then = then

\* The commands about a session.
Asks3 == {"start", "update", "stop"}

\* A command of kind k about s is to be handled.
Asked(s, k) ==
    \/ \E m \in In(msgs) : k \in Asks3 /\ m.type = k /\ m.s = s
    \/ ~capsKnown /\ \E m \in In(pending) : k \in Asks3 /\ m.type = k /\ m.s = s

\* The messages about a session.
Abouts(s) == {m \in Messages : m.type \in Asks3 \cup {"answer"} /\ m.s = s}

\* The calls made for one of its commands.
Dues(s) == {c \in Bodies : c.s = s /\ c.then \notin {"none", "erase"}}

\* How many commands, calls and answers are under way for it.
Flight(s) ==
    Count(msgs, Abouts(s)) + Count(engq, Dues(s))
    + IF capsKnown THEN 0 ELSE Count(pending, Abouts(s))

\* As many answers are owed for a session as are under way; more, when a start without options
\* may have been dropped or an update refused.
Balanced(s) ==
    Owner[s] \in clients => owed[s] >= Flight(s) /\ (Complete => owed[s] = Flight(s))

\* A client that waits has one command under way for a session, and none when it goes.
OneAtATime(s) ==
    s \in Patient /\ Owner[s] \in clients =>
        owed[s] <= 1 /\ (Owner[s] \notin live => owed[s] = 0)

\* There is nothing of a session that has not been started.
Unborn(s) ==
    s > started => /\ s \notin DOMAIN timeBased /\ s \notin DOMAIN distanceBased
                   /\ \A x : ~Awaits(s, x) /\ ~Asked(s, x)
                   /\ owed[s] = 0

\* Nothing of a session that waited is left when its client has been removed, but
\* what the removal itself has called for.
Removed(s) ==
    s \in Patient /\ Owner[s] \notin clients =>
        (\A k : ~Asked(s, k)) /\ (\A x \in Spacing \cup {"updated"} : ~Awaits(s, x))

\* A session whose client does not wait for answers is never distance-based.
TimeOnly(s) ==
    s \notin Patient =>
        s \notin DOMAIN distanceBased /\ \A x \in Spacing \cup {"erase"} : ~Awaits(s, x)

\* What is to be done suits the tables.
Fits(s) ==
    /\ ~(s \in DOMAIN timeBased /\ s \in DOMAIN distanceBased)
    /\ Awaits(s, "erase") => Owner[s] \notin clients
    /\ \A x \in {"stoppedDistance", "restartDistance", "restartedDistance", "erase"} :
          Awaits(s, x) => s \notin DOMAIN timeBased
    /\ \A x \in {"switchToTime", "updated"} : Awaits(s, x) => s \notin DOMAIN distanceBased
    /\ \A x \in {"restartDistance", "restartedDistance"} :
          Awaits(s, x) => s \in DOMAIN distanceBased
    /\ s \in Patient /\ Asked(s, "start") =>
          s \notin DOMAIN timeBased /\ s \notin DOMAIN distanceBased

\* Of a removed client only the sessions about to be erased are left; besides, when the modem
\* restarts, those it has refused to stop, and the time-based ones of a client that does not wait,
\* whose options a refused update restores.
Orphaned(s) ==
    Owner[s] \notin clients =>
        /\ MaxCrashes = 0 \/ s \in Patient => s \notin DOMAIN timeBased
        /\ MaxCrashes = 0 /\ s \in DOMAIN distanceBased => Awaits(s, "erase")

\* A distance-based session is run, or called for, or about to be stopped or started again, unless
\* all are to be.
Covered(s) ==
    s \in DOMAIN distanceBased =>
        \/ Reopening
        \/ s \in engine.dist
        \/ \E c \in In(engq) : c.op = "startDistance" /\ c.s = s
        \/ \E x \in Ending : Awaits(s, x)

\* What holds of every session.
Sound(s) ==
    /\ Balanced(s) /\ OneAtATime(s) /\ Unborn(s) /\ Removed(s) /\ TimeOnly(s)
    /\ Fits(s) /\ Orphaned(s)

\* The inductive invariant.
IInv ==
    /\ Typed /\ Opening /\ Restarts /\ Leaving /\ Serving
    /\ \A s \in Sessions : Sound(s)
    /\ \A s \in Sessions : Covered(s)

\* What each message is.
LEMMA KindIs ==
  ASSUME NEW m \in Messages
  PROVE  /\ m.type \in {"start", "update"} => m \in Asking /\ m.s \in Sessions
         /\ m.type = "stop" => m.s \in Sessions
         /\ m.type = "removeClient" => m.c \in Clients
         /\ m.type = "nHz" => m.needed \in BOOLEAN
         /\ m.type = "answer" => m \in Telling /\ m.s \in Sessions
         /\ m.type = "engineUp" <=> m \in Ups
         /\ m.type \in Asks3 \cup {"answer", "removeClient", "config", "engineUp", "nHz"}
         /\ "s" \in DOMAIN m <=> m.type \in Asks3 \cup {"answer"}
  <1>1. CASE m \in Asking
    BY <1>1 DEF Asking, Commands, Asks3, Ups
  <1>2. CASE m \in [type : {"stop"}, s : Sessions]
    BY <1>2 DEF Asks3, Ups
  <1>3. CASE m \in [type : {"removeClient"}, c : Clients]
    BY <1>3 DEF Asks3, Ups
  <1>4. CASE m \in [type : {"config"}] \cup Ups
    BY <1>4 DEF Asks3, Ups
  <1>5. CASE m \in [type : {"nHz"}, needed : BOOLEAN]
    BY <1>5 DEF Asks3, Ups
  <1>6. CASE m \in Telling
    BY <1>6 DEF Telling, Asks3, Ups
  <1> QED BY <1>1, <1>2, <1>3, <1>4, <1>5, <1>6 DEF Messages

\* What is under way is what InFlight counts.
LEMMA FlightIs ==
  ASSUME Typed, NEW s \in Sessions
  PROVE  InFlight(s) = Flight(s)
  <1>1. ASSUME NEW q, In(q) \subseteq Messages
        PROVE  {i \in 1..Len(q) : "s" \in DOMAIN q[i] /\ q[i].s = s} = Places(q, Abouts(s))
    <2>1. ASSUME NEW i \in 1..Len(q)
          PROVE  "s" \in DOMAIN q[i] /\ q[i].s = s <=> q[i] \in Abouts(s)
      <3>1. q[i] \in Messages
        BY <1>1 DEF In
      <3> QED BY <3>1, KindIs DEF Abouts
    <2> QED BY <2>1 DEF Places
  <1>2. In(pending) \subseteq Messages
    BY DEF Typed, Messages
  <1>3. {i \in 1..Len(engq) : engq[i].s = s /\ engq[i].then \notin {"none", "erase"}}
           = Places(engq, Dues(s))
    <2>1. ASSUME NEW i \in 1..Len(engq)
          PROVE  engq[i].s = s /\ engq[i].then \notin {"none", "erase"} <=> engq[i] \in Dues(s)
      <3>1. engq[i] \in Bodies
        BY OpenIs DEF Typed, EngineOK, In, Orders, Fixings, Spacings
      <3> QED BY <3>1 DEF Dues
    <2> QED BY <2>1 DEF Places
  <1> QED BY <1>1, <1>2, <1>3 DEF InFlight, Flight, Count, Typed

\* Nothing has changed about a session. (The answer that ends a removal is under way
\* when the call is not, but the client it is about has gone.)
Untouched(t) ==
    /\ t \in DOMAIN timeBased' <=> t \in DOMAIN timeBased
    /\ t \in DOMAIN distanceBased' <=> t \in DOMAIN distanceBased
    /\ owed'[t] = owed[t] /\ (Owner[t] \in clients => Flight(t)' = Flight(t))
    /\ \A x : (Awaits(t, x)' <=> Awaits(t, x)) /\ (Asked(t, x)' <=> Asked(t, x))
    /\ Owner[t] \in clients' <=> Owner[t] \in clients

\* A session that a step does not touch stays sound.
LEMMA UntouchedSound ==
  ASSUME NEW t \in Sessions, Sound(t), Untouched(t), started \in Nat, started' \in Nat,
         started <= started', Owner[t] \in live' <=> Owner[t] \in live
  PROVE  Sound(t)'
  <1>1. t \in Nat
    BY SessionsAre
  <1>2. Balanced(t)' /\ OneAtATime(t)'
    BY DEF Sound, Untouched, Balanced, OneAtATime
  <1>3. Unborn(t)'
    BY <1>1 DEF Sound, Untouched, Unborn
  <1>4. Removed(t)' /\ TimeOnly(t)' /\ Orphaned(t)'
    BY DEF Sound, Untouched, Removed, TimeOnly, Orphaned
  <1>5. Fits(t)'
    BY DEF Sound, Untouched, Fits
  <1> QED BY <1>2, <1>3, <1>4, <1>5 DEF Sound

-----------------------------------------------------------------------------
(* A message taken, and the work of its handler committed.                 *)

\* The work calls for continuation then to run for session s.
CallsFor(w, s, then) == then # "none" /\ \E c \in In(w.calls) : c.s = s /\ c.then = then

\* A message is about session s.
IsAbout(m, s) == m.type \in Asks3 \cup {"answer"} /\ m.s = s

\* The tables and the engine after the work.
LEMMA NowAfter ==
  ASSUME Typed, NEW w \in Works, Commit(w), engine' = engine
  PROVE  /\ Now' \in Works /\ EngineOK'
         /\ Suits(w, w.time) => Serving'
         /\ ServesTable(w, w.time) /\ (Reopening => Reopening') => Serving'
  <1>1. /\ AnySeq(engq) /\ AnySeq(w.calls) /\ In(w.calls) \subseteq Orders
        /\ AnySeq(engq \o w.calls)
    BY FixType DEF Typed
  <1>2. engq' = engq \o w.calls
    BY DEF Commit
  <1>3. EngineOK'
    BY <1>1, <1>2, ConcatAt DEF Typed, EngineOK
  <1>4. Now' = [time |-> w.time, dist |-> w.dist, nHz |-> w.nHz, spe |-> w.spe,
                calls |-> << >>, owed |-> w.owed]
    BY DEF Commit, Now
  <1>5. Now' \in Works
    BY <1>4 DEF Works
  <1>6. engq' \o << >> = engq \o w.calls
    BY <1>1, <1>2, ConcatNone
  <1>7. FixOf(Now)' = FixOf(w)
    <2>1. Now'.calls = << >>
      BY <1>4
    <2>2. FixOf(Now)' = IF FixCalls(engq' \o Now'.calls) = {} THEN engine'
                        ELSE Runs(engine', (engq' \o Now'.calls)
                                               [Max(FixCalls(engq' \o Now'.calls))])
      BY DEF FixOf, Commanding, FixCalls
    <2>3. FixOf(Now)' = IF FixCalls(engq \o w.calls) = {} THEN engine
                        ELSE Runs(engine, (engq \o w.calls)[Max(FixCalls(engq \o w.calls))])
      BY <1>6, <2>1, <2>2
    <2> QED BY <2>3 DEF FixOf, Commanding
  <1>8. timeBased' = w.time /\ Now'.spe = w.spe /\ Now'.nHz = w.nHz
    BY <1>4 DEF Commit
  <1>9. Suits(w, w.time) => Suits(Now, timeBased)'
    BY <1>7, <1>8 DEF Suits, Suited
  <1> QED BY <1>3, <1>5, <1>9 DEF Serving, ServesTable

\* What is under way when a message has been taken and calls have been queued.
LEMMA TakenIs ==
  ASSUME Typed, msgs # << >>, msgs' = Tail(msgs), NEW w \in Works, engq' = engq \o w.calls,
         pending' = pending, capsKnown' = capsKnown, NEW s \in Sessions
  PROVE  /\ (\A c \in In(w.calls) : c.s = s => c.then = "none") /\ ~IsAbout(Head(msgs), s) =>
               /\ Flight(s)' = Flight(s)
               /\ \A x : (Awaits(s, x)' <=> Awaits(s, x)) /\ (Asked(s, x)' <=> Asked(s, x))
         /\ IsAbout(Head(msgs), s) =>
               /\ Flight(s) \in Nat /\ Flight(s) >= 1 /\ Count(w.calls, Dues(s)) \in Nat
               /\ Flight(s)' = Flight(s) - 1 + Count(w.calls, Dues(s))
               /\ Flight(s) = 1 =>
                     /\ \A x : ~Asked(s, x)'
                     /\ \A x : x # "erase" /\ Awaits(s, x)' => CallsFor(w, s, x)
         /\ \A x : /\ Awaits(s, x)' => Awaits(s, x) \/ CallsFor(w, s, x)
                   /\ Asked(s, x)' => Asked(s, x)
                   /\ Awaits(s, x) =>
                         \/ Awaits(s, x)'
                         \/ /\ Head(msgs).type = "answer" /\ Head(msgs).s = s
                            /\ Head(msgs).then = x
  <1> DEFINE m == Head(msgs)
             A == Abouts(s)
             D == Dues(s)
  <1>1. AnySeq(msgs) /\ AnySeq(msgs') /\ In(msgs) = In(msgs') \cup {m} /\ m \in Messages
    BY TailAt DEF Typed
  <1>2. /\ AnySeq(w.calls) /\ AnySeq(engq) /\ In(w.calls) \subseteq Orders
        /\ In(engq') = In(engq) \cup In(w.calls)
    BY FixType, ConcatAt DEF Typed
  <1>3. /\ Count(msgs, A) = Count(msgs', A) + IF m \in A THEN 1 ELSE 0
        /\ Count(engq', D) = Count(engq, D) + Count(w.calls, D)
    BY <1>1, <1>2, CountTail, CountConcat
  <1>4. /\ Count(msgs, A) \in Nat /\ Count(msgs', A) \in Nat /\ Count(pending, A) \in Nat
        /\ Count(engq, D) \in Nat /\ Count(w.calls, D) \in Nat
    BY <1>1, <1>2, CountIs DEF Typed
  <1>5. m \in A <=> IsAbout(m, s)
    BY <1>1 DEF Abouts, IsAbout
  <1>6. /\ Flight(s) = Count(msgs, A) + Count(engq, D) + IF capsKnown THEN 0 ELSE Count(pending, A)
        /\ Flight(s)' = Count(msgs', A) + Count(engq', D)
                        + IF capsKnown THEN 0 ELSE Count(pending, A)
    BY DEF Flight, Abouts, Dues
  <1>7. \A x : /\ Awaits(s, x) <=> \/ \E c \in In(engq) : c.s = s /\ c.then = x /\ x # "none"
                                   \/ \E k \in In(msgs) : k.type = "answer" /\ k.s = s /\ k.then = x
               /\ Awaits(s, x)' <=> \/ \E c \in In(engq') : c.s = s /\ c.then = x /\ x # "none"
                                    \/ \E k \in In(msgs') : k.type = "answer" /\ k.s = s
                                                            /\ k.then = x
    BY DEF Awaits
  <1>8. \A x : /\ Asked(s, x) <=> \/ \E k \in In(msgs) : x \in Asks3 /\ k.type = x /\ k.s = s
                                  \/ ~capsKnown /\ \E k \in In(pending) :
                                                       x \in Asks3 /\ k.type = x /\ k.s = s
               /\ Asked(s, x)' <=> \/ \E k \in In(msgs') : x \in Asks3 /\ k.type = x /\ k.s = s
                                   \/ ~capsKnown /\ \E k \in In(pending) :
                                                        x \in Asks3 /\ k.type = x /\ k.s = s
    BY DEF Asked
  <1> HIDE DEF A, D, m
  <1>9. ASSUME \A c \in In(w.calls) : c.s = s => c.then = "none", ~IsAbout(m, s)
        PROVE  /\ Flight(s)' = Flight(s)
               /\ \A x : (Awaits(s, x)' <=> Awaits(s, x)) /\ (Asked(s, x)' <=> Asked(s, x))
    <2>1. In(w.calls) \cap D = {}
      BY <1>9 DEF D, Dues
    <2>2. Count(w.calls, D) = 0
      BY <1>2, <2>1, CountIs
    <2>3. Flight(s)' = Flight(s)
      BY <1>3, <1>4, <1>5, <1>6, <1>9, <2>2
    <2>4. ASSUME NEW x PROVE (Awaits(s, x)' <=> Awaits(s, x)) /\ (Asked(s, x)' <=> Asked(s, x))
      BY <1>1, <1>2, <1>7, <1>8, <1>9 DEF IsAbout
    <2> QED BY <2>3, <2>4
  <1>10. ASSUME IsAbout(m, s)
         PROVE  /\ Flight(s) \in Nat /\ Flight(s) >= 1
                /\ Flight(s)' = Flight(s) - 1 + Count(w.calls, D)
    <2> DEFINE p == IF capsKnown THEN 0 ELSE Count(pending, A)
    <2>1. p \in Nat
      BY <1>4
    <2>2. Count(msgs, A) = Count(msgs', A) + 1
      BY <1>3, <1>5, <1>10
    <2>3. /\ Flight(s) = Count(msgs, A) + Count(engq, D) + p
          /\ Flight(s)' = Count(msgs', A) + Count(engq', D) + p
      BY <1>6
    <2> HIDE DEF p
    <2> DEFINE a == Count(msgs', A)
               b == Count(engq, D)
               d == Count(w.calls, D)
    <2>4. a \in Nat /\ b \in Nat /\ d \in Nat
      BY <1>4, CountIs
    <2>5. Flight(s) = (a + 1) + b + p /\ Flight(s)' = a + (b + d) + p
      BY <1>3, <2>2, <2>3, Zenon
    <2> HIDE DEF a, b, d
    <2>6. Flight(s) \in Nat /\ Flight(s) >= 1 /\ Flight(s)' = Flight(s) - 1 + d
      BY <2>1, <2>4, <2>5
    <2> QED BY <2>6 DEF d
  <1>11. ASSUME IsAbout(m, s), Flight(s) = 1
         PROVE  /\ \A x : ~Asked(s, x)'
                /\ \A x : x # "erase" /\ Awaits(s, x)' => CallsFor(w, s, x)
    <2>1. /\ Count(msgs', A) = 0 /\ Count(engq, D) = 0
          /\ capsKnown \/ Count(pending, A) = 0
      BY <1>3, <1>4, <1>5, <1>6, <1>11, SMTT(30)
    <2>2. /\ In(msgs') \cap A = {} /\ In(engq) \cap D = {}
          /\ capsKnown \/ In(pending) \cap A = {}
      BY <1>1, <1>2, <2>1, CountIs DEF Typed
    <2>3. In(msgs') \subseteq Messages /\ In(pending) \subseteq Messages
      BY <1>1 DEF Typed, Messages
    <2>4. \A x : ~Asked(s, x)'
      BY <1>8, <2>2, <2>3 DEF A, Abouts
    <2>5. In(engq) \subseteq Bodies
      BY OpenIs DEF Typed, EngineOK, Orders, Fixings, Spacings
    <2>6. ASSUME NEW x, x # "erase", Awaits(s, x)' PROVE CallsFor(w, s, x)
      <3>1. ~\E k \in In(msgs') : k.type = "answer" /\ k.s = s /\ k.then = x
        BY <2>2, <2>3 DEF A, Abouts
      <3>2. PICK c \in In(engq') : c.s = s /\ c.then = x /\ x # "none"
        BY <1>7, <2>6, <3>1
      <3>3. c \notin In(engq)
        BY <2>2, <2>5, <2>6, <3>2 DEF D, Dues
      <3> QED BY <1>2, <3>2, <3>3 DEF CallsFor
    <2> QED BY <2>4, <2>6
  <1>12. ASSUME NEW x
         PROVE  /\ Awaits(s, x)' => Awaits(s, x) \/ CallsFor(w, s, x)
                /\ Asked(s, x)' => Asked(s, x)
                /\ Awaits(s, x) => Awaits(s, x)' \/ (m.type = "answer" /\ m.s = s /\ m.then = x)
    BY <1>1, <1>2, <1>7, <1>8 DEF CallsFor
  <1> QED BY <1>4, <1>9, <1>10, <1>11, <1>12 DEF m, D

\* A session with a distance is called for, or about to be stopped or started again, or was in
\* the table and is not the one whose ending message m brings.
Spares(w, m, t) ==
    t \in DOMAIN w.dist =>
        \/ \E c \in In(w.calls) : c.op = "startDistance" /\ c.s = t
        \/ \E x \in Ending : CallsFor(w, t, x)
        \/ t \in DOMAIN distanceBased /\ ~(m.type = "answer" /\ m.s = t /\ m.then \in Ending)

\* What the handler of a message about session s may do.
Result(w, m, s) ==
    /\ ServesTable(w, w.time)
    /\ Reopening \/ Spares(w, m, s)
    /\ \A t \in Sessions \ {s} : /\ t \in DOMAIN w.time <=> t \in DOMAIN timeBased
                                 /\ t \in DOMAIN w.dist <=> t \in DOMAIN distanceBased
                                 /\ w.owed[t] = owed[t]
    /\ \A c \in In(w.calls) : c.s = s \/ c.then = "none"
    /\ Owner[s] \in clients =>
          /\ w.owed[s] <= owed[s]
          /\ w.owed[s] >= owed[s] - 1 + Count(w.calls, Dues(s))
          /\ Complete => w.owed[s] = owed[s] - 1 + Count(w.calls, Dues(s))
    /\ s \in Patient /\ Owner[s] \in clients =>
          /\ ~(s \in DOMAIN w.time /\ s \in DOMAIN w.dist)
          /\ ~CallsFor(w, s, "erase")
          /\ \A x \in {"stoppedDistance", "restartDistance", "restartedDistance"} :
                CallsFor(w, s, x) => s \notin DOMAIN w.time
          /\ \A x \in {"switchToTime", "updated"} : CallsFor(w, s, x) => s \notin DOMAIN w.dist
          /\ \A x \in {"restartDistance", "restartedDistance"} :
                CallsFor(w, s, x) => s \in DOMAIN w.dist
    /\ s \notin Patient =>
          s \notin DOMAIN w.dist /\ \A x \in Spacing \cup {"erase"} : ~CallsFor(w, s, x)
    /\ Owner[s] \notin clients =>
          /\ MaxCrashes = 0 \/ s \in Patient =>
                s \notin DOMAIN w.time /\ \A x : ~CallsFor(w, s, x)
          /\ MaxCrashes = 0 /\ s \in DOMAIN w.dist =>
                s \in DOMAIN distanceBased /\ ~(m.type = "answer" /\ m.then = "erase")

\* The queues hold what they should when a message has been taken.
LEMMA TypedAfter ==
  ASSUME Typed, NEW w \in Works, Commit(w),
         UNCHANGED <<capsKnown, pending, engine, up, started, used>>,
         msgs # << >>, msgs' = Tail(msgs)
  PROVE  Typed'
  <1>1. Now' \in Works /\ EngineOK'
    BY NowAfter
  <1>2. AnySeq(msgs') /\ In(msgs') \subseteq Messages
    BY TailAt DEF Typed
  <1> QED BY <1>1, <1>2 DEF Typed

\* The head of a queue stays when calls are queued behind.
LEMMA HeadStays ==
  ASSUME NEW q, NEW r, AnySeq(q), AnySeq(r), q # << >>
  PROVE  q \o r # << >> /\ Head(q \o r) = Head(q)
  <1>1. Len(q) \in Nat \ {0} /\ Head(q) = q[1]
    BY TailAt
  <1>2. AnySeq(q \o r) /\ Len(q \o r) = Len(q) + Len(r) /\ Len(r) \in Nat /\ (q \o r)[1] = q[1]
    <2>1. 1 \in 1..Len(q)
      BY <1>1
    <2> QED BY <2>1, ConcatAt
  <1> DEFINE p == q \o r
  <1> HIDE DEF p
  <1>3. Len(p) # 0 /\ AnySeq(p)
    BY <1>1, <1>2 DEF p
  <1>4. p # << >>
    BY <1>3, NoneAt
  <1>5. Head(p) = p[1]
    BY <1>3, <1>4, TailAt
  <1> QED BY <1>1, <1>2, <1>4, <1>5 DEF p

\* The modem is opened once, and says so once.
LEMMA OpeningAfter ==
  ASSUME Typed, Opening, NEW w \in Works, engq' = engq \o w.calls,
         UNCHANGED <<capsKnown, up>>, msgs # << >>, msgs' = Tail(msgs)
  PROVE  Opening'
  <1> SUFFICES ASSUME MaxCrashes = 0 PROVE Opening'
    BY DEF Opening
  <1>1. AnySeq(w.calls) /\ AnySeq(engq) /\ In(w.calls) \subseteq Orders /\ AnySeq(msgs')
    BY FixType, TailAt DEF Typed
  <1>2. OpenCall \notin Orders
    BY DEF OpenCall, Orders, Fixings, Spacings
  <1>3. Count(w.calls, {OpenCall}) = 0
    BY <1>1, <1>2, CountIs
  <1>4. Count(engq', {OpenCall}) = Count(engq, {OpenCall}) /\ Count(engq, {OpenCall}) \in Nat
    BY <1>1, <1>3, CountConcat, CountIs
  <1>5. /\ Count(msgs', Ups) <= Count(msgs, Ups)
        /\ Count(msgs', Ups) \in Nat /\ Count(msgs, Ups) \in Nat
    BY <1>1, CountTail, CountIs DEF Typed
  <1>6. Count(msgs', Ups) + Count(engq', {OpenCall}) + (IF capsKnown THEN 1 ELSE 0) <= 1
    <2> DEFINE p == IF capsKnown THEN 1 ELSE 0
    <2>1. p \in Nat /\ Count(msgs, Ups) + Count(engq, {OpenCall}) + p <= 1
      BY DEF Opening
    <2> HIDE DEF p
    <2>2. Count(msgs', Ups) + Count(engq', {OpenCall}) + p <= 1
      BY <1>4, <1>5, <2>1
    <2> QED BY <2>2 DEF p
  <1>7. ~up' => engq' # << >> /\ Head(engq').op = "open"
    BY <1>1, HeadStays DEF Opening
  <1> QED BY <1>6, <1>7 DEF Opening, Ups

\* The news that the modem is open again is still to come.
LEMMA ReopeningAfter ==
  ASSUME Typed, NEW w \in Works, engq' = engq \o w.calls, msgs # << >>, msgs' = Tail(msgs),
         Head(msgs) \notin Ups, Reopening
  PROVE  Reopening'
  <1>1. AnySeq(w.calls) /\ AnySeq(engq) /\ In(msgs) = In(msgs') \cup {Head(msgs)}
    BY FixType, TailAt DEF Typed
  <1>2. In(engq') = In(engq) \cup In(w.calls)
    BY <1>1, ConcatAt
  <1>3. CASE OpenCall \in In(engq)
    BY <1>2, <1>3 DEF Reopening
  <1>4. CASE In(msgs) \cap Ups # {}
    <2>1. In(msgs') \cap Ups # {}
      BY <1>1, <1>4
    <2> QED BY <2>1 DEF Reopening, Ups
  <1> QED BY <1>3, <1>4 DEF Reopening

\* The first of a queue gone, what is behind each refusal is still behind it.
LEMMA HeededTail ==
  ASSUME NEW q, AnySeq(q), q # << >>, Heeded(q)
  PROVE  Heeded(Tail(q))
  <1>1. /\ Len(q) \in Nat /\ Len(Tail(q)) \in Nat /\ Len(q) = Len(Tail(q)) + 1
        /\ \A i \in 1..Len(Tail(q)) : Tail(q)[i] = q[i + 1]
    BY TailAt
  <1> SUFFICES ASSUME NEW i \in 1..Len(Tail(q)), Refusal(Tail(q)[i])
               PROVE  \E j \in 1..Len(Tail(q)) : i < j /\ Tail(q)[j] \in Ups
    BY DEF Heeded
  <1>2. i + 1 \in 1..Len(q) /\ Refusal(q[i + 1])
    BY <1>1
  <1>3. PICK j \in 1..Len(q) : i + 1 < j /\ q[j] \in Ups
    BY <1>2 DEF Heeded
  <1>4. j - 1 \in 1..Len(Tail(q)) /\ i < j - 1 /\ (j - 1) + 1 = j
    BY <1>1, <1>3
  <1>5. Tail(q)[j - 1] \in Ups
    BY <1>1, <1>3, <1>4
  <1> QED BY <1>4, <1>5

\* A message that is no refusal is appended.
LEMMA HeededAppend ==
  ASSUME NEW q, NEW m, AnySeq(q), Heeded(q), ~Refusal(m)
  PROVE  Heeded(Append(q, m))
  <1> DEFINE r == Append(q, m)
  <1>1. /\ Len(q) \in Nat /\ Len(r) = Len(q) + 1 /\ r[Len(q) + 1] = m
        /\ \A i \in 1..Len(q) : r[i] = q[i]
    BY AppendAt
  <1> HIDE DEF r
  <1> SUFFICES ASSUME NEW i \in 1..Len(r), Refusal(r[i])
               PROVE  \E j \in 1..Len(r) : i < j /\ r[j] \in Ups
    BY DEF Heeded, r
  <1>2. i \in 1..Len(q) /\ Refusal(q[i])
    <2>1. i # Len(q) + 1
      BY <1>1
    <2>2. i \in 1..Len(q)
      BY <1>1, <2>1
    <2> QED BY <1>1, <2>2
  <1>3. PICK j \in 1..Len(q) : i < j /\ q[j] \in Ups
    BY <1>2 DEF Heeded
  <1>4. j \in 1..Len(r) /\ r[j] \in Ups
    BY <1>1, <1>3
  <1> QED BY <1>3, <1>4

\* The message that the modem is open is appended.
LEMMA HeededUp ==
  ASSUME NEW q, NEW m, AnySeq(q), m \in Ups
  PROVE  Heeded(Append(q, m))
  <1> DEFINE r == Append(q, m)
  <1>1. Len(q) \in Nat /\ Len(r) = Len(q) + 1 /\ r[Len(q) + 1] = m
    BY AppendAt
  <1> HIDE DEF r
  <1> SUFFICES ASSUME NEW i \in 1..Len(r), Refusal(r[i])
               PROVE  \E j \in 1..Len(r) : i < j /\ r[j] \in Ups
    BY DEF Heeded, r
  <1>2. i # Len(q) + 1
    BY <1>1 DEF Refusal, Ups
  <1>3. Len(r) \in 1..Len(r) /\ i < Len(r) /\ r[Len(r)] \in Ups
    BY <1>1, <1>2
  <1> QED BY <1>3

\* The modem has refused a call: it is to be opened again.
LEMMA RefusedIs ==
  ASSUME Typed, Restarts, NEW m \in In(msgs), Refusal(m)
  PROVE  MaxCrashes > 0 /\ Reopening
  <1>1. m \in Telling
    BY KindIs DEF Typed, Refusal
  <1>2. MaxCrashes > 0
    BY <1>1, TrackingAssumption DEF Telling, Refusal
  <1>3. CASE OpenCall \in In(engq)
    BY <1>2, <1>3 DEF Reopening
  <1>4. CASE Heeded(msgs)
    <2>1. PICK i \in 1..Len(msgs) : m = msgs[i]
      BY DEF In
    <2>2. PICK j \in 1..Len(msgs) : msgs[j] \in Ups
      BY <1>4, <2>1 DEF Heeded
    <2>3. In(msgs) \cap Ups # {}
      BY <2>2 DEF In
    <2> QED BY <1>2, <2>3 DEF Reopening
  <1> QED BY <1>2, <1>3, <1>4 DEF Restarts

\* What a restart calls for is still to come.
LEMMA RestartsAfter ==
  ASSUME Typed, Restarts, NEW w \in Works, engq' = engq \o w.calls,
         UNCHANGED <<capsKnown, pending, up>>, msgs # << >>, msgs' = Tail(msgs)
  PROVE  Restarts'
  <1> SUFFICES ASSUME MaxCrashes > 0
               PROVE  /\ capsKnown' /\ pending' = << >>
                      /\ ~up' => OpenCall \in In(engq')
                      /\ OpenCall \in In(engq') \/ Heeded(msgs')
    BY DEF Restarts, Heeded, Refusal, Ups
  <1>1. AnySeq(w.calls) /\ AnySeq(engq)
    BY FixType DEF Typed
  <1>2. In(engq) \subseteq In(engq')
    BY <1>1, ConcatAt
  <1>3. Heeded(msgs) => Heeded(msgs')
    BY HeededTail DEF Typed
  <1> QED BY <1>2, <1>3 DEF Restarts

\* A session with a distance that the work spares is still run, or to be.
LEMMA CoveredAfter ==
  ASSUME Typed, NEW w \in Works, engq' = engq \o w.calls, distanceBased' = w.dist,
         UNCHANGED <<engine, pending, capsKnown>>, msgs # << >>, msgs' = Tail(msgs),
         NEW t \in Sessions, Covered(t), Reopening => Reopening',
         Reopening \/ Spares(w, Head(msgs), t)
  PROVE  Covered(t)'
  <1> SUFFICES ASSUME t \in DOMAIN w.dist, ~Reopening
               PROVE  \/ t \in engine.dist
                      \/ \E c \in In(engq') : c.op = "startDistance" /\ c.s = t
                      \/ \E x \in Ending : Awaits(t, x)'
    BY DEF Covered, Ending
  <1>1. AnySeq(w.calls) /\ AnySeq(engq)
    BY FixType DEF Typed
  <1>2. In(engq') = In(engq) \cup In(w.calls)
    BY <1>1, ConcatAt
  <1>3. CASE \E c \in In(w.calls) : c.op = "startDistance" /\ c.s = t
    BY <1>2, <1>3
  <1>4. CASE \E x \in Ending : CallsFor(w, t, x)
    BY <1>2, <1>4 DEF CallsFor, Awaits
  <1>5. CASE /\ t \in DOMAIN distanceBased
             /\ ~(Head(msgs).type = "answer" /\ Head(msgs).s = t /\ Head(msgs).then \in Ending)
    <2>1. \/ t \in engine.dist
          \/ \E c \in In(engq) : c.op = "startDistance" /\ c.s = t
          \/ \E x \in Ending : Awaits(t, x)
      BY <1>5 DEF Covered
    <2>2. ASSUME NEW x \in Ending, Awaits(t, x) PROVE Awaits(t, x)'
      BY <1>5, <2>2, TakenIs
    <2> QED BY <1>2, <2>1, <2>2
  <1> QED BY <1>3, <1>4, <1>5 DEF Spares

\* Every handler of a message about a session that does no more than this keeps the
\* invariant.
LEMMA Handled ==
  ASSUME IInv, msgs # << >>, msgs' = Tail(msgs), NEW w \in Works, Commit(w),
         UNCHANGED <<clients, capsKnown, pending, Unchanging>>,
         NEW s \in Sessions, IsAbout(Head(msgs), s), Result(w, Head(msgs), s)
  PROVE  IInv'
  <1> DEFINE m == Head(msgs)
  <1>1. /\ Typed /\ Opening /\ Restarts /\ Leaving
        /\ \A t \in Sessions : Sound(t) /\ Covered(t)
        /\ engine' = engine /\ up' = up /\ started' = started /\ live' = live /\ used' = used
        /\ clients' = clients /\ capsKnown' = capsKnown /\ pending' = pending
        /\ timeBased' = w.time /\ distanceBased' = w.dist /\ owed' = w.owed
        /\ engq' = engq \o w.calls
    BY DEF IInv, Unchanging, Commit
  <1>a. Head(msgs) \notin Ups
    BY <1>1, TailAt, KindIs DEF Typed, IsAbout, Ups, Asks3
  <1>b. Reopening => Reopening'
    BY <1>1, <1>a, ReopeningAfter
  <1>2. Typed' /\ Opening' /\ Restarts' /\ Serving'
    BY <1>1, <1>b, TypedAfter, OpeningAfter, RestartsAfter, NowAfter DEF Result
  <1>c. ASSUME NEW t \in Sessions PROVE Covered(t)'
    <2>1. t # s => Spares(w, Head(msgs), t)
      BY DEF Result, Spares, IsAbout
    <2>2. Reopening \/ Spares(w, Head(msgs), t)
      BY <2>1 DEF Result
    <2> QED BY <1>1, <1>b, <2>2, CoveredAfter
  <1>3. Leaving'
    <2>1. In(msgs') \subseteq In(msgs)
      BY <1>1, TailAt DEF Typed
    <2> QED BY <1>1, <2>1 DEF Leaving
  <1>4. ASSUME NEW t \in Sessions, t # s PROVE Sound(t)'
    <2>1. \A c \in In(w.calls) : c.s = t => c.then = "none"
      BY <1>4 DEF Result
    <2>2. ~IsAbout(m, t)
      BY <1>4 DEF IsAbout
    <2>3. /\ Flight(t)' = Flight(t)
          /\ \A x : (Awaits(t, x)' <=> Awaits(t, x)) /\ (Asked(t, x)' <=> Asked(t, x))
      BY <1>1, <2>1, <2>2, TakenIs
    <2>4. Untouched(t)
      BY <1>1, <1>4, <2>3 DEF Untouched, Result
    <2>5. started \in Nat /\ started <= started
      BY <1>1 DEF Typed
    <2> QED BY <1>1, <2>4, <2>5, UntouchedSound
  <1>5. /\ Flight(s) \in Nat /\ Flight(s) >= 1 /\ Count(w.calls, Dues(s)) \in Nat
        /\ Flight(s)' = Flight(s) - 1 + Count(w.calls, Dues(s))
        /\ Flight(s) = 1 =>
              /\ \A x : ~Asked(s, x)'
              /\ \A x : x # "erase" /\ Awaits(s, x)' => CallsFor(w, s, x)
        /\ \A x : /\ Awaits(s, x)' => Awaits(s, x) \/ CallsFor(w, s, x)
                  /\ Asked(s, x)' => Asked(s, x)
                  /\ Awaits(s, x) => Awaits(s, x)' \/ (m.type = "answer" /\ m.s = s /\ m.then = x)
    BY <1>1, TakenIs
  <1>6. owed[s] \in Int /\ w.owed[s] \in Int /\ s \in Nat
    BY <1>1, SessionsAre DEF Typed, Works, Now
  <1> HIDE DEF m
  <1>7. Sound(s)
    BY <1>1
  <1>8. Balanced(s)'
    <2> SUFFICES ASSUME Owner[s] \in clients
                 PROVE  w.owed[s] >= Flight(s)' /\ (Complete => w.owed[s] = Flight(s)')
      BY <1>1 DEF Balanced, Complete, Filled
    <2>1. owed[s] >= Flight(s) /\ (Complete => owed[s] = Flight(s))
      BY <1>7 DEF Sound, Balanced
    <2>2. /\ w.owed[s] >= owed[s] - 1 + Count(w.calls, Dues(s))
          /\ Complete => w.owed[s] = owed[s] - 1 + Count(w.calls, Dues(s))
      BY DEF Result
    <2> QED BY <1>5, <1>6, <2>1, <2>2
  <1>9. s \in Patient /\ Owner[s] \in clients => Flight(s) = 1 /\ owed[s] = 1 /\ Owner[s] \in live
    BY <1>5, <1>6, <1>7 DEF Sound, Balanced, OneAtATime
  <1>10. OneAtATime(s)'
    BY <1>1, <1>6, <1>9 DEF OneAtATime, Result
  <1>11. Unborn(s)'
    <2>1. ~(s > started)
      <3>1. Asked(s, m.type) \/ Awaits(s, m.then)
        <4>1. m \in In(msgs)
          BY <1>1, TailAt DEF Typed, m
        <4> QED BY <4>1 DEF Asked, Awaits, IsAbout, m
      <3> QED BY <1>7, <3>1 DEF Sound, Unborn
    <2> QED BY <1>1, <2>1 DEF Unborn
  <1>12. Removed(s)'
    BY <1>1, <1>5, <1>7 DEF Sound, Removed, Result
  <1>13. TimeOnly(s)'
    BY <1>1, <1>5, <1>7 DEF Sound, TimeOnly, Result
  <1>14. Orphaned(s)'
    <2> SUFFICES ASSUME Owner[s] \notin clients
                 PROVE  /\ MaxCrashes = 0 \/ s \in Patient => s \notin DOMAIN w.time
                        /\ MaxCrashes = 0 /\ s \in DOMAIN w.dist => Awaits(s, "erase")'
      BY <1>1 DEF Orphaned
    <2>1. MaxCrashes = 0 \/ s \in Patient => s \notin DOMAIN w.time
      BY DEF Result
    <2>2. MaxCrashes = 0 /\ s \in DOMAIN w.dist =>
             s \in DOMAIN distanceBased /\ ~(m.type = "answer" /\ m.then = "erase")
      BY DEF Result, m
    <2> QED BY <1>5, <1>7, <2>1, <2>2 DEF Sound, Orphaned
  <1>15. Fits(s)'
    <2>1. CASE s \in Patient /\ Owner[s] \in clients
      <3>1. /\ \A x : ~Asked(s, x)'
            /\ \A x : x # "erase" /\ Awaits(s, x)' => CallsFor(w, s, x)
        BY <1>5, <1>9, <2>1
      <3>2. ~Awaits(s, "erase")'
        BY <1>5, <1>7, <2>1 DEF Sound, Fits, Result
      <3> QED BY <1>1, <2>1, <3>1, <3>2 DEF Fits, Result
    <2>2. CASE s \notin Patient
      <3>1. \A x \in Spacing \cup {"erase"} : ~Awaits(s, x)'
        BY <1>13, <2>2 DEF TimeOnly
      <3>2. s \notin DOMAIN w.dist
        BY <2>2 DEF Result
      <3> QED BY <1>1, <2>2, <3>1, <3>2 DEF Fits, Spacing
    <2>3. CASE s \in Patient /\ Owner[s] \notin clients
      <3>1. (\A k : ~Asked(s, k)') /\ (\A x \in Spacing \cup {"updated"} : ~Awaits(s, x)')
        BY <1>1, <1>12, <2>3 DEF Removed
      <3>2. s \notin DOMAIN w.time
        BY <2>3 DEF Result
      <3> QED BY <1>1, <2>3, <3>1, <3>2 DEF Fits, Spacing
    <2> QED BY <2>1, <2>2, <2>3
  <1>16. Sound(s)'
    BY <1>8, <1>10, <1>11, <1>12, <1>13, <1>14, <1>15 DEF Sound
  <1> QED BY <1>2, <1>3, <1>4, <1>16, <1>c DEF IInv

-----------------------------------------------------------------------------
(* What each handler of a message about a session does.                    *)

\* The work a handler begins with, and the message it takes.
LEMMA NowIs ==
  ASSUME IInv, msgs # << >>
  PROVE  /\ Typed /\ EngineOK /\ Now \in Works /\ ServesTable(Now, Now.time)
         /\ Now.time = timeBased /\ Now.dist = distanceBased /\ Now.calls = << >>
         /\ Now.owed = owed /\ owed \in [Sessions -> Int]
         /\ timeBased \in Tables(TimeOpts) /\ distanceBased \in Tables(DistOpts)
         /\ DOMAIN timeBased \subseteq Sessions /\ DOMAIN distanceBased \subseteq Sessions
         /\ Head(msgs) \in Messages /\ Head(msgs) \in In(msgs)
         /\ Restarts /\ \A s \in Sessions : Sound(s)
  <1>1. Typed /\ Serving /\ Restarts /\ \A s \in Sessions : Sound(s)
    BY DEF IInv
  <1>2. Head(msgs) \in In(msgs) /\ In(msgs) \subseteq Messages
    BY <1>1, TailAt DEF Typed
  <1>3. EngineOK /\ Now \in Works
    BY <1>1 DEF Typed
  <1>4. /\ Now.time = timeBased /\ Now.dist = distanceBased /\ Now.calls = << >>
        /\ Now.owed = owed
    BY DEF Now
  <1>5. /\ owed \in [Sessions -> Int]
        /\ timeBased \in Tables(TimeOpts) /\ distanceBased \in Tables(DistOpts)
    BY <1>3, <1>4 DEF Works
  <1>6. DOMAIN timeBased \subseteq Sessions /\ DOMAIN distanceBased \subseteq Sessions
    BY <1>5, TableIs
  <1> QED BY <1>1, <1>2, <1>3, <1>4, <1>5, <1>6 DEF Serving

\* A table is served as long as the fix, its needs and what is known of it stay.
LEMMA ServesStill ==
  ASSUME NEW w, NEW v, NEW f, ServesTable(w, f),
         FixOf(v) = FixOf(w), v.spe = w.spe, v.nHz = w.nHz
  PROVE  ServesTable(v, f)
  BY DEF ServesTable, Suits, Suited

\* A session saved, in the table its options call for.
LEMMA SaveIs ==
  ASSUME NEW w \in Works, NEW s \in Sessions, NEW o \in TimeOpts \cup DistOpts
  PROVE  LET v == SaveTrackingSession(w, s, o)
         IN  /\ v \in Works /\ v.calls = w.calls /\ v.owed = w.owed /\ v.nHz = w.nHz
             /\ v.spe = w.spe /\ FixOf(v) = FixOf(w)
             /\ o \in TimeOpts => v.time = With(w.time, s, o) /\ v.dist = w.dist
             /\ o \in DistOpts => v.dist = With(w.dist, s, o) /\ v.time = w.time
  <1> DEFINE v == SaveTrackingSession(w, s, o)
  <1>1. w.time \in Tables(TimeOpts) /\ w.dist \in Tables(DistOpts)
    BY DEF Works
  <1>2. CASE o \in TimeOpts
    <2>1. v = [w EXCEPT !.time = With(w.time, s, o)] /\ o \notin DistOpts
      BY <1>2 DEF SaveTrackingSession, TimeOpts, DistOpts
    <2>2. With(w.time, s, o) \in Tables(TimeOpts)
      BY <1>1, <1>2, WithIs
    <2>3. /\ v \in Works /\ v.calls = w.calls /\ v.owed = w.owed /\ v.nHz = w.nHz
          /\ v.spe = w.spe /\ v.time = With(w.time, s, o) /\ v.dist = w.dist
      BY <2>1, <2>2 DEF Works
    <2> QED BY <2>1, <2>3 DEF FixOf
  <1>3. CASE o \in DistOpts
    <2>1. v = [w EXCEPT !.dist = With(w.dist, s, o)] /\ o \notin TimeOpts
      BY <1>3 DEF SaveTrackingSession, TimeOpts, DistOpts
    <2>2. With(w.dist, s, o) \in Tables(DistOpts)
      BY <1>1, <1>3, WithIs
    <2>3. /\ v \in Works /\ v.calls = w.calls /\ v.owed = w.owed /\ v.nHz = w.nHz
          /\ v.spe = w.spe /\ v.dist = With(w.dist, s, o) /\ v.time = w.time
      BY <2>1, <2>2 DEF Works
    <2> QED BY <2>1, <2>3 DEF FixOf
  <1> QED BY <1>2, <1>3 DEF v

\* A session erased, from the table it is in.
LEMMA EraseIs ==
  ASSUME NEW w \in Works, NEW s \in Sessions
  PROVE  LET v == EraseTrackingSession(w, s)
         IN  /\ v \in Works /\ v.calls = w.calls /\ v.owed = w.owed /\ v.nHz = w.nHz
             /\ v.spe = w.spe /\ FixOf(v) = FixOf(w)
             /\ s \in DOMAIN w.time => v.time = Without(w.time, s) /\ v.dist = w.dist
             /\ s \notin DOMAIN w.time => v.dist = Without(w.dist, s) /\ v.time = w.time
  <1> DEFINE v == EraseTrackingSession(w, s)
  <1>1. /\ Without(w.time, s) \in Tables(TimeOpts) /\ Without(w.dist, s) \in Tables(DistOpts)
    BY WithoutIs DEF Works
  <1>2. CASE s \in DOMAIN w.time
    <2>1. v = [w EXCEPT !.time = Without(w.time, s)]
      BY <1>2 DEF EraseTrackingSession
    <2>2. /\ v \in Works /\ v.calls = w.calls /\ v.owed = w.owed /\ v.nHz = w.nHz
          /\ v.spe = w.spe /\ v.time = Without(w.time, s) /\ v.dist = w.dist
      BY <1>1, <2>1 DEF Works
    <2> QED BY <1>2, <2>2 DEF FixOf
  <1>3. CASE s \notin DOMAIN w.time
    <2>1. v = [w EXCEPT !.dist = Without(w.dist, s)]
      BY <1>3 DEF EraseTrackingSession
    <2>2. /\ v \in Works /\ v.calls = w.calls /\ v.owed = w.owed /\ v.nHz = w.nHz
          /\ v.spe = w.spe /\ v.dist = Without(w.dist, s) /\ v.time = w.time
      BY <1>1, <2>1 DEF Works
    <2> QED BY <1>3, <2>2 DEF FixOf
  <1> QED BY <1>2, <1>3 DEF v

\* The command is answered, or a call has been made whose answer will be its answer.
Accounts(w, s) ==
    /\ \A t \in Sessions \ {s} : w.owed[t] = owed[t]
    /\ \A c \in In(w.calls) : c.s = s \/ c.then = "none"
    /\ Owner[s] \in clients =>
          w.owed[s] <= owed[s] /\ w.owed[s] = owed[s] - 1 + Count(w.calls, Dues(s))

\* One answer given, or one call about the fix queued, accounts for a command.
LEMMA AnswersAccounts ==
  ASSUME IInv, msgs # << >>, NEW w, NEW s \in Sessions, NEW K, K \subseteq Plain,
         Answers(Now, w, s, K)
  PROVE  /\ Accounts(w, s)
         /\ \A c \in In(w.calls) : c.then \in K
         /\ Owner[s] \notin clients /\ w.calls = << >> => w.owed = owed
  <1>1. Now.calls = << >> /\ Now.owed = owed /\ owed \in [Sessions -> Int]
    BY NowIs
  <1>2. CASE w.calls = Now.calls /\ w.owed = OneLess(Now.owed, s)
    <2>1. In(w.calls) = {} /\ Count(w.calls, Dues(s)) = 0
      BY <1>1, <1>2, NoneAt, CountOne
    <2>2. /\ \A t \in Sessions \ {s} : w.owed[t] = owed[t]
          /\ Owner[s] \in clients => w.owed[s] = owed[s] - 1
          /\ Owner[s] \notin clients => w.owed = owed
          /\ owed[s] \in Int
      BY <1>1, <1>2 DEF OneLess
    <2> QED BY <2>1, <2>2 DEF Accounts
  <1>3. ASSUME w.owed = Now.owed, NEW c \in Fixings, c.s = s, c.then \in K,
               w.calls = Append(Now.calls, c)
        PROVE  Accounts(w, s) /\ (\A d \in In(w.calls) : d.then \in K) /\ w.owed = owed
    <2>1. AnySeq(<< >>) /\ In(<< >>) = {}
      BY NoneAt
    <2>2. In(w.calls) = {c}
      <3>1. In(Append(<< >>, c)) = In(<< >>) \cup {c}
        BY <2>1, AppendAt, Zenon
      <3> QED BY <1>1, <1>3, <2>1, <3>1
    <2>3. c \in Dues(s)
      BY <1>3 DEF Dues, Fixings, Plain
    <2>4. Count(w.calls, Dues(s)) = 1
      BY <1>1, <1>3, <2>1, <2>3, CountAppend, CountOne
    <2>5. w.owed = owed /\ owed[s] \in Int
      BY <1>1, <1>3
    <2> QED BY <1>3, <2>2, <2>4, <2>5 DEF Accounts
  <1> QED BY <1>2, <1>3 DEF Answers

\* What an operation hands to the engine is one more call.
Adds(w, v, c) == v = [w EXCEPT !.calls = Append(@, c)]

\* A call about distance is queued either for no answer, the answers being accounted for, or for
\* the answer of a command under way.
Answerable(w, c, s) ==
  /\ c \in Spacings /\ c.s = s
  /\ \/ c.then = "none" /\ Accounts(w, s)
     \/ c.then \in Spacing /\ w.calls = << >> /\ w.owed = owed

\* What stands after it: the same tables and fix, the answers accounted for, one call more.
CallLeaves(w, v, c, s) ==
  /\ v \in Works /\ Accounts(v, s) /\ v.time = w.time /\ v.dist = w.dist
  /\ v.nHz = w.nHz /\ v.spe = w.spe /\ FixOf(v) = FixOf(w)
  /\ In(v.calls) = In(w.calls) \cup {c}

\* One call about distance queued behind the others, for an answer or for none.
LEMMA CallAccounts ==
  ASSUME IInv, msgs # << >>, NEW w, w \in Works, NEW s, s \in Sessions,
         NEW c, Answerable(w, c, s), NEW v, Adds(w, v, c)
  PROVE  CallLeaves(w, v, c, s)
  <1>0. /\ c \in Spacings /\ c.s = s
        /\ \/ c.then = "none" /\ Accounts(w, s)
           \/ c.then \in Spacing /\ w.calls = << >> /\ w.owed = owed
    BY DEF Answerable
  <1>1. EngineOK /\ owed \in [Sessions -> Int]
    BY NowIs
  <1>2. c \in Orders /\ c \in Bodies /\ c.op \notin {"startTime", "stopFix"}
    BY <1>0 DEF Orders, Spacings
  <1>3. /\ Same(w, v) /\ v.owed = w.owed /\ v.spe = w.spe /\ v.calls = Append(w.calls, c)
        /\ FixOf(v) = FixOf(w)
    BY <1>0, <1>1, <1>2, CallIs DEF Adds
  <1>4. AnySeq(w.calls)
    BY <1>1, FixType
  <1>5. In(v.calls) = In(w.calls) \cup {c}
    BY <1>3, <1>4, AppendAt
  <1>6. Count(v.calls, Dues(s)) = Count(w.calls, Dues(s)) + IF c \in Dues(s) THEN 1 ELSE 0
    BY <1>3, <1>4, CountAppend
  <1>7. Accounts(v, s)
    <2>1. CASE c.then = "none" /\ Accounts(w, s)
      <3>1. c \notin Dues(s) /\ Count(w.calls, Dues(s)) \in Nat
        BY <1>4, <2>1, CountIs DEF Dues
      <3> QED BY <1>3, <1>5, <1>6, <2>1, <3>1 DEF Accounts
    <2>2. CASE c.then \in Spacing /\ w.calls = << >> /\ w.owed = owed
      <3>1. c \in Dues(s)
        BY <1>0, <1>2, <2>2 DEF Dues, Spacing
      <3>2. Count(w.calls, Dues(s)) = 0 /\ In(w.calls) = {}
        BY <2>2, NoneAt, CountOne
      <3>3. Count(v.calls, Dues(s)) = 1 /\ owed[s] \in Int
        BY <1>1, <1>6, <3>1, <3>2
      <3> QED BY <1>0, <1>3, <1>5, <2>2, <3>2, <3>3 DEF Accounts
    <2> QED BY <1>0, <2>1, <2>2
  <1> QED BY <1>3, <1>5, <1>7 DEF Same, CallLeaves

\* The command is answered, and nothing else done.
LEMMA Reported ==
  ASSUME IInv, msgs # << >>, NEW s \in Sessions, IsAbout(Head(msgs), s),
         Reopening \/ ~(Head(msgs).type = "answer" /\ Head(msgs).then \in Ending)
  PROVE  /\ ReportResponse(Now, s) \in Works
         /\ Result(ReportResponse(Now, s), Head(msgs), s)
  <1> DEFINE w == ReportResponse(Now, s)
  <1>1. /\ Now \in Works /\ ServesTable(Now, Now.time) /\ Sound(s) /\ Now.calls = << >>
        /\ Now.time = timeBased /\ Now.dist = distanceBased
    BY NowIs
  <1>2. Answers(Now, w, s, {}) /\ w.spe = Now.spe /\ w.calls = << >> /\ FixOf(w) = FixOf(Now)
    BY <1>1, ReportIs
  <1> HIDE DEF w
  <1>3. Accounts(w, s) /\ w \in Works /\ w.time = timeBased /\ w.dist = distanceBased
    BY <1>1, <1>2, AnswersAccounts DEF Answers, Same
  <1>4. ServesTable(w, w.time)
    BY <1>1, <1>2, ServesStill DEF Answers, Same
  <1>5. \A x : ~CallsFor(w, s, x)
    BY <1>2, NoneAt DEF CallsFor
  <1>6. w.owed[s] \in Int /\ owed[s] \in Int
    BY <1>3, NowIs DEF Works
  <1>a. Reopening => MaxCrashes # 0
    BY TrackingAssumption DEF Reopening
  <1>b. Reopening \/ Spares(w, Head(msgs), s)
    BY <1>3 DEF Spares
  <1>7. Result(w, Head(msgs), s)
    BY <1>1, <1>3, <1>4, <1>5, <1>6, <1>a, <1>b
       DEF Result, Accounts, Sound, Fits, TimeOnly, Orphaned, Ending
  <1> QED BY <1>3, <1>7 DEF w

\* A message that is not answered: its client has gone, or has given no options, or the modem has
\* refused to stop a session.
LEMMA Ignored ==
  ASSUME IInv, msgs # << >>, NEW s \in Sessions, IsAbout(Head(msgs), s),
         Reopening \/ ~(Head(msgs).type = "answer" /\ Head(msgs).then \in Ending),
         Owner[s] \notin clients \/ ~Complete
  PROVE  Result(Now, Head(msgs), s)
  <1>1. /\ ServesTable(Now, Now.time) /\ Sound(s) /\ Now.calls = << >> /\ Now.owed = owed
        /\ Now.time = timeBased /\ Now.dist = distanceBased /\ owed \in [Sessions -> Int]
    BY NowIs
  <1>2. In(Now.calls) = {} /\ Count(Now.calls, Dues(s)) = 0
    BY <1>1, NoneAt, CountOne
  <1>3. \A x : ~CallsFor(Now, s, x)
    BY <1>2 DEF CallsFor
  <1>4. owed[s] \in Int /\ owed[s] <= owed[s] /\ owed[s] >= owed[s] - 1 + 0
    BY <1>1
  <1>5. Reopening => MaxCrashes # 0
    BY TrackingAssumption DEF Reopening
  <1>6. Reopening \/ Spares(Now, Head(msgs), s)
    BY <1>1 DEF Spares
  <1> QED BY <1>1, <1>2, <1>3, <1>4, <1>5, <1>6
          DEF Result, Sound, Fits, TimeOnly, Orphaned, Ending

\* The options of a command.
LEMMA OptionsOf ==
  ASSUME NEW o \in TrackingOptions, o.size # 0
  PROVE  /\ o.distance = 0 => /\ FallBack(o) \in TrackingOptions
                              /\ ClampInterval(FallBack(o)) \in TimeOpts
                              /\ FallBack(ClampInterval(o)) \in TimeOpts
                              /\ ClampInterval(o).distance = 0
         /\ o.distance > 0 => /\ ClampInterval(FallBack(o)) \in DistOpts
                              /\ ClampInterval(o) \in DistOpts
  <1>1. ASSUME NEW a \in TrackingOptions, a.size # 0
        PROVE  /\ ClampInterval(a) \in TrackingOptions /\ ClampInterval(a).size = 1
               /\ ClampInterval(a).interval >= MinInterval
               /\ ClampInterval(a).distance = a.distance
               /\ a.size = 1 /\ a.distance \in {0, 1}
    BY <1>1 DEF ClampInterval, TrackingOptions
  <1>2. ASSUME NEW a \in TrackingOptions
        PROVE  /\ FallBack(a) \in TrackingOptions /\ FallBack(a).size = a.size
               /\ FallBack(a).interval = a.interval /\ FallBack(a).distance = a.distance
    BY <1>2 DEF FallBack, TrackingOptions
  <1>3. /\ ClampInterval(o) \in TrackingOptions /\ ClampInterval(o).size = 1
        /\ ClampInterval(o).interval >= MinInterval /\ ClampInterval(o).distance = o.distance
        /\ o.distance \in {0, 1} /\ o.size = 1
    BY <1>1
  <1> DEFINE c == ClampInterval(o)
             g == FallBack(o)
             d == FallBack(c)
             e == ClampInterval(g)
  <1>4. /\ d \in TrackingOptions /\ d.size = 1 /\ d.interval >= MinInterval
        /\ d.distance = o.distance
    <2>1. c \in TrackingOptions
      BY <1>3
    <2>2. d \in TrackingOptions /\ d.size = c.size /\ d.interval = c.interval
          /\ d.distance = c.distance
      BY <1>2, <2>1
    <2> QED BY <1>3, <2>2
  <1>5. /\ e \in TrackingOptions /\ e.size = 1 /\ e.interval >= MinInterval
        /\ e.distance = o.distance
    <2>1. g \in TrackingOptions /\ g.size = o.size /\ g.distance = o.distance
      BY <1>2
    <2> QED BY <1>1, <2>1
  <1> QED BY <1>2, <1>3, <1>4, <1>5 DEF TimeOpts, DistOpts

\* A session that is started.
LEMMA StartedIs ==
  ASSUME IInv, Settled, msgs # << >>, Head(msgs).type = "start", NEW s \in Sessions,
         Head(msgs).s = s, Head(msgs).o.size # 0, Owner[s] \in clients
  PROVE  LET w == Started(s, ClampInterval(Head(msgs).o))
         IN  w \in Works /\ Result(w, Head(msgs), s)
  <1> DEFINE m == Head(msgs)
             o == ClampInterval(m.o)
             w == Started(s, o)
  <1>1. /\ EngineOK /\ Now \in Works /\ ServesTable(Now, Now.time) /\ Sound(s)
        /\ Now.time = timeBased /\ Now.dist = distanceBased /\ Now.calls = << >>
        /\ Now.owed = owed /\ owed \in [Sessions -> Int]
        /\ timeBased \in Tables(TimeOpts) /\ distanceBased \in Tables(DistOpts)
        /\ m \in Messages /\ m \in In(msgs)
    BY NowIs
  <1>2. m \in Asking
    BY <1>1, KindIs
  <1>3. m.o \in TrackingOptions /\ (s \notin Patient => m.o.distance = 0) /\ m.o.distance \in {0, 1}
    BY <1>2 DEF Asking, Commands, TrackingOptions
  <1>4. Asked(s, "start")
    BY <1>1 DEF Asked, Asks3
  <1>5. s \in Patient => s \notin DOMAIN timeBased /\ s \notin DOMAIN distanceBased
    BY <1>1, <1>4 DEF Sound, Fits
  <1>6. s \notin Patient => s \notin DOMAIN distanceBased
    BY <1>1 DEF Sound, TimeOnly
  <1>7. CASE m.o.distance > 0
    <2> DEFINE c == [op |-> "startDistance", s |-> s, o |-> o, then |-> "startedDistance",
                     kept |-> Malformed]
               u == SaveTrackingSession(Now, s, o)
    <2>1. o \in DistOpts /\ o \in TrackingOptions /\ o.distance > 0
      BY <1>3, <1>7, OptionsOf DEF DistOpts
    <2>2. Adds(u, w, c)
      BY <2>1 DEF Adds, Started, Call
    <2>3. /\ c \in Spacings /\ c.s = s /\ c.then = "startedDistance" /\ c.then \in Spacing
          /\ c.then # "none" /\ c.op = "startDistance"
      BY <2>1, MalformedIs DEF Spacings, Bodies, Spacing, Keeping
    <2> HIDE DEF o
    <2>4. /\ u \in Works /\ u.calls = << >> /\ u.owed = owed /\ u.nHz = Now.nHz
          /\ u.spe = Now.spe /\ FixOf(u) = FixOf(Now)
          /\ u.time = timeBased /\ u.dist = With(distanceBased, s, o)
      BY <1>1, <2>1, SaveIs
    <2> HIDE DEF u, c, w
    <2>5. /\ w \in Works /\ Accounts(w, s) /\ w.time = u.time /\ w.dist = u.dist
          /\ w.nHz = u.nHz /\ w.spe = u.spe /\ FixOf(w) = FixOf(u)
          /\ In(w.calls) = In(u.calls) \cup {c}
      <3>1. Answerable(u, c, s) /\ u \in Works
        BY <2>2, <2>3, <2>4 DEF Answerable
      <3>2. CallLeaves(u, w, c, s)
        BY <3>1, <2>2, <2>3, <2>4, CallAccounts, Zenon
      <3> QED BY <3>2 DEF CallLeaves
    <2>6. ServesTable(w, w.time)
      BY <1>1, <2>4, <2>5, ServesStill
    <2>7. In(w.calls) = {c}
      BY <2>4, <2>5, NoneAt
    <2>8. s \in Patient /\ DOMAIN w.dist = DOMAIN distanceBased \cup {s}
      <3>1. DOMAIN With(distanceBased, s, o) = DOMAIN distanceBased \cup {s}
        BY DEF With
      <3> QED BY <1>3, <1>7, <2>4, <2>5, <3>1
    <2>9. \A x : CallsFor(w, s, x) => x = "startedDistance"
      BY <2>3, <2>7 DEF CallsFor
    <2>10. w.owed[s] \in Int /\ owed[s] \in Int
      BY <1>1, <2>5 DEF Works
    <2>a. Spares(w, m, s)
      <3>1. c \in In(w.calls) /\ c.op = "startDistance" /\ c.s = s
        BY <2>3, <2>7
      <3> QED BY <3>1 DEF Spares
    <2>11. Result(w, m, s)
      BY <1>5, <2>4, <2>5, <2>6, <2>8, <2>9, <2>10, <2>a DEF Result, Accounts
    <2> QED BY <2>5, <2>11 DEF w, m, o
  <1>8. CASE ~(m.o.distance > 0)
    <2> DEFINE p == FallBack(o)
               u == StartTimeBasedTrackingMultiplex(Now, s, p)
    <2>1. p \in TimeOpts /\ o.distance = 0
      BY <1>3, <1>8, OptionsOf
    <2>2. w = SaveTrackingSession(u, s, p)
      BY <2>1 DEF Started
    <2> HIDE DEF p, o
    <2>3. Answers(Now, u, s, {"started"}) /\ ServesTable(u, With(timeBased, s, p))
      BY <1>1, <2>1, StartMultiplexIs
    <2> HIDE DEF u
    <2>4. /\ u \in Works /\ u.time = timeBased /\ u.dist = distanceBased
          /\ Accounts(u, s) /\ \A c \in In(u.calls) : c.then = "started"
      <3>1. {"started"} \subseteq Plain
        BY DEF Plain
      <3>2. Accounts(u, s) /\ \A c \in In(u.calls) : c.then \in {"started"}
        BY <2>3, <3>1, AnswersAccounts
      <3> QED BY <1>1, <2>3, <3>2 DEF Answers, Same
    <2>5. /\ w \in Works /\ w.calls = u.calls /\ w.owed = u.owed /\ w.nHz = u.nHz
          /\ w.spe = u.spe /\ FixOf(w) = FixOf(u)
          /\ w.time = With(timeBased, s, p) /\ w.dist = distanceBased
      BY <2>1, <2>2, <2>4, SaveIs
    <2> HIDE DEF w
    <2>6. ServesTable(w, w.time)
      BY <2>3, <2>5, ServesStill
    <2>7. DOMAIN w.time = DOMAIN timeBased \cup {s}
      <3>1. DOMAIN With(timeBased, s, p) = DOMAIN timeBased \cup {s}
        BY DEF With
      <3> QED BY <2>5, <3>1
    <2>8. \A x : CallsFor(w, s, x) => x = "started"
      BY <2>4, <2>5 DEF CallsFor
    <2>9. w.owed[s] \in Int /\ owed[s] \in Int /\ Accounts(w, s)
      BY <1>1, <2>4, <2>5 DEF Works, Accounts
    <2>a. Spares(w, m, s)
      BY <2>5 DEF Spares
    <2>10. Result(w, m, s)
      BY <1>5, <1>6, <2>5, <2>6, <2>7, <2>8, <2>9, <2>a DEF Result, Accounts, Spacing
    <2> QED BY <2>5, <2>10 DEF w, m, o
  <1> QED BY <1>7, <1>8

\* A time-based session that is stopped and erased.
LEMMA StopTimeIs ==
  ASSUME IInv, msgs # << >>, NEW s \in DOMAIN timeBased
  PROVE  LET w == EraseTrackingSession(StopTimeBasedTrackingMultiplex(Now, s), s)
         IN  /\ w \in Works /\ Accounts(w, s)
             /\ \A c \in In(w.calls) : c.then \in {"started", "stopped"}
             /\ w.time = Without(timeBased, s) /\ w.dist = distanceBased
             /\ ServesTable(w, Without(timeBased, s))
             /\ DOMAIN Without(timeBased, s) = DOMAIN timeBased \ {s}
  <1> DEFINE u == StopTimeBasedTrackingMultiplex(Now, s)
             w == EraseTrackingSession(u, s)
  <1>1. /\ EngineOK /\ Now \in Works /\ ServesTable(Now, Now.time) /\ s \in Sessions
        /\ Now.time = timeBased /\ Now.dist = distanceBased
        /\ timeBased \in Tables(TimeOpts) /\ owed \in [Sessions -> Int]
    BY NowIs
  <1>2. Answers(Now, u, s, {"started", "stopped"}) /\ ServesTable(u, Without(timeBased, s))
    BY <1>1, StopMultiplexIs
  <1> HIDE DEF u
  <1>3. /\ u \in Works /\ u.time = timeBased /\ u.dist = distanceBased
        /\ Accounts(u, s) /\ \A c \in In(u.calls) : c.then \in {"started", "stopped"}
    BY <1>1, <1>2, AnswersAccounts DEF Answers, Same, Plain
  <1>4. /\ w \in Works /\ w.calls = u.calls /\ w.owed = u.owed /\ w.nHz = u.nHz
        /\ w.spe = u.spe /\ FixOf(w) = FixOf(u)
        /\ w.time = Without(timeBased, s) /\ w.dist = distanceBased
    BY <1>1, <1>3, EraseIs
  <1> HIDE DEF w
  <1>5. ServesTable(w, Without(timeBased, s)) /\ Accounts(w, s)
    BY <1>2, <1>3, <1>4, ServesStill DEF Accounts
  <1>6. DOMAIN Without(timeBased, s) = DOMAIN timeBased \ {s}
    BY <1>1, WithoutIs
  <1> QED BY <1>3, <1>4, <1>5, <1>6 DEF w, u

\* A session that is given new options: four cases by what it is and is to be.
LEMMA UpdatedIs ==
  ASSUME IInv, Settled, msgs # << >>, Head(msgs).type = "update", NEW s \in Sessions,
         Head(msgs).s = s, Head(msgs).o.size # 0,
         s \in DOMAIN timeBased \cup DOMAIN distanceBased
  PROVE  LET w == Updated(s, ClampInterval(FallBack(Head(msgs).o)))
         IN  w \in Works /\ Result(w, Head(msgs), s)
  <1> DEFINE m == Head(msgs)
             o == ClampInterval(FallBack(m.o))
             w == Updated(s, o)
  <1>1. /\ EngineOK /\ Now \in Works /\ ServesTable(Now, Now.time) /\ Sound(s)
        /\ Now.time = timeBased /\ Now.dist = distanceBased /\ Now.calls = << >>
        /\ Now.owed = owed /\ owed \in [Sessions -> Int]
        /\ timeBased \in Tables(TimeOpts) /\ distanceBased \in Tables(DistOpts)
        /\ m \in Messages /\ m \in In(msgs)
    BY NowIs
  <1>2. m \in Asking
    BY <1>1, KindIs
  <1>3. m.o \in TrackingOptions /\ (s \notin Patient => m.o.distance = 0) /\ m.o.distance \in {0, 1}
    BY <1>2 DEF Asking, Commands, TrackingOptions
  <1>4. /\ m.o.distance = 0 => o \in TimeOpts /\ o.distance = 0
        /\ m.o.distance > 0 => o \in DistOpts /\ o.distance > 0
    BY <1>3, OptionsOf DEF TimeOpts, DistOpts
  <1>5. o \in TrackingOptions
    BY <1>3, <1>4 DEF TimeOpts, DistOpts
  <1>6. Asked(s, "update")
    BY <1>1 DEF Asked, Asks3
  <1>7. s \notin Patient => s \notin DOMAIN distanceBased
    BY <1>1 DEF Sound, TimeOnly
  <1>8. Owner[s] \in clients \/ (s \notin Patient /\ MaxCrashes # 0)
    BY <1>1, <1>6, <1>7 DEF Sound, Removed, Orphaned
  <1>9. ~(s \in DOMAIN timeBased /\ s \in DOMAIN distanceBased)
    BY <1>1 DEF Sound, Fits
  <1> HIDE DEF o
  <1>10. CASE s \in DOMAIN timeBased /\ m.o.distance > 0
    <2> DEFINE c == [op |-> "startDistance", s |-> s, o |-> o, then |-> "none",
                     kept |-> Malformed]
               u == EraseTrackingSession(StopTimeBasedTrackingMultiplex(Now, s), s)
               v == SaveTrackingSession(u, s, o)
    <2>1. Adds(v, w, c)
      BY <1>4, <1>10 DEF Adds, Updated, SwitchToDistance, Call
    <2>2. c \in Spacings /\ c.s = s /\ c.then = "none" /\ c.op = "startDistance"
      BY <1>5, MalformedIs DEF Spacings, Bodies, Keeping
    <2>3. /\ u \in Works /\ Accounts(u, s)
          /\ \A d \in In(u.calls) : d.then \in {"started", "stopped"}
          /\ u.time = Without(timeBased, s) /\ u.dist = distanceBased
          /\ ServesTable(u, Without(timeBased, s))
          /\ DOMAIN Without(timeBased, s) = DOMAIN timeBased \ {s}
      BY <1>10, StopTimeIs
    <2> HIDE DEF u, c, w
    <2>4. /\ v \in Works /\ v.calls = u.calls /\ v.owed = u.owed /\ v.nHz = u.nHz
          /\ v.spe = u.spe /\ FixOf(v) = FixOf(u)
          /\ v.time = u.time /\ v.dist = With(distanceBased, s, o)
      BY <1>4, <1>10, <2>3, SaveIs
    <2> HIDE DEF v
    <2>5. Accounts(v, s)
      BY <2>3, <2>4 DEF Accounts
    <2>6. /\ w \in Works /\ Accounts(w, s) /\ w.time = v.time /\ w.dist = v.dist
          /\ w.nHz = v.nHz /\ w.spe = v.spe /\ FixOf(w) = FixOf(v)
          /\ In(w.calls) = In(v.calls) \cup {c}
      <3>1. Answerable(v, c, s) /\ v \in Works
        BY <2>1, <2>2, <2>4, <2>5 DEF Answerable
      <3>2. CallLeaves(v, w, c, s)
        BY <3>1, <2>1, <2>2, <2>4, <2>5, CallAccounts, Zenon
      <3> QED BY <3>2 DEF CallLeaves
    <2>7. ServesTable(w, w.time)
      <3>1. ServesTable(v, Without(timeBased, s))
        BY <2>3, <2>4, ServesStill
      <3> QED BY <2>3, <2>4, <2>6, <3>1, ServesStill
    <2>8. DOMAIN w.dist = DOMAIN distanceBased \cup {s}
      <3>1. o \in DistOpts
        BY <1>4, <1>10
      <3>2. DOMAIN With(distanceBased, s, o) = DOMAIN distanceBased \cup {s}
        BY DEF With
      <3> QED BY <2>4, <2>6, <3>2
    <2>9. DOMAIN w.time = DOMAIN timeBased \ {s}
      BY <2>3, <2>4, <2>6
    <2>10. \A x : CallsFor(w, s, x) => x \in {"started", "stopped"}
      BY <2>2, <2>3, <2>4, <2>6 DEF CallsFor
    <2>11. s \in Patient
      BY <1>3, <1>10
    <2>12. w.owed[s] \in Int /\ owed[s] \in Int
      BY <1>1, <2>6 DEF Works
    <2>a. Spares(w, m, s)
      <3>1. c \in In(w.calls) /\ c.op = "startDistance" /\ c.s = s
        BY <2>2, <2>6
      <3> QED BY <3>1 DEF Spares
    <2>13. Result(w, m, s)
      BY <1>8, <2>6, <2>7, <2>8, <2>9, <2>10, <2>11, <2>12, <2>a DEF Result, Accounts, Spacing
    <2> QED BY <2>6, <2>13 DEF w, m, o
  <1>11. CASE s \in DOMAIN timeBased /\ m.o.distance = 0
    <2> DEFINE u == UpdateTrackingMultiplex(Now, s, o)
    <2>1. w = SaveTrackingSession(u, s, o)
      BY <1>4, <1>11 DEF Updated, UpdateTime
    <2>2. o \in TimeOpts
      BY <1>4, <1>11
    <2>3. Answers(Now, u, s, {"updated"}) /\ ServesTable(u, With(timeBased, s, o))
      BY <1>1, <1>11, <2>2, UpdateMultiplexIs
    <2> HIDE DEF u, w
    <2>4. /\ u \in Works /\ u.time = timeBased /\ u.dist = distanceBased
          /\ Accounts(u, s) /\ \A c \in In(u.calls) : c.then = "updated"
      <3>1. {"updated"} \subseteq Plain
        BY DEF Plain
      <3>2. Accounts(u, s) /\ \A c \in In(u.calls) : c.then \in {"updated"}
        BY <2>3, <3>1, AnswersAccounts
      <3> QED BY <1>1, <2>3, <3>2 DEF Answers, Same
    <2>5. /\ w \in Works /\ w.calls = u.calls /\ w.owed = u.owed /\ w.nHz = u.nHz
          /\ w.spe = u.spe /\ FixOf(w) = FixOf(u)
          /\ w.time = With(timeBased, s, o) /\ w.dist = distanceBased
      BY <2>1, <2>2, <2>4, SaveIs
    <2>6. ServesTable(w, w.time)
      BY <2>3, <2>5, ServesStill
    <2>7. DOMAIN w.time = DOMAIN timeBased \cup {s}
      <3>1. DOMAIN With(timeBased, s, o) = DOMAIN timeBased \cup {s}
        BY DEF With
      <3> QED BY <2>5, <3>1
    <2>8. \A x : CallsFor(w, s, x) => x = "updated"
      BY <2>4, <2>5 DEF CallsFor
    <2>9. w.owed[s] \in Int /\ owed[s] \in Int /\ Accounts(w, s)
      BY <1>1, <2>4, <2>5 DEF Works, Accounts
    <2>a. Spares(w, m, s)
      BY <2>5 DEF Spares
    <2>10. Result(w, m, s)
      BY <1>8, <1>9, <1>11, <2>5, <2>6, <2>7, <2>8, <2>9, <2>a DEF Result, Accounts, Spacing
    <2> QED BY <2>5, <2>10 DEF w, m, o
  <1>12. CASE s \notin DOMAIN timeBased /\ m.o.distance > 0
    <2> DEFINE c == [op |-> "stopDistance", s |-> s, o |-> Malformed,
                     then |-> "restartDistance", kept |-> o]
    <2>1. Adds(Now, w, c)
      BY <1>4, <1>12 DEF Adds, Updated, RestartDistance, Call
    <2>2. /\ c \in Spacings /\ c.s = s /\ c.then = "restartDistance" /\ c.then \in Spacing
          /\ c.then # "none"
      BY <1>4, <1>5, <1>12, MalformedIs DEF Spacings, Bodies, Spacing, Keeping, Ending
    <2> HIDE DEF c, w
    <2>3. /\ w \in Works /\ Accounts(w, s) /\ w.time = Now.time /\ w.dist = Now.dist
          /\ w.nHz = Now.nHz /\ w.spe = Now.spe /\ FixOf(w) = FixOf(Now)
          /\ In(w.calls) = In(Now.calls) \cup {c}
      <3>1. Answerable(Now, c, s) /\ Now \in Works
        BY <1>1, <2>1, <2>2 DEF Answerable
      <3>2. CallLeaves(Now, w, c, s)
        BY <3>1, <1>1, <2>1, <2>2, CallAccounts, Zenon
      <3> QED BY <3>2 DEF CallLeaves
    <2>4. In(w.calls) = {c} /\ ServesTable(w, w.time)
      BY <1>1, <2>3, NoneAt, ServesStill
    <2>5. \A x : CallsFor(w, s, x) => x = "restartDistance"
      BY <2>2, <2>4 DEF CallsFor
    <2>6. w.owed[s] \in Int /\ owed[s] \in Int /\ s \in Patient
      BY <1>1, <1>3, <1>12, <2>3 DEF Works
    <2>a. Spares(w, m, s)
      BY <1>1, <2>3 DEF Spares
    <2>7. Result(w, m, s)
      BY <1>1, <1>8, <1>9, <1>12, <2>3, <2>4, <2>5, <2>6, <2>a DEF Result, Accounts
    <2> QED BY <2>3, <2>7 DEF w, m, o
  <1>13. CASE s \notin DOMAIN timeBased /\ m.o.distance = 0
    <2> DEFINE c == [op |-> "stopDistance", s |-> s, o |-> Malformed,
                     then |-> "switchToTime", kept |-> o]
               u == EraseTrackingSession(Now, s)
    <2>1. Adds(u, w, c)
      BY <1>4, <1>13 DEF Adds, Updated, SwitchToTime, Call
    <2>2. /\ c \in Spacings /\ c.s = s /\ c.then = "switchToTime" /\ c.then \in Spacing
          /\ c.then # "none"
      BY <1>4, <1>5, <1>13, MalformedIs DEF Spacings, Bodies, Spacing, Keeping, Ending
    <2>3. /\ u \in Works /\ u.calls = << >> /\ u.owed = owed /\ u.nHz = Now.nHz
          /\ u.spe = Now.spe /\ FixOf(u) = FixOf(Now)
          /\ u.time = timeBased /\ u.dist = Without(distanceBased, s)
      BY <1>1, <1>13, EraseIs
    <2> HIDE DEF c, w, u
    <2>4. /\ w \in Works /\ Accounts(w, s) /\ w.time = u.time /\ w.dist = u.dist
          /\ w.nHz = u.nHz /\ w.spe = u.spe /\ FixOf(w) = FixOf(u)
          /\ In(w.calls) = In(u.calls) \cup {c}
      <3>1. Answerable(u, c, s) /\ u \in Works
        BY <2>1, <2>2, <2>3 DEF Answerable
      <3>2. CallLeaves(u, w, c, s)
        BY <3>1, <2>1, <2>2, <2>3, CallAccounts, Zenon
      <3> QED BY <3>2 DEF CallLeaves
    <2>5. In(w.calls) = {c}
      BY <2>3, <2>4, NoneAt
    <2>6. ServesTable(w, w.time)
      BY <1>1, <2>3, <2>4, ServesStill
    <2>7. \A x : CallsFor(w, s, x) => x = "switchToTime"
      BY <2>2, <2>5 DEF CallsFor
    <2>8. DOMAIN w.dist = DOMAIN distanceBased \ {s}
      <3>1. DOMAIN Without(distanceBased, s) = DOMAIN distanceBased \ {s}
        BY WithoutHolds
      <3> QED BY <2>3, <2>4, <3>1
    <2>9. w.owed[s] \in Int /\ owed[s] \in Int /\ s \in Patient
      BY <1>1, <1>7, <1>13, <2>4 DEF Works
    <2>a. Spares(w, m, s)
      BY <2>8 DEF Spares
    <2>10. Result(w, m, s)
      BY <1>8, <1>13, <2>3, <2>4, <2>6, <2>7, <2>8, <2>9, <2>a DEF Result, Accounts
    <2> QED BY <2>4, <2>10 DEF w, m, o
  <1> QED BY <1>3, <1>10, <1>11, <1>12, <1>13

\* A session that is stopped.
LEMMA StoppedIs ==
  ASSUME IInv, msgs # << >>, Head(msgs).type = "stop", NEW s \in Sessions, Head(msgs).s = s
  PROVE  Stopped(s) \in Works /\ Result(Stopped(s), Head(msgs), s)
  <1> DEFINE m == Head(msgs)
             w == Stopped(s)
  <1>1. /\ EngineOK /\ Now \in Works /\ ServesTable(Now, Now.time) /\ Sound(s)
        /\ Now.time = timeBased /\ Now.dist = distanceBased /\ Now.calls = << >>
        /\ Now.owed = owed /\ owed \in [Sessions -> Int]
        /\ m \in Messages /\ m \in In(msgs)
    BY NowIs
  <1>2. Asked(s, "stop")
    BY <1>1 DEF Asked, Asks3
  <1>3. s \notin Patient => s \notin DOMAIN distanceBased
    BY <1>1 DEF Sound, TimeOnly
  <1>4. ~(s \in DOMAIN timeBased /\ s \in DOMAIN distanceBased)
    BY <1>1 DEF Sound, Fits
  <1>5. CASE s \in DOMAIN timeBased
    <2>1. /\ w \in Works /\ Accounts(w, s)
          /\ \A c \in In(w.calls) : c.then \in {"started", "stopped"}
          /\ w.time = Without(timeBased, s) /\ w.dist = distanceBased
          /\ ServesTable(w, Without(timeBased, s))
          /\ DOMAIN Without(timeBased, s) = DOMAIN timeBased \ {s}
      BY <1>5, StopTimeIs DEF Stopped
    <2>2. Owner[s] \in clients \/ (s \notin Patient /\ MaxCrashes # 0)
      BY <1>1, <1>5 DEF Sound, Orphaned
    <2> HIDE DEF w
    <2>3. \A x : CallsFor(w, s, x) => x \in {"started", "stopped"}
      BY <2>1 DEF CallsFor
    <2>4. w.owed[s] \in Int /\ owed[s] \in Int
      BY <1>1, <2>1 DEF Works
    <2>a. Spares(w, m, s)
      BY <2>1 DEF Spares
    <2>5. Result(w, m, s)
      BY <1>4, <1>5, <2>1, <2>2, <2>3, <2>4, <2>a DEF Result, Accounts, Spacing
    <2> QED BY <2>1, <2>5 DEF w, m
  <1>6. CASE s \notin DOMAIN timeBased /\ s \in DOMAIN distanceBased
    <2> DEFINE c == [op |-> "stopDistance", s |-> s, o |-> Malformed,
                     then |-> "stoppedDistance", kept |-> Malformed]
    <2>1. Adds(Now, w, c)
      BY <1>6 DEF Adds, Stopped, Call
    <2>2. /\ c \in Spacings /\ c.s = s /\ c.then = "stoppedDistance" /\ c.then \in Spacing
          /\ c.then # "none"
      BY MalformedIs DEF Spacings, Bodies, Spacing, Keeping, Ending
    <2> HIDE DEF c, w
    <2>3. /\ w \in Works /\ Accounts(w, s) /\ w.time = Now.time /\ w.dist = Now.dist
          /\ w.nHz = Now.nHz /\ w.spe = Now.spe /\ FixOf(w) = FixOf(Now)
          /\ In(w.calls) = In(Now.calls) \cup {c}
      <3>1. Answerable(Now, c, s) /\ Now \in Works
        BY <1>1, <2>1, <2>2 DEF Answerable
      <3>2. CallLeaves(Now, w, c, s)
        BY <3>1, <1>1, <2>1, <2>2, CallAccounts, Zenon
      <3> QED BY <3>2 DEF CallLeaves
    <2>4. In(w.calls) = {c} /\ ServesTable(w, w.time)
      BY <1>1, <2>3, NoneAt, ServesStill
    <2>5. \A x : CallsFor(w, s, x) => x = "stoppedDistance"
      BY <2>2, <2>4 DEF CallsFor
    <2>6. w.owed[s] \in Int /\ owed[s] \in Int /\ s \in Patient
      BY <1>1, <1>3, <1>6, <2>3 DEF Works
    <2>7. Owner[s] \in clients
      BY <1>1, <1>2, <2>6 DEF Sound, Removed
    <2>a. Spares(w, m, s)
      BY <1>1, <2>3 DEF Spares
    <2>8. Result(w, m, s)
      BY <1>1, <1>6, <2>3, <2>4, <2>5, <2>6, <2>7, <2>a DEF Result, Accounts
    <2> QED BY <2>3, <2>8 DEF w, m
  <1>7. CASE s \notin DOMAIN timeBased /\ s \notin DOMAIN distanceBased
    <2>1. IsAbout(m, s)
      BY DEF IsAbout, Asks3
    <2> QED BY <1>7, <2>1, Reported DEF Stopped
  <1> QED BY <1>5, <1>6, <1>7

\* A session whose distance-based part the modem has stopped.
LEMMA ErasedIs ==
  ASSUME IInv, msgs # << >>, Head(msgs).type = "answer", NEW s \in Sessions, Head(msgs).s = s,
         Head(msgs).then \in {"erase", "stoppedDistance"}, Head(msgs).ok
  PROVE  Answered(Head(msgs)) \in Works /\ Result(Answered(Head(msgs)), Head(msgs), s)
  <1> DEFINE m == Head(msgs)
             u == EraseTrackingSession(Now, s)
             v == ReportResponse(u, s)
             w == Answered(m)
  <1>1. /\ EngineOK /\ Now \in Works /\ ServesTable(Now, Now.time) /\ Sound(s)
        /\ Now.time = timeBased /\ Now.dist = distanceBased /\ Now.calls = << >>
        /\ Now.owed = owed /\ owed \in [Sessions -> Int]
        /\ distanceBased \in Tables(DistOpts)
        /\ m \in Messages /\ m \in In(msgs)
    BY NowIs
  <1>2. Awaits(s, m.then)
    BY <1>1 DEF Awaits
  <1>3. s \notin DOMAIN timeBased
    BY <1>1, <1>2 DEF Sound, Fits
  <1>4. s \in Patient
    BY <1>1, <1>2 DEF Sound, TimeOnly, Spacing
  <1>5. /\ m.then = "erase" => Owner[s] \notin clients
        /\ m.then = "stoppedDistance" => Owner[s] \in clients
    BY <1>1, <1>2, <1>4 DEF Sound, Fits, Removed, Spacing
  <1>6. /\ u \in Works /\ u.calls = << >> /\ u.owed = owed /\ u.nHz = Now.nHz
        /\ u.spe = Now.spe /\ FixOf(u) = FixOf(Now)
        /\ u.time = timeBased /\ u.dist = Without(distanceBased, s)
    BY <1>1, <1>3, EraseIs
  <1>7. DOMAIN Without(distanceBased, s) = DOMAIN distanceBased \ {s}
    BY WithoutHolds
  <1>8. w = IF m.then = "erase" THEN u ELSE v
    BY DEF Answered, OnErase, OnStoppedDistance
  <1>9. Answers(u, v, s, {}) /\ v.spe = u.spe /\ v.calls = u.calls /\ FixOf(v) = FixOf(u)
    <2> HIDE DEF u
    <2> QED BY <1>6, ReportIs
  <1> HIDE DEF u, v, w
  <1>10. v \in Works /\ v.time = u.time /\ v.dist = u.dist /\ v.nHz = u.nHz
    BY <1>9 DEF Answers, Same
  <1>11. /\ w \in Works /\ w.time = timeBased /\ w.dist = Without(distanceBased, s)
         /\ w.calls = << >> /\ ServesTable(w, w.time)
    BY <1>1, <1>6, <1>8, <1>9, <1>10, ServesStill
  <1>12. In(w.calls) = {} /\ Count(w.calls, Dues(s)) = 0 /\ \A x : ~CallsFor(w, s, x)
    BY <1>11, NoneAt, CountOne DEF CallsFor
  <1>13. m.then # "erase" => Owner[s] \in clients /\ w.owed = [owed EXCEPT ![s] = @ - 1]
    <2>1. ASSUME m.then # "erase"
          PROVE  Owner[s] \in clients /\ w.owed = [owed EXCEPT ![s] = @ - 1]
      <3>1. Owner[s] \in clients /\ w = v
        BY <1>5, <1>8, <2>1
      <3>2. v.owed = OneLess(u.owed, s)
        <4> QED BY <1>9 DEF Answers
      <3> QED BY <1>6, <3>1, <3>2 DEF OneLess
    <2> QED BY <2>1
  <1>14. m.then = "erase" => w.owed = owed
    BY <1>6, <1>8
  <1>15. w.owed[s] \in Int /\ owed[s] \in Int
    BY <1>1, <1>11 DEF Works
  <1>a. Spares(w, m, s)
    BY <1>7, <1>11 DEF Spares
  <1>16. Result(w, m, s)
    <2>1. CASE m.then = "erase"
      BY <1>3, <1>4, <1>5, <1>7, <1>11, <1>12, <1>14, <1>15, <1>a, <2>1
         DEF Result
    <2>2. CASE m.then # "erase"
      <3>1. w.owed[s] = owed[s] - 1 /\ \A t \in Sessions \ {s} : w.owed[t] = owed[t]
        <4>1. w.owed = [owed EXCEPT ![s] = @ - 1] /\ owed \in [Sessions -> Int]
          BY <1>1, <1>13, <2>2
        <4> QED BY <4>1
      <3> QED BY <1>3, <1>4, <1>7, <1>11, <1>12, <1>13, <1>15, <1>a, <2>2, <3>1
          DEF Result
    <2> QED BY <2>1, <2>2
  <1> QED BY <1>11, <1>16 DEF w

\* A session that goes on as a time-based one.
LEMMA SwitchedIs ==
  ASSUME IInv, msgs # << >>, Head(msgs).type = "answer", NEW s \in Sessions, Head(msgs).s = s,
         Head(msgs).then = "switchToTime"
  PROVE  /\ OnSwitchToTime(Head(msgs)) \in Works
         /\ Result(OnSwitchToTime(Head(msgs)), Head(msgs), s)
  <1> DEFINE m == Head(msgs)
             o == m.kept
             u == StartTimeBasedTrackingMultiplex(Now, s, o)
             w == OnSwitchToTime(m)
  <1>1. /\ EngineOK /\ Now \in Works /\ ServesTable(Now, Now.time) /\ Sound(s)
        /\ Now.time = timeBased /\ Now.dist = distanceBased
        /\ timeBased \in Tables(TimeOpts) /\ owed \in [Sessions -> Int]
        /\ m \in Messages /\ m \in In(msgs)
    BY NowIs
  <1>2. Awaits(s, "switchToTime")
    BY <1>1 DEF Awaits
  <1>3. s \notin DOMAIN distanceBased /\ s \in Patient /\ Owner[s] \in clients
    BY <1>1, <1>2 DEF Sound, Fits, TimeOnly, Removed, Spacing
  <1>4. o \in TimeOpts
    BY <1>1, KindIs DEF Telling, Keeping
  <1>5. w = SaveTrackingSession(u, s, o)
    BY DEF OnSwitchToTime
  <1> HIDE DEF o, w
  <1>6. Answers(Now, u, s, {"started"}) /\ ServesTable(u, With(timeBased, s, o))
    BY <1>1, <1>4, StartMultiplexIs
  <1> HIDE DEF u
  <1>7. /\ u \in Works /\ u.time = timeBased /\ u.dist = distanceBased
        /\ Accounts(u, s) /\ \A c \in In(u.calls) : c.then = "started"
    <2>1. {"started"} \subseteq Plain
      BY DEF Plain
    <2>2. Accounts(u, s) /\ \A c \in In(u.calls) : c.then \in {"started"}
      BY <1>6, <2>1, AnswersAccounts
    <2> QED BY <1>1, <1>6, <2>2 DEF Answers, Same
  <1>8. /\ w \in Works /\ w.calls = u.calls /\ w.owed = u.owed /\ w.nHz = u.nHz
        /\ w.spe = u.spe /\ FixOf(w) = FixOf(u)
        /\ w.time = With(timeBased, s, o) /\ w.dist = distanceBased
    BY <1>4, <1>5, <1>7, SaveIs
  <1>9. ServesTable(w, w.time)
    BY <1>6, <1>8, ServesStill
  <1>10. DOMAIN w.time = DOMAIN timeBased \cup {s}
    <2>1. DOMAIN With(timeBased, s, o) = DOMAIN timeBased \cup {s}
      BY DEF With
    <2> QED BY <1>8, <2>1
  <1>11. \A x : CallsFor(w, s, x) => x = "started"
    BY <1>7, <1>8 DEF CallsFor
  <1>12. w.owed[s] \in Int /\ owed[s] \in Int /\ Accounts(w, s)
    BY <1>1, <1>7, <1>8 DEF Works, Accounts
  <1>a. Spares(w, m, s)
    BY <1>3, <1>8 DEF Spares
  <1>13. Result(w, m, s)
    BY <1>3, <1>8, <1>9, <1>10, <1>11, <1>12, <1>a DEF Result, Accounts, Spacing
  <1> QED BY <1>8, <1>13 DEF w

\* A distance-based session that is stopped to be started with other options.
LEMMA RestartedIs ==
  ASSUME IInv, msgs # << >>, Head(msgs).type = "answer", NEW s \in Sessions, Head(msgs).s = s,
         Head(msgs).then = "restartDistance", Head(msgs).ok
  PROVE  /\ OnRestartDistance(Head(msgs)) \in Works
         /\ Result(OnRestartDistance(Head(msgs)), Head(msgs), s)
  <1> DEFINE m == Head(msgs)
             w == OnRestartDistance(m)
             c == [op |-> "startDistance", s |-> s, o |-> m.kept, then |-> "restartedDistance",
                   kept |-> m.kept]
  <1>1. /\ EngineOK /\ Now \in Works /\ ServesTable(Now, Now.time) /\ Sound(s)
        /\ Now.time = timeBased /\ Now.dist = distanceBased /\ Now.calls = << >>
        /\ Now.owed = owed /\ owed \in [Sessions -> Int]
        /\ m \in Messages /\ m \in In(msgs)
    BY NowIs
  <1>2. Awaits(s, "restartDistance")
    BY <1>1 DEF Awaits
  <1>3. /\ s \notin DOMAIN timeBased /\ s \in DOMAIN distanceBased /\ s \in Patient
        /\ Owner[s] \in clients
    BY <1>1, <1>2 DEF Sound, Fits, TimeOnly, Removed, Spacing
  <1>4. m.kept \in DistOpts /\ m.kept \in TrackingOptions
    BY <1>1, KindIs DEF Telling, Keeping
  <1>5. Adds(Now, w, c)
    BY DEF Adds, OnRestartDistance, Call
  <1>6. /\ c \in Spacings /\ c.s = s /\ c.then = "restartedDistance" /\ c.then \in Spacing
        /\ c.then # "none" /\ c.op = "startDistance"
    BY <1>4 DEF Spacings, Bodies, Spacing, Keeping
  <1> HIDE DEF c, w
  <1>7. /\ w \in Works /\ Accounts(w, s) /\ w.time = Now.time /\ w.dist = Now.dist
        /\ w.nHz = Now.nHz /\ w.spe = Now.spe /\ FixOf(w) = FixOf(Now)
        /\ In(w.calls) = In(Now.calls) \cup {c}
    <2>1. Answerable(Now, c, s) /\ Now \in Works
      BY <1>1, <1>5, <1>6 DEF Answerable
    <2>2. CallLeaves(Now, w, c, s)
      BY <2>1, <1>1, <1>5, <1>6, CallAccounts, Zenon
    <2> QED BY <2>2 DEF CallLeaves
  <1>8. In(w.calls) = {c} /\ ServesTable(w, w.time)
    BY <1>1, <1>7, NoneAt, ServesStill
  <1>9. \A x : CallsFor(w, s, x) => x = "restartedDistance"
    BY <1>6, <1>8 DEF CallsFor
  <1>10. w.owed[s] \in Int /\ owed[s] \in Int
    BY <1>1, <1>7 DEF Works
  <1>a. Spares(w, m, s)
    <2>1. c \in In(w.calls) /\ c.op = "startDistance" /\ c.s = s
      BY <1>6, <1>8
    <2> QED BY <2>1 DEF Spares
  <1>11. Result(w, m, s)
    BY <1>1, <1>3, <1>7, <1>8, <1>9, <1>10, <1>a DEF Result, Accounts
  <1> QED BY <1>7, <1>11 DEF w, m

\* A distance-based session started again, which is saved with its new options.
LEMMA ResavedIs ==
  ASSUME IInv, msgs # << >>, Head(msgs).type = "answer", NEW s \in Sessions, Head(msgs).s = s,
         Head(msgs).then = "restartedDistance", Head(msgs).ok
  PROVE  /\ OnRestartedDistance(Head(msgs)) \in Works
         /\ Result(OnRestartedDistance(Head(msgs)), Head(msgs), s)
  <1> DEFINE m == Head(msgs)
             o == m.kept
             u == SaveTrackingSession(Now, s, o)
             w == OnRestartedDistance(m)
  <1>1. /\ EngineOK /\ Now \in Works /\ ServesTable(Now, Now.time) /\ Sound(s)
        /\ Now.time = timeBased /\ Now.dist = distanceBased /\ Now.calls = << >>
        /\ Now.owed = owed /\ owed \in [Sessions -> Int]
        /\ distanceBased \in Tables(DistOpts)
        /\ m \in Messages /\ m \in In(msgs)
    BY NowIs
  <1>2. Awaits(s, "restartedDistance")
    BY <1>1 DEF Awaits
  <1>3. /\ s \notin DOMAIN timeBased /\ s \in DOMAIN distanceBased /\ s \in Patient
        /\ Owner[s] \in clients
    BY <1>1, <1>2 DEF Sound, Fits, TimeOnly, Removed, Spacing
  <1>4. o \in DistOpts
    BY <1>1, KindIs DEF Telling, Keeping
  <1>5. w = [u EXCEPT !.owed[s] = @ - 1]
    BY <1>3 DEF OnRestartedDistance, ReportResponse
  <1> HIDE DEF o, w
  <1>6. /\ u \in Works /\ u.calls = << >> /\ u.owed = owed /\ u.nHz = Now.nHz
        /\ u.spe = Now.spe /\ FixOf(u) = FixOf(Now)
        /\ u.time = timeBased /\ u.dist = With(distanceBased, s, o)
    BY <1>1, <1>4, SaveIs
  <1> HIDE DEF u
  <1>7. /\ w \in Works /\ w.calls = << >> /\ w.owed = [owed EXCEPT ![s] = @ - 1]
        /\ w.nHz = u.nHz /\ w.spe = u.spe /\ w.time = u.time /\ w.dist = u.dist
    <2> DEFINE a == [owed EXCEPT ![s] = @ - 1]
    <2>1. a \in [Sessions -> Int]
      BY <1>1
    <2>2. w = [u EXCEPT !.owed = a]
      BY <1>5, <1>6
    <2> HIDE DEF a
    <2>3. /\ w \in Works /\ w.calls = u.calls /\ w.owed = a
          /\ w.nHz = u.nHz /\ w.spe = u.spe /\ w.time = u.time /\ w.dist = u.dist
      BY <1>6, <2>1, <2>2 DEF Works
    <2> QED BY <1>6, <2>3 DEF a
  <1>8. FixOf(w) = FixOf(u)
    BY <1>6, <1>7 DEF FixOf
  <1>9. ServesTable(w, w.time)
    BY <1>1, <1>6, <1>7, <1>8, ServesStill
  <1>10. DOMAIN w.dist = DOMAIN distanceBased \cup {s}
    <2>1. DOMAIN With(distanceBased, s, o) = DOMAIN distanceBased \cup {s}
      BY DEF With
    <2> QED BY <1>6, <1>7, <2>1
  <1>11. In(w.calls) = {} /\ Count(w.calls, Dues(s)) = 0 /\ \A x : ~CallsFor(w, s, x)
    BY <1>7, NoneAt, CountOne DEF CallsFor
  <1>12. /\ w.owed[s] = owed[s] - 1 /\ owed[s] \in Int
         /\ \A t \in Sessions \ {s} : w.owed[t] = owed[t]
    BY <1>1, <1>7
  <1>a. Spares(w, m, s)
    BY <1>3 DEF Spares, Ending
  <1>13. Result(w, m, s)
    BY <1>3, <1>6, <1>7, <1>9, <1>10, <1>11, <1>12, <1>a DEF Result
  <1> QED BY <1>7, <1>13 DEF w, m

\* A refused command is answered, its session put back in or taken out of its table.
LEMMA TakenBack ==
  ASSUME IInv, msgs # << >>, Head(msgs).type = "answer", NEW s \in Sessions, Head(msgs).s = s,
         Reopening, NEW u \in Works, u.calls = << >>, u.owed = owed,
         \A t \in Sessions \ {s} : /\ t \in DOMAIN u.time <=> t \in DOMAIN timeBased
                                   /\ t \in DOMAIN u.dist <=> t \in DOMAIN distanceBased,
         ~(s \in DOMAIN u.time /\ s \in DOMAIN u.dist),
         s \notin Patient => s \notin DOMAIN u.dist,
         s \in Patient /\ Owner[s] \notin clients => s \notin DOMAIN u.time
  PROVE  /\ ReportResponse(u, s) \in Works
         /\ Result(ReportResponse(u, s), Head(msgs), s)
  <1> DEFINE w == ReportResponse(u, s)
  <1>1. Answers(u, w, s, {}) /\ w.calls = << >>
    BY ReportIs
  <1> HIDE DEF w
  <1>2. /\ w \in Works /\ w.time = u.time /\ w.dist = u.dist /\ w.owed = OneLess(owed, s)
    BY <1>1 DEF Answers, Same
  <1>3. owed \in [Sessions -> Int]
    BY NowIs
  <1>4. In(w.calls) = {} /\ Count(w.calls, Dues(s)) = 0 /\ \A x : ~CallsFor(w, s, x)
    BY <1>1, NoneAt, CountOne DEF CallsFor
  <1>5. /\ \A t \in Sessions \ {s} : w.owed[t] = owed[t]
        /\ Owner[s] \in clients => w.owed[s] = owed[s] - 1
        /\ owed[s] \in Int
    BY <1>2, <1>3 DEF OneLess
  <1>6. MaxCrashes # 0 /\ ServesTable(w, w.time)
    BY TrackingAssumption DEF Reopening, ServesTable
  <1>7. Result(w, Head(msgs), s)
    BY <1>2, <1>4, <1>5, <1>6 DEF Result
  <1> QED BY <1>2, <1>7 DEF w

\* Every answer by which a modem that has restarted refuses a call.
LEMMA FailedIs ==
  ASSUME IInv, msgs # << >>, Head(msgs).type = "answer", NEW s \in Sessions, Head(msgs).s = s,
         ~Head(msgs).ok
  PROVE  Answered(Head(msgs)) \in Works /\ Result(Answered(Head(msgs)), Head(msgs), s)
  <1> DEFINE m == Head(msgs)
  <1>1. /\ Typed /\ Restarts /\ Sound(s) /\ Now \in Works
        /\ Now.time = timeBased /\ Now.dist = distanceBased /\ Now.calls = << >>
        /\ Now.owed = owed /\ m \in Messages /\ m \in In(msgs)
    BY NowIs
  <1>2. m \in Telling
    BY <1>1, KindIs
  <1>3. Reopening /\ ~Complete
    BY <1>1, RefusedIs, TrackingAssumption DEF Refusal, Complete
  <1>4. IsAbout(m, s) /\ m.then \in Plain \cup Spacing \cup {"erase"}
    BY <1>2 DEF IsAbout, Telling
  <1>5. Awaits(s, m.then)
    BY <1>1 DEF Awaits
  <1>6. /\ ~(s \in DOMAIN timeBased /\ s \in DOMAIN distanceBased)
        /\ s \notin Patient => s \notin DOMAIN distanceBased
        /\ s \in Patient /\ Owner[s] \notin clients => s \notin DOMAIN timeBased
    BY <1>1 DEF Sound, Fits, TimeOnly, Orphaned
  <1>7. CASE m.then \in {"started", "startedDistance"}
    <2> DEFINE u == EraseTrackingSession(Now, s)
    <2>1. Answered(m) = ReportResponse(u, s)
      BY <1>7 DEF Answered, OnStarted
    <2>2. /\ u \in Works /\ u.calls = << >> /\ u.owed = owed
          /\ s \in DOMAIN timeBased => u.time = Without(timeBased, s) /\ u.dist = distanceBased
          /\ s \notin DOMAIN timeBased => u.dist = Without(distanceBased, s) /\ u.time = timeBased
      BY <1>1, EraseIs
    <2> HIDE DEF u
    <2>3. /\ DOMAIN Without(timeBased, s) = DOMAIN timeBased \ {s}
          /\ DOMAIN Without(distanceBased, s) = DOMAIN distanceBased \ {s}
      BY WithoutHolds
    <2>4. /\ \A t \in Sessions \ {s} : /\ t \in DOMAIN u.time <=> t \in DOMAIN timeBased
                                       /\ t \in DOMAIN u.dist <=> t \in DOMAIN distanceBased
          /\ s \notin DOMAIN u.time /\ (s \in DOMAIN u.dist => s \in DOMAIN distanceBased)
      BY <2>2, <2>3
    <2>5. ReportResponse(u, s) \in Works /\ Result(ReportResponse(u, s), m, s)
      BY <1>3, <1>6, <2>2, <2>4, TakenBack
    <2> QED BY <2>1, <2>5
  <1>8. CASE m.then = "updated"
    <2> DEFINE o == m.kept
               u == SaveTrackingSession(Now, s, o)
    <2>1. Answered(m) = ReportResponse(u, s)
      BY <1>8 DEF Answered, OnUpdated
    <2>2. o \in TimeOpts
      BY <1>2, <1>8 DEF Telling, Keeping
    <2> HIDE DEF o
    <2>3. /\ u \in Works /\ u.calls = << >> /\ u.owed = owed
          /\ u.time = With(timeBased, s, o) /\ u.dist = distanceBased
      BY <1>1, <2>2, SaveIs
    <2> HIDE DEF u
    <2>4. DOMAIN With(timeBased, s, o) = DOMAIN timeBased \cup {s}
      BY DEF With
    <2>5. s \notin DOMAIN distanceBased /\ ~(s \in Patient /\ Owner[s] \notin clients)
      BY <1>1, <1>5, <1>8 DEF Sound, Fits, Removed
    <2>6. ReportResponse(u, s) \in Works /\ Result(ReportResponse(u, s), m, s)
      BY <1>3, <2>3, <2>4, <2>5, TakenBack
    <2> QED BY <2>1, <2>6
  <1>9. CASE m.then \in {"stopped", "stoppedDistance", "restartedDistance"}
    <2>1. Answered(m) = ReportResponse(Now, s)
      BY <1>9 DEF Answered, OnStopped, OnStoppedDistance, OnErase, OnRestartedDistance
    <2> QED BY <1>3, <1>4, <2>1, Reported
  <1>10. CASE m.then \in {"erase", "restartDistance"}
    <2>1. Answered(m) = Now
      BY <1>10 DEF Answered, OnErase, OnRestartDistance
    <2> QED BY <1>1, <1>3, <1>4, <2>1, Ignored
  <1>11. CASE m.then = "switchToTime"
    BY <1>11, SwitchedIs DEF Answered
  <1> QED BY <1>4, <1>7, <1>8, <1>9, <1>10, <1>11 DEF Plain, Spacing

\* Every answer of the modem.
LEMMA AnsweredIs ==
  ASSUME IInv, msgs # << >>, Head(msgs).type = "answer", NEW s \in Sessions, Head(msgs).s = s
  PROVE  Answered(Head(msgs)) \in Works /\ Result(Answered(Head(msgs)), Head(msgs), s)
  <1> DEFINE m == Head(msgs)
             r == ReportResponse(Now, s)
  <1>1. m \in Telling
    BY NowIs, KindIs
  <1> SUFFICES ASSUME m.ok PROVE Answered(m) \in Works /\ Result(Answered(m), m, s)
    BY FailedIs
  <1>2. m.ok /\ m.then \in Plain \cup Spacing \cup {"erase"}
    BY <1>1 DEF Telling
  <1>3. CASE m.then \in {"started", "startedDistance", "updated", "stopped"}
    <2>1. Answered(m) = r
      BY <1>2, <1>3 DEF Answered, OnStarted, OnUpdated, OnStopped
    <2>2. IsAbout(m, s) /\ m.then \notin Ending
      BY <1>3 DEF IsAbout, Ending
    <2>3. r \in Works /\ Result(r, m, s)
      BY <2>2, Reported
    <2> QED BY <2>1, <2>3
  <1>4. CASE m.then \in {"erase", "stoppedDistance"}
    BY <1>2, <1>4, ErasedIs
  <1>5. CASE m.then = "switchToTime"
    BY <1>5, SwitchedIs DEF Answered
  <1>6. CASE m.then = "restartDistance"
    BY <1>2, <1>6, RestartedIs DEF Answered
  <1>7. CASE m.then = "restartedDistance"
    BY <1>2, <1>7, ResavedIs DEF Answered
  <1> QED BY <1>2, <1>3, <1>4, <1>5, <1>6, <1>7 DEF Plain, Spacing

-----------------------------------------------------------------------------
(* The steps of the adapter.                                               *)

\* MsgStartTracking::proc.
LEMMA ProcStartKeeps ==
  ASSUME IInv, Settled, ProcStart, ~MustWait(Head(msgs))
  PROVE  IInv'
  <1> DEFINE m == Head(msgs)
             s == m.s
             w == IF Owner[s] \notin clients \/ m.o.size = 0 THEN Now
                  ELSE Started(s, ClampInterval(m.o))
  <1>1. /\ msgs # << >> /\ m.type = "start" /\ msgs' = Tail(msgs) /\ Commit(w)
        /\ UNCHANGED <<clients, capsKnown, pending, Unchanging>>
    BY DEF ProcStart, Receive
  <1>2. m \in Asking /\ s \in Sessions
    BY <1>1, NowIs, KindIs
  <1>3. IsAbout(m, s)
    BY <1>1 DEF IsAbout, Asks3
  <1>4. w \in Works /\ Result(w, m, s)
    <2>1. CASE Owner[s] \notin clients \/ m.o.size = 0
      <3>1. Owner[s] \notin clients \/ ~Complete
        BY <1>1, <1>2, <2>1 DEF Asking, Complete
      <3> QED BY <1>1, <1>2, <1>3, <2>1, <3>1, Ignored, NowIs
    <2>2. CASE ~(Owner[s] \notin clients \/ m.o.size = 0)
      BY <1>1, <1>2, <2>2, StartedIs
    <2> QED BY <2>1, <2>2
  <1> HIDE DEF w
  <1> QED BY <1>1, <1>2, <1>3, <1>4, Handled

\* MsgUpdateTracking::proc.
LEMMA ProcUpdateKeeps ==
  ASSUME IInv, Settled, ProcUpdate, ~MustWait(Head(msgs))
  PROVE  IInv'
  <1> DEFINE m == Head(msgs)
             s == m.s
             w == IF s \notin DOMAIN timeBased \cup DOMAIN distanceBased \/ m.o.size = 0
                  THEN ReportResponse(Now, s)
                  ELSE Updated(s, ClampInterval(FallBack(m.o)))
  <1>1. /\ msgs # << >> /\ m.type = "update" /\ msgs' = Tail(msgs) /\ Commit(w)
        /\ UNCHANGED <<clients, capsKnown, pending, Unchanging>>
    BY DEF ProcUpdate, Receive
  <1>2. m \in Asking /\ s \in Sessions
    BY <1>1, NowIs, KindIs
  <1>3. IsAbout(m, s)
    BY <1>1 DEF IsAbout, Asks3
  <1>4. w \in Works /\ Result(w, m, s)
    <2>1. CASE s \notin DOMAIN timeBased \cup DOMAIN distanceBased \/ m.o.size = 0
      BY <1>1, <1>2, <1>3, <2>1, Reported
    <2>2. CASE ~(s \notin DOMAIN timeBased \cup DOMAIN distanceBased \/ m.o.size = 0)
      BY <1>1, <1>2, <2>2, UpdatedIs
    <2> QED BY <2>1, <2>2
  <1> HIDE DEF w
  <1> QED BY <1>1, <1>2, <1>3, <1>4, Handled

\* MsgStopTracking::proc.
LEMMA ProcStopKeeps ==
  ASSUME IInv, ProcStop
  PROVE  IInv'
  <1> DEFINE m == Head(msgs)
             s == m.s
             w == Stopped(s)
  <1>1. /\ msgs # << >> /\ m.type = "stop" /\ msgs' = Tail(msgs) /\ Commit(w)
        /\ UNCHANGED <<clients, capsKnown, pending, Unchanging>>
    BY DEF ProcStop, Receive
  <1>2. s \in Sessions
    BY <1>1, NowIs, KindIs
  <1>3. IsAbout(m, s)
    BY <1>1 DEF IsAbout, Asks3
  <1>4. w \in Works /\ Result(w, m, s)
    BY <1>1, <1>2, StoppedIs
  <1> HIDE DEF w
  <1> QED BY <1>1, <1>2, <1>3, <1>4, Handled

\* The continuation of a call that the modem has answered.
LEMMA ProcAnswerKeeps ==
  ASSUME IInv, ProcAnswer
  PROVE  IInv'
  <1> DEFINE m == Head(msgs)
             s == m.s
             w == Answered(m)
  <1>1. /\ msgs # << >> /\ m.type = "answer" /\ msgs' = Tail(msgs) /\ Commit(w)
        /\ UNCHANGED <<clients, capsKnown, pending, Unchanging>>
    BY DEF ProcAnswer, Receive
  <1>2. s \in Sessions
    BY <1>1, NowIs, KindIs
  <1>3. IsAbout(m, s)
    BY <1>1 DEF IsAbout
  <1>4. w \in Works /\ Result(w, m, s)
    BY <1>1, <1>2, AnsweredIs
  <1> HIDE DEF w
  <1> QED BY <1>1, <1>2, <1>3, <1>4, Handled

\* A session with a distance is still run, or to be, when nothing that sees to it is lost.
LEMMA CoveredStill ==
  ASSUME NEW t \in Sessions, Covered(t), Reopening => Reopening',
         t \in DOMAIN distanceBased' => t \in DOMAIN distanceBased,
         engine'.dist = engine.dist, In(engq) \subseteq In(engq'),
         \A x : Awaits(t, x) => Awaits(t, x)'
  PROVE  Covered(t)'
  <1> SUFFICES ASSUME t \in DOMAIN distanceBased', ~Reopening
               PROVE  \/ t \in engine'.dist
                      \/ \E c \in In(engq') : c.op = "startDistance" /\ c.s = t
                      \/ \E x \in Ending : Awaits(t, x)'
    BY DEF Covered, Ending
  <1> QED BY DEF Covered

\* A command that waits for the engine's capabilities is moved, and counts once.
LEMMA WaitKeeps ==
  ASSUME IInv, msgs # << >>, msgs' = Tail(msgs), Head(msgs).type \in {"start", "update"},
         MustWait(Head(msgs)), pending' = Append(pending, Head(msgs)), Commit(Now),
         UNCHANGED <<clients, capsKnown, Unchanging>>
  PROVE  IInv'
  <1> DEFINE m == Head(msgs)
  <1>1. /\ Typed /\ Opening /\ Restarts /\ Leaving /\ Serving
        /\ \A t \in Sessions : Sound(t) /\ Covered(t)
        /\ engine' = engine /\ up' = up /\ started' = started /\ live' = live /\ used' = used
        /\ clients' = clients /\ capsKnown' = capsKnown /\ ~capsKnown
    BY DEF IInv, Unchanging, MustWait
  <1>a. MaxCrashes = 0 /\ ~Reopening
    BY <1>1, TrackingAssumption DEF Restarts, Reopening
  <1>2. /\ AnySeq(msgs) /\ AnySeq(msgs') /\ In(msgs) = In(msgs') \cup {m} /\ m \in Messages
        /\ m \in In(msgs)
    BY <1>1, TailAt DEF Typed
  <1>3. m \in Asking /\ m.s \in Sessions /\ m.o.distance > 0
    BY <1>2, KindIs DEF MustWait
  <1>4. AnySeq(pending) /\ AnySeq(pending') /\ In(pending') = In(pending) \cup {m}
    BY <1>1, AppendAt DEF Typed
  <1>5. /\ Now \in Works /\ Now.time = timeBased /\ Now.dist = distanceBased
        /\ Now.calls = << >> /\ Now.owed = owed /\ ServesTable(Now, Now.time)
    BY NowIs
  <1>6. /\ engq' = engq /\ timeBased' = timeBased /\ distanceBased' = distanceBased
        /\ owed' = owed
    <2>1. engq \o << >> = engq
      BY <1>1, ConcatNone DEF Typed, EngineOK
    <2> QED BY <1>5, <2>1 DEF Commit
  <1>7. Now' \in Works /\ EngineOK' /\ Serving'
    BY <1>1, <1>5, <1>a, NowAfter
  <1>8. Typed'
    BY <1>1, <1>2, <1>3, <1>4, <1>7 DEF Typed
  <1>9. Opening'
    <2>1. engq' = engq \o Now.calls
      BY DEF Commit
    <2> QED BY <1>1, <1>5, <2>1, OpeningAfter
  <1>10. Leaving'
    BY <1>1, <1>2 DEF Leaving
  <1>11. ASSUME NEW t \in Sessions PROVE Sound(t)' /\ Covered(t)'
    <2> DEFINE A == Abouts(t)
    <2>1. /\ Count(msgs, A) = Count(msgs', A) + IF m \in A THEN 1 ELSE 0
          /\ Count(pending', A) = Count(pending, A) + IF m \in A THEN 1 ELSE 0
      BY <1>1, <1>2, CountTail, CountAppend DEF Typed
    <2>2. /\ Count(msgs', A) \in Nat /\ Count(pending, A) \in Nat
          /\ Count(engq, Dues(t)) \in Nat
      BY <1>1, <1>2, CountIs DEF Typed, EngineOK
    <2>3. /\ Flight(t) = Count(msgs, A) + Count(engq, Dues(t)) + Count(pending, A)
          /\ Flight(t)' = Count(msgs', A) + Count(engq, Dues(t)) + Count(pending', A)
      BY <1>1, <1>6 DEF Flight, Abouts, Dues
    <2> HIDE DEF A
    <2>4. Flight(t)' = Flight(t)
      <3> DEFINE p == IF m \in A THEN 1 ELSE 0
      <3>1. p \in Nat /\ Count(msgs, A) = Count(msgs', A) + p
            /\ Count(pending', A) = Count(pending, A) + p
        BY <2>1
      <3> HIDE DEF p
      <3>2. \A a, b, c \in Nat : (a + p) + b + c = a + b + (c + p)
        BY <3>1
      <3> QED BY <2>2, <2>3, <3>1
    <2>5. ASSUME NEW x PROVE (Awaits(t, x)' <=> Awaits(t, x)) /\ (Asked(t, x)' <=> Asked(t, x))
      <3>1. /\ Awaits(t, x)' <=> \/ \E c \in In(engq) : c.s = t /\ c.then = x /\ x # "none"
                                 \/ \E k \in In(msgs') : k.type = "answer" /\ k.s = t
                                                          /\ k.then = x
            /\ Asked(t, x)' <=> \/ \E k \in In(msgs') : x \in Asks3 /\ k.type = x /\ k.s = t
                                \/ \E k \in In(pending') : x \in Asks3 /\ k.type = x /\ k.s = t
        BY <1>1, <1>6 DEF Awaits, Asked
      <3>2. m.type # "answer"
        OBVIOUS
      <3> QED BY <1>1, <1>2, <1>4, <3>1, <3>2 DEF Awaits, Asked
    <2>6. Untouched(t)
      BY <1>1, <1>6, <2>4, <2>5 DEF Untouched
    <2>7. started \in Nat /\ started <= started
      BY <1>1 DEF Typed
    <2>8. Covered(t)'
      BY <1>1, <1>6, <1>a, <2>5, CoveredStill
    <2> QED BY <1>1, <2>6, <2>7, <2>8, UntouchedSound
  <1>12. Restarts'
    BY <1>a DEF Restarts
  <1> QED BY <1>7, <1>8, <1>9, <1>10, <1>11, <1>12 DEF IInv

\* A handler that changes no session and gives no answer.
LEMMA HushedKeeps ==
  ASSUME IInv, msgs # << >>, msgs' = Tail(msgs), Head(msgs).type \in {"config", "nHz"},
         NEW w \in Works, Commit(w), UNCHANGED <<clients, capsKnown, pending, Unchanging>>,
         w.time = timeBased, w.dist = distanceBased, w.owed = owed, ServesTable(w, w.time),
         \A c \in In(w.calls) : c.then = "none"
  PROVE  IInv'
  <1>1. /\ Typed /\ Opening /\ Restarts /\ Leaving
        /\ \A t \in Sessions : Sound(t) /\ Covered(t)
        /\ engine' = engine /\ up' = up /\ started' = started /\ live' = live /\ used' = used
        /\ clients' = clients /\ capsKnown' = capsKnown /\ pending' = pending
        /\ timeBased' = w.time /\ distanceBased' = w.dist /\ owed' = w.owed
        /\ engq' = engq \o w.calls
    BY DEF IInv, Unchanging, Commit
  <1>a. Reopening => Reopening'
    BY <1>1, ReopeningAfter DEF Ups
  <1>2. Typed' /\ Opening' /\ Restarts' /\ Serving'
    BY <1>1, <1>a, TypedAfter, OpeningAfter, RestartsAfter, NowAfter
  <1>3. Leaving'
    <2>1. In(msgs') \subseteq In(msgs)
      BY <1>1, TailAt DEF Typed
    <2> QED BY <1>1, <2>1 DEF Leaving
  <1>4. ASSUME NEW t \in Sessions PROVE Sound(t)' /\ Covered(t)'
    <2>1. ~IsAbout(Head(msgs), t)
      BY DEF IsAbout, Asks3
    <2>2. /\ Flight(t)' = Flight(t)
          /\ \A x : (Awaits(t, x)' <=> Awaits(t, x)) /\ (Asked(t, x)' <=> Asked(t, x))
      BY <1>1, <2>1, TakenIs
    <2>3. Untouched(t)
      BY <1>1, <2>2 DEF Untouched
    <2>4. started \in Nat /\ started <= started
      BY <1>1 DEF Typed
    <2>5. Spares(w, Head(msgs), t)
      BY DEF Spares
    <2>6. Covered(t)'
      BY <1>1, <1>a, <2>5, CoveredAfter
    <2> QED BY <1>1, <2>3, <2>4, <2>6, UntouchedSound
  <1> QED BY <1>2, <1>3, <1>4 DEF IInv

\* What serves a table from which no session is to be served again is off, if the modem never
\* restarts.
LEMMA OffIs ==
  ASSUME NEW w, ServesTable(w, w.time)
  PROVE  MaxCrashes = 0 /\ DOMAIN w.time = {} => ~FixOf(w).on
  BY DEF ServesTable, Suits, Reopening

\* A configuration command: suspend, configure, restart.
LEMMA ProcConfigKeeps ==
  ASSUME IInv, ProcConfig
  PROVE  IInv'
  <1> DEFINE u == SuspendSessions(Now)
             w == RestartSessions(u)
  <1>1. /\ msgs # << >> /\ Head(msgs).type = "config" /\ msgs' = Tail(msgs) /\ Commit(w)
        /\ UNCHANGED <<clients, capsKnown, pending, Unchanging>>
    BY DEF ProcConfig, Receive
  <1>2. /\ EngineOK /\ Now \in Works /\ ServesTable(Now, Now.time)
        /\ Now.time = timeBased /\ Now.dist = distanceBased /\ Now.calls = << >>
        /\ Now.owed = owed
    BY <1>1, NowIs
  <1>3. Hushed(Now, u) /\ (DOMAIN timeBased = {} => u = Now)
    BY <1>2, SuspendIs
  <1> HIDE DEF u
  <1>4. u \in Works /\ u.time = timeBased /\ (MaxCrashes = 0 /\ DOMAIN u.time = {} => ~FixOf(u).on)
    BY <1>2, <1>3, OffIs DEF Hushed, Same
  <1>5. Hushed(u, w) /\ ServesTable(w, w.time)
    BY <1>2, <1>4, RestartIs DEF ServesTable
  <1> HIDE DEF w
  <1>6. /\ w \in Works /\ w.time = timeBased /\ w.dist = distanceBased /\ w.owed = owed
        /\ \A c \in In(w.calls) : c.then = "none"
    BY <1>2, <1>3, <1>5, NoneAt DEF Hushed, Same
  <1> QED BY <1>1, <1>5, <1>6, HushedKeeps

\* A change of the nHz requirement.
LEMMA ProcNHzKeeps ==
  ASSUME IInv, ProcNHz
  PROVE  IInv'
  <1> DEFINE b == Head(msgs).needed
             u == [Now EXCEPT !.nHz = b]
             w == IF b = nHz THEN Now ELSE RestartSessions(u)
  <1>1. /\ msgs # << >> /\ Head(msgs).type = "nHz" /\ msgs' = Tail(msgs) /\ Commit(w)
        /\ UNCHANGED <<clients, capsKnown, pending, Unchanging>>
    BY DEF ProcNHz, Receive
  <1>2. /\ EngineOK /\ Now \in Works /\ ServesTable(Now, Now.time)
        /\ Now.time = timeBased /\ Now.dist = distanceBased /\ Now.calls = << >>
        /\ Now.owed = owed /\ b \in BOOLEAN
    BY <1>1, NowIs, KindIs
  <1>3. CASE b = nHz
    <2>1. w = Now /\ In(Now.calls) = {}
      BY <1>2, <1>3, NoneAt
    <2> HIDE DEF w
    <2>2. Commit(Now) /\ \A c \in In(Now.calls) : c.then = "none"
      BY <1>1, <2>1
    <2> QED BY <1>1, <1>2, <2>2, HushedKeeps
  <1>4. CASE b # nHz
    <2>1. w = RestartSessions(u)
      BY <1>4
    <2>2. /\ u \in Works /\ u.time = timeBased /\ u.dist = distanceBased /\ u.calls = << >>
          /\ u.owed = owed
      BY <1>2 DEF Works
    <2>3. FixOf(u) = FixOf(Now)
      BY <1>2, <2>2 DEF FixOf
    <2> HIDE DEF u, w
    <2>4. MaxCrashes = 0 /\ DOMAIN u.time = {} => ~FixOf(u).on
      BY <1>2, <2>2, <2>3, OffIs
    <2>5. Hushed(u, w) /\ ServesTable(w, w.time)
      BY <1>2, <2>1, <2>2, <2>4, RestartIs DEF ServesTable
    <2>6. /\ w \in Works /\ w.time = timeBased /\ w.dist = distanceBased /\ w.owed = owed
          /\ \A c \in In(w.calls) : c.then = "none"
      BY <2>2, <2>5, NoneAt DEF Hushed, Same
    <2> QED BY <1>1, <2>5, <2>6, HushedKeeps
  <1> QED BY <1>3, <1>4

\* The engine comes up: the commands that waited are queued, and counted, again, and when it has
\* restarted there are none.
LEMMA ProcEngineUpKeeps ==
  ASSUME IInv, ProcEngineUp
  PROVE  IInv'
  <1> DEFINE w == RestartSessions(Now)
             m == Head(msgs)
             r == Tail(msgs)
  <1>1. /\ msgs # << >> /\ m.type = "engineUp" /\ msgs' = r \o pending /\ Commit(w)
        /\ capsKnown' = TRUE /\ UNCHANGED <<clients, pending, Unchanging>>
    BY DEF ProcEngineUp
  <1>2. /\ EngineOK /\ Now \in Works /\ ServesTable(Now, Now.time)
        /\ Now.time = timeBased /\ Now.dist = distanceBased /\ Now.calls = << >>
        /\ Now.owed = owed /\ m \in Messages
    BY <1>1, NowIs
  <1>3. /\ Hushed(Now, w) /\ Suits(w, w.time)
        /\ \A t \in DOMAIN w.dist : \E c \in In(w.calls) : c.op = "startDistance" /\ c.s = t
    BY <1>2, RestartIs, OffIs
  <1> HIDE DEF w
  <1>4. /\ w \in Works /\ w.time = timeBased /\ w.dist = distanceBased /\ w.owed = owed
        /\ \A c \in In(w.calls) : c.then = "none"
    BY <1>2, <1>3, NoneAt DEF Hushed, Same
  <1>5. /\ Typed /\ Opening /\ Restarts /\ Leaving /\ \A t \in Sessions : Sound(t)
        /\ engine' = engine /\ up' = up /\ started' = started /\ live' = live /\ used' = used
        /\ clients' = clients /\ pending' = pending
        /\ timeBased' = timeBased /\ distanceBased' = distanceBased /\ owed' = owed
        /\ engq' = engq \o w.calls
    BY <1>1, <1>4 DEF IInv, Unchanging, Commit
  <1>6. /\ AnySeq(msgs) /\ AnySeq(r) /\ In(msgs) = In(r) \cup {m} /\ In(msgs) \subseteq Messages
        /\ AnySeq(pending) /\ In(pending) \subseteq Asking
    BY <1>1, <1>5, TailAt DEF Typed
  <1>7. AnySeq(msgs') /\ In(msgs') = In(r) \cup In(pending)
    BY <1>1, <1>6, ConcatAt
  <1>8. /\ AnySeq(w.calls) /\ In(w.calls) \subseteq Orders /\ AnySeq(engq)
        /\ In(engq') = In(engq) \cup In(w.calls)
    BY <1>2, <1>4, <1>5, FixType, ConcatAt
  <1>9. m \in Ups
    BY <1>1, <1>2, KindIs
  <1> HIDE DEF m, r
  <1>10. MaxCrashes = 0 => ~capsKnown /\ Count(r, Ups) = 0 /\ Count(engq, {OpenCall}) = 0
    <2> SUFFICES ASSUME MaxCrashes = 0
                 PROVE  ~capsKnown /\ Count(r, Ups) = 0 /\ Count(engq, {OpenCall}) = 0
      OBVIOUS
    <2>1. Count(msgs, Ups) = Count(r, Ups) + 1
      BY <1>1, <1>6, <1>9, CountTail DEF m, r
    <2>2. Count(r, Ups) \in Nat /\ Count(engq, {OpenCall}) \in Nat
      BY <1>6, <1>8, CountIs
    <2>3. Count(msgs, Ups) + Count(engq, {OpenCall}) + (IF capsKnown THEN 1 ELSE 0) <= 1
      BY <1>5 DEF Opening
    <2>4. CASE capsKnown
      <3>1. Count(r, Ups) + 1 + Count(engq, {OpenCall}) + 1 <= 1
        BY <2>1, <2>3, <2>4
      <3> QED BY <2>2, <3>1
    <2>5. CASE ~capsKnown
      <3>1. Count(r, Ups) + 1 + Count(engq, {OpenCall}) + 0 <= 1
        BY <2>1, <2>3, <2>5
      <3> QED BY <2>2, <2>5, <3>1
    <2> QED BY <2>4, <2>5
  <1>a. capsKnown => pending = << >>
    BY <1>5, <1>10, TrackingAssumption DEF Restarts
  <1>11. Opening'
    <2> SUFFICES ASSUME MaxCrashes = 0 PROVE Opening'
      BY DEF Opening
    <2>1. Count(pending, Ups) = 0
      <3>1. In(pending) \cap Ups = {}
        BY <1>6 DEF Asking, Commands, Ups
      <3> QED BY <1>6, <3>1, CountIs
    <2>2. Count(w.calls, {OpenCall}) = 0
      <3>1. OpenCall \notin Orders
        BY DEF OpenCall, Orders, Fixings, Spacings
      <3>2. In(w.calls) \cap {OpenCall} = {}
        BY <1>8, <3>1
      <3> QED BY <1>8, <3>2, CountIs
    <2>3. Count(msgs', Ups) = 0 /\ Count(engq', {OpenCall}) = 0
      BY <1>1, <1>5, <1>6, <1>8, <1>10, <2>1, <2>2, CountConcat
    <2>4. ~up' => engq' # << >> /\ Head(engq').op = "open"
      BY <1>5, <1>8, HeadStays DEF Opening
    <2>5. Ups' = Ups
      BY DEF Ups
    <2> QED BY <1>1, <2>3, <2>4 DEF Opening, Ups
  <1>12. Leaving'
    <2>1. ASSUME NEW k \in In(msgs'), k.type = "removeClient" PROVE k \in In(msgs)
      BY <1>6, <1>7, <2>1 DEF Asking, Commands
    <2> QED BY <1>1, <1>5, <2>1 DEF Leaving
  <1>13. Now' \in Works /\ EngineOK' /\ Serving'
    BY <1>1, <1>3, <1>4, <1>5, NowAfter
  <1>14. Typed'
    <2>1. In(msgs') \subseteq Messages
      BY <1>6, <1>7 DEF Messages
    <2> QED BY <1>1, <1>5, <1>7, <1>13, <2>1 DEF Typed
  <1>15. ASSUME NEW t \in Sessions PROVE Sound(t)'
    <2> DEFINE A == Abouts(t)
               D == Dues(t)
    <2>1. Count(msgs, A) = Count(r, A)
      <3>1. m \notin A
        BY <1>1 DEF A, Abouts, Asks3, m
      <3>2. Count(msgs, A) = Count(r, A) + 0
        BY <1>1, <1>6, <3>1, CountTail DEF m, r
      <3>3. Count(r, A) \in Nat
        BY <1>6, CountIs
      <3> QED BY <3>2, <3>3
    <2>2. Count(msgs', A) = Count(r, A) + Count(pending, A)
      BY <1>1, <1>6, CountConcat
    <2>3. Count(engq', D) = Count(engq, D)
      <3>1. In(w.calls) \cap D = {}
        BY <1>4 DEF D, Dues
      <3>2. Count(w.calls, D) = 0 /\ Count(engq, D) \in Nat
        BY <1>8, <3>1, CountIs
      <3>3. Count(engq', D) = Count(engq, D) + Count(w.calls, D)
        BY <1>5, <1>8, CountConcat
      <3> QED BY <3>2, <3>3
    <2>4. Count(r, A) \in Nat /\ Count(pending, A) \in Nat /\ Count(engq, D) \in Nat
      BY <1>6, <1>8, CountIs
    <2>5. /\ Flight(t) = Count(msgs, A) + Count(engq, D) + Count(pending, A)
          /\ Flight(t)' = Count(msgs', A) + Count(engq', D) + 0
      <3>1. capsKnown => Count(pending, A) = 0
        BY <1>a, CountOne
      <3>2. Flight(t) = Count(msgs, A) + Count(engq, D) + Count(pending, A)
        <4>1. Flight(t) = Count(msgs, A) + Count(engq, D)
                          + IF capsKnown THEN 0 ELSE Count(pending, A)
          BY DEF Flight
        <4> QED BY <3>1, <4>1
      <3> QED BY <1>1, <3>2 DEF Flight, Abouts, Dues
    <2> HIDE DEF A, D
    <2>6. Flight(t)' = Flight(t)
      BY <2>1, <2>2, <2>3, <2>4, <2>5
    <2>7. ASSUME NEW x PROVE Awaits(t, x)' <=> Awaits(t, x)
      <3>1. Awaits(t, x)' <=> \/ \E c \in In(engq') : c.s = t /\ c.then = x /\ x # "none"
                              \/ \E k \in In(msgs') : k.type = "answer" /\ k.s = t
                                                       /\ k.then = x
        BY DEF Awaits
      <3>2. \A k \in In(pending) : k.type # "answer"
        BY <1>6 DEF Asking, Commands
      <3>3. m.type # "answer"
        BY <1>1 DEF m
      <3> QED BY <1>4, <1>6, <1>7, <1>8, <3>1, <3>2, <3>3 DEF Awaits
    <2>8. ASSUME NEW x PROVE Asked(t, x)' <=> Asked(t, x)
      <3>1. Asked(t, x)' <=> \E k \in In(msgs') : x \in Asks3 /\ k.type = x /\ k.s = t
        BY <1>1 DEF Asked
      <3>2. m.type \notin Asks3
        BY <1>1 DEF m, Asks3
      <3>3. capsKnown => In(pending) = {}
        BY <1>a, NoneAt
      <3> QED BY <1>6, <1>7, <3>1, <3>2, <3>3 DEF Asked
    <2>9. Untouched(t)
      BY <1>1, <1>5, <2>6, <2>7, <2>8 DEF Untouched
    <2>10. started \in Nat /\ started <= started
      BY <1>5 DEF Typed
    <2> QED BY <1>5, <2>9, <2>10, UntouchedSound
  <1>16. Restarts'
    <2> SUFFICES ASSUME MaxCrashes > 0
                 PROVE  /\ capsKnown' /\ pending' = << >>
                        /\ ~up' => OpenCall \in In(engq')
                        /\ OpenCall \in In(engq') \/ Heeded(msgs')
      BY DEF Restarts, Heeded, Refusal, Ups
    <2>1. pending = << >> /\ msgs' = r
      BY <1>1, <1>5, <1>6, ConcatNone DEF Restarts
    <2>2. Heeded(msgs) => Heeded(msgs')
      BY <1>1, <1>6, <2>1, HeededTail DEF r
    <2> QED BY <1>1, <1>5, <1>8, <2>1, <2>2 DEF Restarts
  <1>17. ASSUME NEW t \in Sessions PROVE Covered(t)'
    BY <1>3, <1>4, <1>5, <1>8 DEF Covered
  <1> QED BY <1>11, <1>12, <1>13, <1>14, <1>15, <1>16, <1>17 DEF IInv

\* One session of a client that is being removed.
LEMMA StopOneIs ==
  ASSUME EngineOK, NEW w \in Works, NEW s \in Sessions, NEW c, ServesTable(w, w.time)
  PROVE  LET v == StopOne(w, s, c)
         IN  /\ v \in Works /\ v.dist = w.dist /\ ServesTable(v, v.time)
             /\ DOMAIN v.time = {t \in DOMAIN w.time : Owner[t] # c \/ t # s}
             /\ \A t \in Sessions : Owner[t] # c => v.owed[t] = w.owed[t]
             /\ \A d \in In(v.calls) : \/ d \in In(w.calls)
                                       \/ d.s = s /\ s \in DOMAIN w.time
                                          /\ d.then \in {"started", "stopped"} /\ Owner[s] = c
  <1> DEFINE v == StopOne(w, s, c)
             u == StopTimeBasedTrackingMultiplex(w, s)
  <1>1. CASE ~(Owner[s] = c /\ s \in DOMAIN w.time)
    <2>1. v = w
      BY <1>1 DEF StopOne
    <2> QED BY <1>1, <2>1
  <1>2. CASE Owner[s] = c /\ s \in DOMAIN w.time
    <2>1. v = EraseTrackingSession(u, s)
      BY <1>2 DEF StopOne
    <2>2. Answers(w, u, s, {"started", "stopped"}) /\ ServesTable(u, Without(w.time, s))
      BY <1>2, StopMultiplexIs
    <2> HIDE DEF u, v
    <2>3. Same(w, u)
      BY <2>2 DEF Answers
    <2>4. /\ v \in Works /\ v.calls = u.calls /\ v.owed = u.owed /\ v.nHz = u.nHz
          /\ v.spe = u.spe /\ FixOf(v) = FixOf(u)
          /\ v.time = Without(w.time, s) /\ v.dist = w.dist
      BY <1>2, <2>1, <2>3, EraseIs DEF Same
    <2>5. DOMAIN Without(w.time, s) = DOMAIN w.time \ {s}
      <3>1. w.time \in Tables(TimeOpts)
        BY DEF Works
      <3> QED BY <3>1, WithoutIs, Zenon
    <2>6. ServesTable(v, v.time)
      BY <2>2, <2>4, ServesStill
    <2>7. ASSUME NEW t \in Sessions, Owner[t] # c PROVE v.owed[t] = w.owed[t]
      <3>1. t # s /\ w.owed \in [Sessions -> Int]
        BY <1>2, <2>7 DEF Works
      <3> QED BY <2>2, <2>4, <3>1 DEF Answers, OneLess
    <2>8. ASSUME NEW d \in In(v.calls)
          PROVE  d \in In(w.calls) \/ (d.s = s /\ d.then \in {"started", "stopped"})
      <3>1. CASE u.calls = w.calls
        BY <2>4, <2>8, <3>1
      <3>2. ASSUME NEW e \in Fixings, e.s = s, e.then \in {"started", "stopped"},
                   u.calls = Append(w.calls, e)
            PROVE  d \in In(w.calls) \/ (d.s = s /\ d.then \in {"started", "stopped"})
        <4>1. AnySeq(w.calls)
          BY FixType
        <4>2. In(Append(w.calls, e)) = In(w.calls) \cup {e}
          BY <4>1, AppendAt, Zenon
        <4> QED BY <2>4, <2>8, <3>2, <4>2
      <3> QED BY <2>2, <3>1, <3>2 DEF Answers
    <2>9. DOMAIN v.time = {t \in DOMAIN w.time : Owner[t] # c \/ t # s}
      BY <1>2, <2>4, <2>5
    <2> QED BY <1>2, <2>4, <2>6, <2>7, <2>8, <2>9 DEF v
  <1> QED BY <1>1, <1>2

\* What is left of the work when the time-based sessions of a client up to k are gone.
StoppedUpTo(w, k, c) ==
    /\ w \in Works /\ w.dist = distanceBased /\ ServesTable(w, w.time)
    /\ DOMAIN w.time = {t \in DOMAIN timeBased : Owner[t] # c \/ t > k}
    /\ \A t \in Sessions : Owner[t] # c => w.owed[t] = owed[t]
    /\ \A d \in In(w.calls) : d.s \in DOMAIN timeBased /\ d.then \in {"started", "stopped"}
                                 /\ Owner[d.s] = c

\* All the time-based sessions of a client.
LEMMA StopTimeBasedIs ==
  ASSUME IInv, msgs # << >>, NEW c
  PROVE  StoppedUpTo(StopTimeBased(c), N, c)
  <1> USE SessionsAre
  <1>1. /\ EngineOK /\ Now \in Works /\ ServesTable(Now, Now.time)
        /\ Now.time = timeBased /\ Now.dist = distanceBased /\ Now.calls = << >>
        /\ Now.owed = owed /\ DOMAIN timeBased \subseteq Sessions
    BY NowIs
  <1>2. PICK f : /\ f[0] = Now
                 /\ \A k \in Sessions : f[k] = StopOne(f[k - 1], k, c)
                 /\ StopTimeBased(c) = f[N]
    BY StopsInTurn
  <1> DEFINE T == {k \in 0..N : ~StoppedUpTo(f[k], k, c)}
  <1>3. StoppedUpTo(f[0], 0, c)
    <2>1. In(Now.calls) = {} /\ \A t \in DOMAIN timeBased : t > 0
      BY <1>1, NoneAt
    <2>2. DOMAIN Now.time = {t \in DOMAIN timeBased : Owner[t] # c \/ t > 0}
      BY <1>1, <2>1
    <2> QED BY <1>1, <1>2, <2>1, <2>2 DEF StoppedUpTo
  <1>4. ASSUME NEW k \in Sessions, StoppedUpTo(f[k - 1], k - 1, c)
        PROVE  StoppedUpTo(f[k], k, c)
    <2> DEFINE w == f[k - 1]
               v == f[k]
    <2>1. /\ w \in Works /\ w.dist = distanceBased /\ ServesTable(w, w.time)
          /\ DOMAIN w.time = {t \in DOMAIN timeBased : Owner[t] # c \/ t > k - 1}
          /\ \A t \in Sessions : Owner[t] # c => w.owed[t] = owed[t]
          /\ \A d \in In(w.calls) : d.s \in DOMAIN timeBased /\ d.then \in {"started", "stopped"}
                                     /\ Owner[d.s] = c
      BY <1>4 DEF StoppedUpTo
    <2>2. v = StopOne(w, k, c)
      BY <1>2
    <2> HIDE DEF w, v
    <2>3. /\ v \in Works /\ v.dist = w.dist /\ ServesTable(v, v.time)
          /\ DOMAIN v.time = {t \in DOMAIN w.time : Owner[t] # c \/ t # k}
          /\ \A t \in Sessions : Owner[t] # c => v.owed[t] = w.owed[t]
          /\ \A d \in In(v.calls) : \/ d \in In(w.calls)
                                    \/ d.s = k /\ k \in DOMAIN w.time
                                       /\ d.then \in {"started", "stopped"} /\ Owner[k] = c
      BY <1>1, <2>1, <2>2, StopOneIs
    <2>4. \A t \in DOMAIN timeBased : t > k <=> t > k - 1 /\ t # k
      BY <1>1
    <2>5. DOMAIN v.time = {t \in DOMAIN timeBased : Owner[t] # c \/ t > k}
      BY <2>1, <2>3, <2>4
    <2>6. StoppedUpTo(v, k, c)
      BY <2>1, <2>3, <2>5 DEF StoppedUpTo
    <2> QED BY <2>6 DEF v
  <1>5. T = {}
    <2> SUFFICES ASSUME T # {} PROVE FALSE
      OBVIOUS
    <2>1. T \in SUBSET Nat
      OBVIOUS
    <2>2. PICK k \in T : \A j \in T : k <= j
      BY <2>1, Minimum
    <2>3. k # 0 /\ k \in Sessions /\ k - 1 \in 0..N /\ k - 1 \notin T
      BY <1>3, <2>2
    <2>4. StoppedUpTo(f[k - 1], k - 1, c)
      BY <2>3
    <2> QED BY <1>4, <2>2, <2>3, <2>4
  <1> QED BY <1>2, <1>5

\* Nothing is to be done for a session with nothing under way.
LEMMA NothingUnderWay ==
  ASSUME Typed, NEW s \in Sessions, Flight(s) <= 0
  PROVE  (\A x : ~Asked(s, x)) /\ \A x : x # "erase" => ~Awaits(s, x)
  <1> DEFINE A == Abouts(s)
             D == Dues(s)
  <1>1. Count(msgs, A) \in Nat /\ Count(engq, D) \in Nat /\ Count(pending, A) \in Nat
    BY CountIs DEF Typed, EngineOK
  <1>2. Flight(s) = Count(msgs, A) + Count(engq, D) + IF capsKnown THEN 0 ELSE Count(pending, A)
    BY DEF Flight
  <1>3. Count(msgs, A) = 0 /\ Count(engq, D) = 0 /\ (capsKnown \/ Count(pending, A) = 0)
    <2> HIDE DEF A, D
    <2> QED BY <1>1, <1>2
  <1>4. /\ In(msgs) \cap A = {} /\ In(engq) \cap D = {} /\ (capsKnown \/ In(pending) \cap A = {})
    BY <1>3, CountIs DEF Typed, EngineOK
  <1>5. In(msgs) \subseteq Messages /\ In(pending) \subseteq Messages /\ In(engq) \subseteq Bodies
    BY OpenIs DEF Typed, EngineOK, Messages, Orders, Fixings, Spacings
  <1>6. \A x : ~Asked(s, x)
    BY <1>4, <1>5 DEF Asked, Abouts
  <1>7. \A x : x # "erase" => ~Awaits(s, x)
    BY <1>4, <1>5 DEF Awaits, Abouts, Dues
  <1> QED BY <1>6, <1>7

\* A client is removed: nothing of it is left but its distance-based sessions, which
\* are to be erased.
LEMMA ProcRemoveClientKeeps ==
  ASSUME IInv, ProcRemoveClient
  PROVE  IInv'
  <1> DEFINE m == Head(msgs)
             c == m.c
             u == StopTimeBased(c)
             g == [s \in {t \in DOMAIN distanceBased : Owner[t] = c} |-> Malformed]
             v == CallEach(u, "stopDistance", g, "erase")
             w == [v EXCEPT !.owed = [s \in Sessions |-> IF Owner[s] = c THEN 0 ELSE @[s]]]
  <1>1. /\ msgs # << >> /\ m.type = "removeClient" /\ msgs' = Tail(msgs) /\ Commit(w)
        /\ clients' = clients \ {c} /\ UNCHANGED <<capsKnown, pending, Unchanging>>
    BY DEF ProcRemoveClient, Receive, StopClientSessions
  <1>2. /\ EngineOK /\ DOMAIN timeBased \subseteq Sessions
        /\ DOMAIN distanceBased \subseteq Sessions
        /\ m \in In(msgs) /\ \A s \in Sessions : Sound(s)
    BY <1>1, NowIs
  <1>3. /\ u \in Works /\ u.dist = distanceBased /\ ServesTable(u, u.time)
        /\ DOMAIN u.time = {t \in DOMAIN timeBased : Owner[t] # c}
        /\ \A t \in Sessions : Owner[t] # c => u.owed[t] = owed[t]
        /\ \A d \in In(u.calls) : d.s \in DOMAIN timeBased /\ d.then \in {"started", "stopped"}
                                 /\ Owner[d.s] = c
    <2>1. StoppedUpTo(u, N, c)
      BY <1>1, StopTimeBasedIs
    <2>2. \A t \in DOMAIN timeBased : ~(t > N)
      BY <1>2, SessionsAre
    <2> QED BY <2>1, <2>2 DEF StoppedUpTo
  <1> HIDE DEF u
  <1>4. /\ Same(u, v) /\ v.owed = u.owed /\ v.spe = u.spe /\ FixOf(v) = FixOf(u)
        /\ In(v.calls) = In(u.calls) \cup
              {[op |-> "stopDistance", s |-> s, o |-> g[s], then |-> "erase",
                kept |-> Malformed] : s \in DOMAIN g}
    <2>1. DOMAIN g \subseteq Sessions /\ \A s \in DOMAIN g : g[s] \in TrackingOptions
      BY <1>2, MalformedIs
    <2> HIDE DEF g
    <2> QED BY <1>2, <1>3, <2>1, CallEachIs
  <1>5. DOMAIN g = {t \in DOMAIN distanceBased : Owner[t] = c}
    OBVIOUS
  <1> HIDE DEF v, g
  <1>6. /\ w \in Works /\ w.time = u.time /\ w.dist = distanceBased /\ w.nHz = u.nHz
        /\ w.spe = u.spe /\ w.calls = v.calls
        /\ w.owed = [s \in Sessions |-> IF Owner[s] = c THEN 0 ELSE u.owed[s]]
    <2> DEFINE a == [s \in Sessions |-> IF Owner[s] = c THEN 0 ELSE u.owed[s]]
    <2>1. a \in [Sessions -> Int]
      BY <1>3 DEF Works
    <2>2. w = [v EXCEPT !.owed = a] /\ v \in Works /\ v.time = u.time /\ v.dist = distanceBased
          /\ v.nHz = u.nHz
      BY <1>3, <1>4 DEF Same
    <2> HIDE DEF a, w
    <2>3. /\ w \in Works /\ w.time = v.time /\ w.dist = v.dist /\ w.nHz = v.nHz
          /\ w.spe = v.spe /\ w.calls = v.calls /\ w.owed = a
      BY <2>1, <2>2 DEF Works
    <2> QED BY <1>4, <2>2, <2>3 DEF a
  <1> HIDE DEF w
  <1>7. ServesTable(w, w.time)
    <2>1. FixOf(w) = FixOf(u)
      BY <1>4, <1>6 DEF FixOf
    <2> QED BY <1>3, <1>6, <2>1, ServesStill
  <1>8. ASSUME NEW d \in In(w.calls)
        PROVE  /\ Owner[d.s] = c
               /\ \/ d.s \in DOMAIN timeBased /\ d.then \in {"started", "stopped"}
                  \/ d.s \in DOMAIN distanceBased /\ d.then = "erase"
    BY <1>3, <1>4, <1>5, <1>6, <1>8
  <1>9. ASSUME NEW t \in DOMAIN distanceBased, Owner[t] = c
        PROVE  \E d \in In(w.calls) : d.s = t /\ d.then = "erase"
    <2> DEFINE d == [op |-> "stopDistance", s |-> t, o |-> g[t], then |-> "erase",
                     kept |-> Malformed]
    <2>1. t \in DOMAIN g
      BY <1>5, <1>9
    <2>2. d \in In(v.calls)
      BY <1>4, <2>1
    <2>3. d \in In(w.calls) /\ d.s = t /\ d.then = "erase"
      BY <1>6, <2>2
    <2> QED BY <2>3
  <1>10. /\ Typed /\ Opening /\ Restarts /\ Leaving /\ \A t \in Sessions : Covered(t)
         /\ engine' = engine /\ up' = up /\ started' = started /\ live' = live /\ used' = used
         /\ capsKnown' = capsKnown /\ pending' = pending
         /\ timeBased' = w.time /\ distanceBased' = w.dist /\ owed' = w.owed
         /\ engq' = engq \o w.calls
    BY <1>1 DEF IInv, Unchanging, Commit
  <1>a. Reopening => Reopening'
    BY <1>1, <1>6, <1>10, ReopeningAfter DEF Ups
  <1>11. Typed' /\ Opening' /\ Restarts' /\ Serving'
    BY <1>1, <1>6, <1>7, <1>10, <1>a, TypedAfter, OpeningAfter, RestartsAfter, NowAfter
  <1>12. c \notin live
    BY <1>1, <1>2, <1>10 DEF Leaving
  <1>13. Leaving'
    <2>1. In(msgs') \subseteq In(msgs)
      BY <1>1, <1>10, TailAt DEF Typed
    <2> QED BY <1>1, <1>10, <1>12, <2>1 DEF Leaving
  <1>14. ASSUME NEW t \in Sessions
         PROVE  \A x : /\ CallsFor(w, t, x) => \/ /\ Owner[t] = c /\ t \in DOMAIN timeBased
                                                   /\ x \in {"started", "stopped"}
                                               \/ Owner[t] = c /\ t \in DOMAIN distanceBased
                                                  /\ x = "erase"
                       /\ Awaits(t, x)' => Awaits(t, x) \/ CallsFor(w, t, x)
                       /\ Asked(t, x)' => Asked(t, x)
    <2>1. \A x : /\ Awaits(t, x)' => Awaits(t, x) \/ CallsFor(w, t, x)
                 /\ Asked(t, x)' => Asked(t, x)
      BY <1>1, <1>6, <1>10, TakenIs
    <2> QED BY <1>8, <2>1 DEF CallsFor
  <1>15. ASSUME NEW t \in Sessions, Owner[t] # c PROVE Sound(t)'
    <2>1. \A d \in In(w.calls) : d.s = t => d.then = "none"
      BY <1>8, <1>15
    <2>2. ~IsAbout(m, t)
      BY <1>1 DEF IsAbout, Asks3
    <2>3. /\ Flight(t)' = Flight(t)
          /\ \A x : (Awaits(t, x)' <=> Awaits(t, x)) /\ (Asked(t, x)' <=> Asked(t, x))
      BY <1>1, <1>6, <1>10, <2>1, <2>2, TakenIs
    <2>4. owed'[t] = owed[t]
      BY <1>3, <1>6, <1>10, <1>15
    <2>5. /\ t \in DOMAIN timeBased' <=> t \in DOMAIN timeBased
          /\ t \in DOMAIN distanceBased' <=> t \in DOMAIN distanceBased
      BY <1>3, <1>6, <1>10, <1>15
    <2>6. Untouched(t)
      BY <1>1, <1>15, <2>3, <2>4, <2>5 DEF Untouched
    <2>7. started \in Nat /\ started <= started
      BY <1>10 DEF Typed
    <2> QED BY <1>2, <1>10, <2>6, <2>7, UntouchedSound
  <1>16. ASSUME NEW t \in Sessions, Owner[t] = c PROVE Sound(t)'
    <2>1. /\ Balanced(t) /\ OneAtATime(t) /\ Unborn(t) /\ Removed(t) /\ TimeOnly(t)
          /\ Fits(t) /\ Orphaned(t)
      BY <1>2 DEF Sound
    <2>2. /\ Owner[t] \notin clients' /\ t \notin DOMAIN timeBased'
          /\ distanceBased' = distanceBased /\ owed'[t] = 0
      BY <1>1, <1>3, <1>6, <1>10, <1>16
    <2>3. Balanced(t)' /\ OneAtATime(t)'
      BY <2>2 DEF Balanced, OneAtATime
    <2>4. Unborn(t)'
      BY <1>10, <1>14, <2>1, <2>2 DEF Unborn
    <2>5. Removed(t)'
      <3>1. CASE t \in Patient /\ Owner[t] \in clients
        <4>1. Flight(t) <= 0
          BY <1>12, <1>16, <2>1, <3>1 DEF OneAtATime, Balanced
        <4>2. (\A x : ~Asked(t, x)) /\ \A x : x # "erase" => ~Awaits(t, x)
          BY <1>10, <4>1, NothingUnderWay
        <4> QED BY <1>14, <4>2 DEF Removed, Spacing
      <3>2. CASE t \in Patient /\ Owner[t] \notin clients
        BY <1>14, <2>1, <3>2 DEF Removed, Spacing
      <3> QED BY <3>1, <3>2 DEF Removed
    <2>6. TimeOnly(t)'
      BY <1>14, <2>1, <2>2 DEF TimeOnly, Spacing
    <2>7. Fits(t)'
      BY <1>14, <2>1, <2>2 DEF Fits
    <2>8. Orphaned(t)'
      <3>1. ASSUME t \in DOMAIN distanceBased PROVE Awaits(t, "erase")'
        <4>1. PICK d \in In(w.calls) : d.s = t /\ d.then = "erase"
          BY <1>9, <1>16, <3>1
        <4>2. AnySeq(engq) /\ AnySeq(w.calls)
          BY <1>2, <1>6, FixType
        <4>3. d \in In(engq')
          BY <1>10, <4>2, ConcatAt
        <4> QED BY <4>1, <4>3 DEF Awaits
      <3> QED BY <2>2, <3>1 DEF Orphaned
    <2> QED BY <2>3, <2>4, <2>5, <2>6, <2>7, <2>8 DEF Sound
  <1>17. ASSUME NEW t \in Sessions PROVE Covered(t)'
    <2>1. Spares(w, m, t)
      BY <1>1, <1>6 DEF Spares
    <2> QED BY <1>1, <1>6, <1>10, <1>a, <2>1, CoveredAfter
  <1> QED BY <1>11, <1>13, <1>15, <1>16, <1>17 DEF IInv

\* Every step of the adapter.
LEMMA ProcKeeps ==
  ASSUME IInv, Settled, Proc
  PROVE  IInv'
  <1>1. ASSUME ProcStart PROVE IInv'
    <2>1. CASE MustWait(Head(msgs))
      BY <1>1, <2>1, WaitKeeps DEF ProcStart, Receive
    <2> QED BY <1>1, <2>1, ProcStartKeeps
  <1>2. ASSUME ProcUpdate PROVE IInv'
    <2>1. CASE MustWait(Head(msgs))
      BY <1>2, <2>1, WaitKeeps DEF ProcUpdate, Receive
    <2> QED BY <1>2, <2>1, ProcUpdateKeeps
  <1> QED BY <1>1, <1>2, ProcStopKeeps, ProcRemoveClientKeeps, ProcConfigKeeps, ProcNHzKeeps,
             ProcEngineUpKeeps, ProcAnswerKeeps DEF Proc

-----------------------------------------------------------------------------
(* The steps of the clients and of the LocApi.                             *)

\* Nothing of the adapter or of the engine has changed.
LEMMA NowStays ==
  ASSUME Typed, Serving, UNCHANGED <<engq, adapter, engine>>,
         owed' \in [Sessions -> Int], Reopening => Reopening'
  PROVE  Now' \in Works /\ EngineOK' /\ Serving'
  <1>1. /\ engq' = engq /\ engine' = engine /\ timeBased' = timeBased /\ nHz' = nHz /\ spe' = spe
        /\ distanceBased' = distanceBased
    BY DEF adapter
  <1>2. Now' = [Now EXCEPT !.owed = owed']
    BY <1>1 DEF Now
  <1>3. Now' \in Works
    BY <1>2 DEF Typed, Works
  <1>4. /\ Now'.calls = Now.calls /\ Now'.spe = Now.spe /\ Now'.nHz = Now.nHz
        /\ timeBased' = timeBased
    BY <1>1 DEF Now
  <1>5. EngineOK'
    BY <1>1 DEF Typed, EngineOK
  <1>6. FixOf(Now)' = FixOf(Now)
    BY <1>1, <1>4 DEF FixOf, Commanding, FixCalls
  <1>7. Serving'
    BY <1>4, <1>6 DEF Serving, ServesTable, Suits, Suited
  <1> QED BY <1>3, <1>5, <1>7

\* A message posted behind the others.
LEMMA Posted ==
  ASSUME Typed, NEW m \in Messages, m \notin Ups, msgs' = Append(msgs, m),
         UNCHANGED <<engq, adapter, up>>
  PROVE  /\ AnySeq(msgs') /\ In(msgs') \subseteq Messages /\ In(msgs') = In(msgs) \cup {m}
         /\ Opening => Opening'
         /\ Reopening => Reopening'
         /\ m.type # "answer" /\ Restarts => Restarts'
         /\ \A t \in Sessions : /\ Flight(t) \in Nat
                                /\ Flight(t)' = Flight(t) + IF IsAbout(m, t) THEN 1 ELSE 0
                                /\ m.type # "answer" => \A x : Awaits(t, x)' <=> Awaits(t, x)
                                /\ ~IsAbout(m, t) => \A x : Asked(t, x)' <=> Asked(t, x)
                                /\ \A x : Asked(t, x)' => Asked(t, x) \/ (m.s = t /\ m.type = x)
  <1>1. AnySeq(msgs) /\ AnySeq(msgs') /\ In(msgs') = In(msgs) \cup {m}
    BY AppendAt DEF Typed
  <1>2. In(msgs) \subseteq Messages /\ engq' = engq /\ capsKnown' = capsKnown /\ pending' = pending
    BY DEF Typed, adapter
  <1>3. Opening => Opening'
    <2> SUFFICES ASSUME MaxCrashes = 0, Opening PROVE Opening'
      BY DEF Opening
    <2>1. Count(msgs', Ups) = Count(msgs, Ups) + 0
      BY <1>1, CountAppend
    <2>2. Count(msgs, Ups) \in Nat
      BY <1>1, CountIs
    <2>3. Count(msgs', Ups) = Count(msgs, Ups)
      BY <2>1, <2>2
    <2> QED BY <1>2, <2>3 DEF Opening, Ups
  <1>4. ASSUME NEW t \in Sessions
        PROVE  /\ Flight(t) \in Nat
               /\ Flight(t)' = Flight(t) + IF IsAbout(m, t) THEN 1 ELSE 0
    <2> DEFINE A == Abouts(t)
               D == Dues(t)
               p == IF capsKnown THEN 0 ELSE Count(pending, A)
               i == IF IsAbout(m, t) THEN 1 ELSE 0
    <2>1. m \in A <=> IsAbout(m, t)
      BY DEF Abouts, IsAbout
    <2>2. Count(msgs', A) = Count(msgs, A) + i
      BY <1>1, <2>1, CountAppend
    <2>3. Count(msgs, A) \in Nat /\ Count(engq, D) \in Nat /\ p \in Nat /\ i \in Nat
      BY CountIs DEF Typed, EngineOK
    <2>4. /\ Flight(t) = Count(msgs, A) + Count(engq, D) + p
          /\ Flight(t)' = Count(msgs', A) + Count(engq, D) + p
      BY <1>2 DEF Flight, Abouts, Dues
    <2> HIDE DEF A, D, p
    <2>5. Flight(t) \in Nat /\ Flight(t)' = Flight(t) + i
      <3> HIDE DEF i
      <3>1. \A a, b \in Nat : a + b + p \in Nat /\ (a + i) + b + p = (a + b + p) + i
        BY <2>3
      <3> QED BY <2>2, <2>3, <2>4
    <2> QED BY <2>5
  <1>5. ASSUME NEW t \in Sessions, m.type # "answer", NEW x PROVE Awaits(t, x)' <=> Awaits(t, x)
    <2>1. Awaits(t, x)' <=> \/ \E c \in In(engq) : c.s = t /\ c.then = x /\ x # "none"
                            \/ \E k \in In(msgs') : k.type = "answer" /\ k.s = t /\ k.then = x
      BY <1>2 DEF Awaits
    <2> QED BY <1>1, <1>5, <2>1 DEF Awaits
  <1>6. ASSUME NEW t \in Sessions, NEW x
        PROVE  /\ Asked(t, x) => Asked(t, x)'
               /\ Asked(t, x)' => Asked(t, x) \/ (m.s = t /\ m.type = x /\ IsAbout(m, t))
    <2>1. Asked(t, x)' <=> \/ \E k \in In(msgs') : x \in Asks3 /\ k.type = x /\ k.s = t
                           \/ ~capsKnown /\ \E k \in In(pending) :
                                                x \in Asks3 /\ k.type = x /\ k.s = t
      BY <1>2 DEF Asked
    <2> QED BY <1>1, <2>1 DEF Asked, IsAbout
  <1>7. Reopening => Reopening'
    BY <1>1, <1>2 DEF Reopening, Ups
  <1>8. ASSUME m.type # "answer", Restarts PROVE Restarts'
    <2>1. Heeded(msgs) => Heeded(msgs')
      BY <1>1, <1>8, HeededAppend DEF Refusal
    <2> QED BY <1>2, <1>8, <2>1 DEF Restarts, Heeded, Refusal, Ups
  <1> QED BY <1>1, <1>2, <1>3, <1>4, <1>5, <1>6, <1>7, <1>8

\* A command posted by a client that may call.
LEMMA AsksKeeps ==
  ASSUME IInv, NEW s \in Sessions, NEW m \in Messages, m.type \in Asks3, m.s = s, Asks(s, m),
         used' \in [updates : Nat, configs : Nat, crashes : Nat],
         started' \in Nat, started <= started', s <= started', Owner[s] \in live,
         s \in Patient => owed[s] = 0,
         m.type = "start" => s > started
  PROVE  IInv'
  <1>1. /\ Typed /\ Opening /\ Restarts /\ Leaving /\ Serving
        /\ \A t \in Sessions : Sound(t) /\ Covered(t)
        /\ msgs' = Append(msgs, m) /\ owed' = [owed EXCEPT ![s] = @ + 1]
        /\ UNCHANGED <<engq, adapter, engine, up>> /\ live' = live
    BY DEF IInv, Asks, Post
  <1>2. /\ clients' = clients /\ timeBased' = timeBased /\ distanceBased' = distanceBased
        /\ capsKnown' = capsKnown /\ pending' = pending /\ up' = up
    BY <1>1 DEF adapter
  <1>3. owed \in [Sessions -> Int] /\ owed' \in [Sessions -> Int]
    <2>1. owed \in [Sessions -> Int]
      BY <1>1 DEF Typed, Works, Now
    <2> QED BY <1>1, <2>1
  <1>4. m \notin Ups /\ m.type # "answer"
    BY DEF Ups, Asks3
  <1>5. /\ AnySeq(msgs') /\ In(msgs') \subseteq Messages /\ In(msgs') = In(msgs) \cup {m}
        /\ Opening' /\ Restarts' /\ (Reopening => Reopening')
        /\ \A t \in Sessions : /\ Flight(t) \in Nat
                               /\ Flight(t)' = Flight(t) + IF IsAbout(m, t) THEN 1 ELSE 0
                               /\ \A x : Awaits(t, x)' <=> Awaits(t, x)
                               /\ ~IsAbout(m, t) => \A x : Asked(t, x)' <=> Asked(t, x)
                               /\ \A x : Asked(t, x)' => Asked(t, x) \/ (m.s = t /\ m.type = x)
    BY <1>1, <1>4, Posted
  <1>6. Now' \in Works /\ EngineOK' /\ Serving'
    BY <1>1, <1>3, <1>5, NowStays
  <1>7. Typed'
    BY <1>1, <1>2, <1>5, <1>6 DEF Typed
  <1>8. Leaving'
    BY <1>1, <1>2, <1>5 DEF Leaving, Asks3
  <1>9. ASSUME NEW t \in Sessions, t # s PROVE Sound(t)'
    <2>1. ~IsAbout(m, t) /\ owed'[t] = owed[t]
      BY <1>1, <1>3, <1>9 DEF IsAbout
    <2>2. Flight(t)' = Flight(t)
      BY <1>5, <2>1
    <2>3. Untouched(t)
      BY <1>2, <1>5, <2>1, <2>2 DEF Untouched
    <2>4. started \in Nat
      BY <1>1 DEF Typed
    <2> QED BY <1>1, <2>3, <2>4, UntouchedSound
  <1>10. Sound(s)'
    <2>1. /\ Balanced(s) /\ OneAtATime(s) /\ Unborn(s) /\ Removed(s) /\ TimeOnly(s)
          /\ Fits(s) /\ Orphaned(s)
      BY <1>1 DEF Sound
    <2>2. IsAbout(m, s) /\ Owner[s] \in clients /\ owed'[s] = owed[s] + 1 /\ owed[s] \in Int
      BY <1>1, <1>3 DEF IsAbout, Leaving
    <2>3. Flight(s) \in Nat /\ Flight(s)' = Flight(s) + 1
      BY <1>5, <2>2
    <2>4. Balanced(s)'
      <3>1. owed[s] >= Flight(s) /\ (Complete => owed[s] = Flight(s))
        BY <2>1, <2>2 DEF Balanced
      <3>2. owed'[s] >= Flight(s)' /\ (Complete => owed'[s] = Flight(s)')
        BY <2>2, <2>3, <3>1
      <3> QED BY <3>2 DEF Balanced, Complete, Filled
    <2>5. OneAtATime(s)'
      BY <1>1, <2>2 DEF OneAtATime
    <2>6. Unborn(s)'
      <3>1. ~(s > started')
        BY SessionsAre
      <3> QED BY <3>1 DEF Unborn
    <2>7. Removed(s)' /\ TimeOnly(s)' /\ Orphaned(s)'
      BY <1>2, <1>5, <2>1, <2>2 DEF Removed, TimeOnly, Orphaned
    <2>8. Fits(s)'
      <3>1. m.type = "start" => s \notin DOMAIN timeBased /\ s \notin DOMAIN distanceBased
        BY <2>1 DEF Unborn
      <3> QED BY <1>2, <1>5, <2>1, <3>1 DEF Fits
    <2> QED BY <2>4, <2>5, <2>6, <2>7, <2>8 DEF Sound
  <1>11. ASSUME NEW t \in Sessions PROVE Covered(t)'
    <2>1. \A x : Awaits(t, x)' <=> Awaits(t, x)
      BY <1>5
    <2> QED BY <1>1, <1>2, <1>5, <2>1, CoveredStill
  <1> QED BY <1>5, <1>6, <1>7, <1>8, <1>9, <1>10, <1>11 DEF IInv

\* The commands of clients about their sessions.
LEMMA CommandsKeep ==
  ASSUME IInv, Settled,
         StartTrackingCommand \/ \E s \in Sessions : UpdateTrackingOptionsCommand(s)
                                                     \/ StopTrackingCommand(s)
  PROVE  IInv'
  <1>1. /\ started \in Nat /\ used \in [updates : Nat, configs : Nat, crashes : Nat]
        /\ \A s \in Sessions : Sound(s)
    BY DEF IInv, Typed
  <1>2. \A s \in Sessions : Menu[s] \subseteq TrackingOptions /\ Retune[s] \subseteq TrackingOptions
    BY TrackingAssumption
  <1>3. ASSUME StartTrackingCommand PROVE IInv'
    <2> DEFINE s == started + 1
    <2>1. s \in Sessions /\ Owner[s] \in live /\ started' = s /\ used' = used
      BY <1>3 DEF StartTrackingCommand
    <2>2. PICK o \in Menu[s] : Asks(s, [type |-> "start", s |-> s, o |-> o])
      BY <1>3 DEF StartTrackingCommand
    <2> DEFINE m == [type |-> "start", s |-> s, o |-> o]
    <2>3. s > started /\ s \in Nat
      BY <1>1
    <2>4. owed[s] = 0
      BY <1>1, <2>1, <2>3 DEF Sound, Unborn
    <2>5. m \in Asking
      <3>1. o \in TrackingOptions /\ (Filled => o.size = 1) /\ (s \notin Patient => o.distance = 0)
        BY <1>2, <2>1, <2>2 DEF Filled, Settled
      <3> QED BY <2>1, <3>1 DEF Asking, Commands
    <2>6. m \in Messages /\ m.type = "start" /\ m.type \in Asks3 /\ m.s = s
      BY <2>5 DEF Messages, Asks3
    <2> HIDE DEF m
    <2>7. Asks(s, m)
      BY <2>2 DEF m
    <2>8. started <= started' /\ s <= started' /\ started' \in Nat
      BY <1>1, <2>1
    <2> HIDE DEF s
    <2> QED BY <1>1, <2>1, <2>3, <2>4, <2>6, <2>7, <2>8, AsksKeeps
  <1>4. ASSUME NEW s \in Sessions, UpdateTrackingOptionsCommand(s) PROVE IInv'
    <2>1. /\ s <= started /\ Owner[s] \in live /\ (s \in Patient => owed[s] = 0)
          /\ started' = started /\ used' = [used EXCEPT !.updates = @ + 1]
      BY <1>4 DEF UpdateTrackingOptionsCommand, MayCall
    <2>2. PICK o \in Retune[s] : Asks(s, [type |-> "update", s |-> s, o |-> o])
      BY <1>4 DEF UpdateTrackingOptionsCommand
    <2> DEFINE m == [type |-> "update", s |-> s, o |-> o]
    <2>3. m \in Asking
      <3>1. o \in TrackingOptions /\ (s \notin Patient => o.distance = 0)
        BY <1>2, <2>2 DEF Settled
      <3> QED BY <3>1 DEF Asking, Commands
    <2>4. m \in Messages /\ m.type = "update" /\ m.type \in Asks3 /\ m.s = s
      BY <2>3 DEF Messages, Asks3
    <2>5. used' \in [updates : Nat, configs : Nat, crashes : Nat]
      BY <1>1, <2>1
    <2> HIDE DEF m
    <2>6. Asks(s, m)
      BY <2>2 DEF m
    <2>7. started <= started' /\ s <= started' /\ started' \in Nat
      BY <1>1, <2>1
    <2> QED BY <2>1, <2>4, <2>5, <2>6, <2>7, AsksKeeps
  <1>5. ASSUME NEW s \in Sessions, StopTrackingCommand(s) PROVE IInv'
    <2> DEFINE m == [type |-> "stop", s |-> s]
    <2>1. /\ s <= started /\ Owner[s] \in live /\ (s \in Patient => owed[s] = 0)
          /\ started' = started /\ used' = used /\ Asks(s, m)
      BY <1>5 DEF StopTrackingCommand, MayCall
    <2>2. m \in Messages /\ m.type = "stop" /\ m.type \in Asks3 /\ m.s = s
      BY DEF Messages, Asks3
    <2> HIDE DEF m
    <2>3. started <= started' /\ s <= started' /\ started' \in Nat
      BY <1>1, <2>1
    <2> QED BY <1>1, <2>1, <2>2, <2>3, AsksKeeps
  <1> QED BY <1>3, <1>4, <1>5

\* A message about no session, posted by a client or by the engine hub.
LEMMA PostKeeps ==
  ASSUME IInv, NEW m \in Messages, m.type \in {"removeClient", "config", "nHz"}, Post(m),
         UNCHANGED <<engq, adapter, engine, up, started, owed>>,
         used' \in [updates : Nat, configs : Nat, crashes : Nat],
         live' \subseteq live, m.type = "removeClient" => m.c \notin live',
         \A t \in Sessions : \/ Owner[t] \in live' <=> Owner[t] \in live
                             \/ t \in Patient => owed[t] = 0
  PROVE  IInv'
  <1>1. /\ Typed /\ Opening /\ Restarts /\ Leaving /\ Serving
        /\ \A t \in Sessions : Sound(t) /\ Covered(t)
        /\ msgs' = Append(msgs, m) /\ UNCHANGED <<engq, adapter, engine>>
        /\ started' = started /\ owed' = owed /\ up' = up
    BY DEF IInv, Post
  <1>2. /\ clients' = clients /\ timeBased' = timeBased /\ distanceBased' = distanceBased
        /\ capsKnown' = capsKnown /\ pending' = pending
    BY <1>1 DEF adapter
  <1>3. m \notin Ups /\ m.type # "answer" /\ \A t : ~IsAbout(m, t)
    BY DEF Ups, IsAbout, Asks3
  <1>4. /\ AnySeq(msgs') /\ In(msgs') \subseteq Messages /\ In(msgs') = In(msgs) \cup {m}
        /\ Opening' /\ Restarts' /\ (Reopening => Reopening')
        /\ \A t \in Sessions : /\ Flight(t) \in Nat
                               /\ Flight(t)' = Flight(t) + IF IsAbout(m, t) THEN 1 ELSE 0
                               /\ \A x : Awaits(t, x)' <=> Awaits(t, x)
                               /\ \A x : Asked(t, x)' <=> Asked(t, x)
    <2>1. UNCHANGED <<engq, adapter, up>>
      BY <1>1
    <2> QED BY <1>1, <1>3, <2>1, Posted
  <1>5. Now' \in Works /\ EngineOK' /\ Serving'
    <2>1. owed' \in [Sessions -> Int]
      BY <1>1 DEF Typed, Works, Now
    <2> QED BY <1>1, <1>4, <2>1, NowStays
  <1>6. Typed'
    BY <1>1, <1>2, <1>4, <1>5 DEF Typed
  <1>7. Leaving'
    BY <1>1, <1>2, <1>4 DEF Leaving
  <1>8. ASSUME NEW t \in Sessions PROVE Sound(t)'
    <2>1. Flight(t)' = Flight(t)
      BY <1>3, <1>4
    <2>2. Untouched(t)
      BY <1>1, <1>2, <1>4, <2>1 DEF Untouched
    <2>3. started \in Nat /\ started <= started
      BY <1>1 DEF Typed
    <2>4. CASE Owner[t] \in live' <=> Owner[t] \in live
      BY <1>1, <2>2, <2>3, <2>4, UntouchedSound
    <2>5. CASE t \in Patient => owed[t] = 0
      <3>1. Balanced(t)' /\ OneAtATime(t)'
        BY <1>1, <1>2, <2>1, <2>5 DEF Sound, Balanced, OneAtATime
      <3>2. Unborn(t)' /\ Removed(t)' /\ TimeOnly(t)' /\ Orphaned(t)'
        BY <1>1, <1>2, <1>4 DEF Sound, Unborn, Removed, TimeOnly, Orphaned
      <3>3. Fits(t)'
        BY <1>1, <1>2, <1>4 DEF Sound, Fits
      <3> QED BY <3>1, <3>2, <3>3 DEF Sound
    <2> QED BY <1>8, <2>4, <2>5
  <1>9. ASSUME NEW t \in Sessions PROVE Covered(t)'
    <2>1. \A x : Awaits(t, x)' <=> Awaits(t, x)
      BY <1>4
    <2> QED BY <1>1, <1>2, <1>4, <2>1, CoveredStill
  <1> QED BY <1>4, <1>5, <1>6, <1>7, <1>8, <1>9 DEF IInv

\* LocationAPI::destroy: the client takes no further step, and its removal is posted.
LEMMA RemoveClientKeeps ==
  ASSUME IInv, NEW c \in Clients, RemoveClientCommand(c)
  PROVE  IInv'
  <1> DEFINE m == [type |-> "removeClient", c |-> c]
  <1>1. /\ live' = live \ {c} /\ Post(m)
        /\ UNCHANGED <<engq, adapter, engine, up, started, owed>> /\ used' = used
        /\ \A s \in Patient : Owner[s] = c => owed[s] = 0
    BY DEF RemoveClientCommand
  <1>2. m \in Messages /\ m.type = "removeClient" /\ m.c = c
    BY DEF Messages
  <1> HIDE DEF m
  <1>3. used' \in [updates : Nat, configs : Nat, crashes : Nat]
    BY <1>1 DEF IInv, Typed
  <1>4. \A t \in Sessions : \/ Owner[t] \in live' <=> Owner[t] \in live
                            \/ t \in Patient => owed[t] = 0
    BY <1>1
  <1>5. live' \subseteq live /\ m.c \notin live'
    BY <1>1, <1>2
  <1> QED BY <1>1, <1>2, <1>3, <1>4, <1>5, PostKeeps

\* The commands that make the adapter restart its sessions are posted.
LEMMA ReconfigureKeeps ==
  ASSUME IInv, ConfigCommand \/ \E b \in BOOLEAN : UpdateNHzRequirement(b)
  PROVE  IInv'
  <1>1. ASSUME NEW m \in Messages, m.type \in {"config", "nHz"}, Reconfigure(m)
        PROVE  IInv'
    <2>1. /\ Post(m) /\ live' = live /\ used' = [used EXCEPT !.configs = @ + 1]
          /\ UNCHANGED <<engq, adapter, engine, up, started, owed>>
      BY <1>1 DEF Reconfigure
    <2>2. used \in [updates : Nat, configs : Nat, crashes : Nat]
      BY DEF IInv, Typed
    <2>3. used' \in [updates : Nat, configs : Nat, crashes : Nat]
      BY <2>1, <2>2
    <2> QED BY <1>1, <2>1, <2>3, PostKeeps
  <1>2. ASSUME ConfigCommand PROVE IInv'
    <2> DEFINE m == [type |-> "config"]
    <2>1. m \in Messages /\ m.type = "config"
      BY DEF Messages
    <2> QED BY <1>1, <1>2, <2>1 DEF ConfigCommand
  <1>3. ASSUME NEW b \in BOOLEAN, UpdateNHzRequirement(b) PROVE IInv'
    <2> DEFINE m == [type |-> "nHz", needed |-> b]
    <2>1. m \in Messages /\ m.type = "nHz"
      BY DEF Messages
    <2> QED BY <1>1, <1>3, <2>1 DEF UpdateNHzRequirement
  <1> QED BY <1>2, <1>3

\* A call made, or refused: when it is made, the fix the queue comes to is what it was.
LEMMA MadeIs ==
  ASSUME Typed, Serving, engq # << >>, engq' = Tail(engq),
         engine' \in {engine, Runs(engine, Head(engq))}, UNCHANGED <<adapter, callers>>,
         Reopening => Reopening', engine' = Runs(engine, Head(engq)) \/ Reopening'
  PROVE  /\ Now' \in Works /\ EngineOK' /\ Serving'
         /\ AnySeq(engq') /\ In(engq) = In(engq') \cup {Head(engq)}
         /\ Head(engq) \in Orders \cup {OpenCall}
  <1>1. /\ AnySeq(engq) /\ In(engq) \subseteq Orders \cup {OpenCall} /\ engine \in Engines
        /\ EngineOK
    BY DEF Typed, EngineOK
  <1>2. AnySeq(engq') /\ In(engq) = In(engq') \cup {Head(engq)}
    BY <1>1, TailAt
  <1>3. EngineOK'
    BY <1>1, <1>2, RunsIs DEF EngineOK
  <1>4. Now' = Now /\ timeBased' = timeBased
    BY DEF Now, adapter, callers
  <1>5. Now' \in Works
    <2>1. Works' = Works
      BY DEF Works
    <2> QED BY <1>4 DEF Typed
  <1>6. FixOf(Now) = Commanded /\ FixOf(Now)' = Commanded'
    <2>1. Now.calls = << >> /\ Now'.calls = << >>
      BY DEF Now
    <2>2. engq \o << >> = engq /\ engq' \o << >> = engq'
      BY <1>1, <1>2, ConcatNone
    <2>3. FixOf(Now) = Commanded
      BY <2>1, <2>2 DEF FixOf, Commanded
    <2>4. FixOf(Now)' = IF FixCalls(engq' \o Now'.calls) = {} THEN engine'
                        ELSE Runs(engine', (engq' \o Now'.calls)
                                               [Max(FixCalls(engq' \o Now'.calls))])
      BY DEF FixOf, Commanding, FixCalls
    <2>5. Commanded' = IF FixCalls(engq') = {} THEN engine'
                       ELSE Runs(engine', engq'[Max(FixCalls(engq'))])
      BY DEF Commanded, Commanding, FixCalls
    <2>6. FixOf(Now)' = Commanded'
      BY <2>1, <2>2, <2>4, <2>5
    <2> QED BY <2>3, <2>6
  <1>7. CASE Reopening'
    BY <1>3, <1>2, <1>1, <1>5, <1>7 DEF Serving, ServesTable
  <1>8. CASE engine' = Runs(engine, Head(engq))
    <2>1. /\ Commanded'.on = Commanded.on
          /\ Commanded.on => Commanded'.interval = Commanded.interval
      BY <1>1, <1>8, FixTail
    <2>2. Serving'
      BY <1>4, <1>6, <2>1 DEF Serving, ServesTable, Suits, Suited
    <2> QED BY <1>1, <1>2, <1>3, <1>5, <2>2
  <1> QED BY <1>7, <1>8

\* A call about a session is made, or refused: its answer is under way in its place.
LEMMA ExecuteKeeps ==
  ASSUME IInv, Execute
  PROVE  IInv'
  <1> DEFINE c == Head(engq)
             r == Answer(c, up)
  <1>1. /\ Typed /\ Opening /\ Restarts /\ Leaving /\ Serving
        /\ \A t \in Sessions : Sound(t) /\ Covered(t)
        /\ engq # << >> /\ c.op # "open" /\ engq' = Tail(engq)
        /\ UNCHANGED <<adapter, callers>> /\ up' = up
    BY DEF IInv, Execute
  <1>2. up \in BOOLEAN /\ (~up => MaxCrashes > 0 /\ OpenCall \in In(engq))
    BY <1>1, TrackingAssumption DEF Opening, Restarts, Typed
  <1>3. engine' = (IF up THEN Runs(engine, c) ELSE engine) /\ msgs' = msgs \o r
    BY DEF Execute
  <1>4. /\ clients' = clients /\ timeBased' = timeBased /\ distanceBased' = distanceBased
        /\ capsKnown' = capsKnown /\ pending' = pending /\ live' = live /\ owed' = owed
        /\ started' = started /\ used' = used
    BY <1>1 DEF adapter, callers
  <1>5. /\ AnySeq(engq') /\ In(engq) = In(engq') \cup {c}
        /\ c \in Orders \cup {OpenCall}
    BY <1>1, TailAt DEF Typed, EngineOK
  <1>6. c \in Orders /\ c \in Bodies /\ c # OpenCall
    BY <1>1, <1>5, OpenIs DEF Orders, Fixings, Spacings
  <1> DEFINE a == [type |-> "answer", s |-> c.s, then |-> c.then, kept |-> c.kept, ok |-> up]
  <1>7. r = IF c.then = "none" THEN << >> ELSE <<a>>
    BY DEF Answer
  <1>8. c.then # "none" => a \in Telling
    <2>1. ASSUME c.then # "none" PROVE a \in Telling
      <3>1. /\ c.s \in Sessions /\ c.then \in Plain \cup Spacing \cup {"erase"}
            /\ Keeping(c.then, c.kept) /\ c.kept \in TrackingOptions
        BY <1>6, <2>1 DEF Orders, Fixings, Spacings, Keeping, Plain, Bodies
      <3> QED BY <1>2, <3>1 DEF Telling
    <2> QED BY <2>1
  <1>9. /\ a.type = "answer" /\ a.s = c.s /\ a.then = c.then /\ a.ok = up
    OBVIOUS
  <1> HIDE DEF a, r, c
  <1>10. /\ AnySeq(r) /\ In(r) = IF c.then = "none" THEN {} ELSE {a}
         /\ \A A : Count(r, A) = IF c.then # "none" /\ a \in A THEN 1 ELSE 0
    BY <1>7, NoneAt, CountOne
  <1>11. AnySeq(msgs) /\ AnySeq(msgs') /\ In(msgs') = In(msgs) \cup In(r)
    BY <1>1, <1>3, <1>10, ConcatAt DEF Typed
  <1>a. (Reopening => Reopening') /\ (~up => Reopening')
    BY <1>2, <1>5, <1>6, <1>11 DEF Reopening, Ups
  <1>b. Now' \in Works /\ EngineOK' /\ Serving'
    BY <1>1, <1>3, <1>a, MadeIs DEF c
  <1>12. Typed'
    <2>1. In(msgs') \subseteq Messages
      BY <1>1, <1>8, <1>10, <1>11 DEF Typed, Messages
    <2> QED BY <1>1, <1>4, <1>b, <1>11, <2>1 DEF Typed
  <1>13. Opening'
    <2> SUFFICES ASSUME MaxCrashes = 0 PROVE Opening'
      BY DEF Opening
    <2>1. Count(r, Ups) = 0
      <3>1. a \notin Ups
        BY <1>9 DEF Ups
      <3> QED BY <1>10, <3>1
    <2>2. Count(msgs, Ups) \in Nat /\ Count(msgs', Ups) = Count(msgs, Ups) + 0
      BY <1>3, <1>10, <1>11, <2>1, CountConcat, CountIs
    <2>3. Count(engq, {OpenCall}) = Count(engq', {OpenCall}) + 0 /\ Count(engq', {OpenCall}) \in Nat
      BY <1>1, <1>5, <1>6, CountTail, CountIs DEF Typed, EngineOK, c
    <2>4. Count(msgs', Ups) = Count(msgs, Ups) /\ Count(engq, {OpenCall}) = Count(engq', {OpenCall})
      BY <2>2, <2>3
    <2> QED BY <1>1, <1>2, <1>4, <2>4 DEF Opening, Ups
  <1>c. Restarts'
    <2> SUFFICES ASSUME MaxCrashes > 0, OpenCall \notin In(engq') PROVE Heeded(msgs')
      BY <1>1, <1>2, <1>4, <1>5, <1>6 DEF Restarts, Heeded, Refusal, Ups
    <2>1. Heeded(msgs) /\ up
      BY <1>1, <1>2, <1>5, <1>6 DEF Restarts
    <2>2. CASE c.then = "none"
      BY <1>3, <1>7, <1>11, <2>1, <2>2, ConcatNone
    <2>3. CASE c.then # "none"
      <3>1. msgs' = Append(msgs, a)
        <4>1. r = Append(<< >>, a)
          BY <1>7, <2>3
        <4>2. msgs \o Append(<< >>, a) = Append(msgs \o << >>, a) /\ msgs \o << >> = msgs
          BY <1>11, NoneAt, ConcatAppend, ConcatNone
        <4> QED BY <1>3, <4>1, <4>2
      <3> QED BY <1>9, <1>11, <2>1, <3>1, HeededAppend DEF Refusal
    <2> QED BY <2>2, <2>3
  <1>14. Leaving'
    BY <1>1, <1>4, <1>9, <1>10, <1>11 DEF Leaving
  <1>15. ASSUME NEW t \in Sessions PROVE Sound(t)' /\ Covered(t)'
    <2>1. \A x : Awaits(t, x)' <=> \/ \E d \in In(engq') : d.s = t /\ d.then = x /\ x # "none"
                                   \/ \E k \in In(msgs') : k.type = "answer" /\ k.s = t
                                                             /\ k.then = x
      BY DEF Awaits
    <2>2. ASSUME NEW x PROVE Awaits(t, x)' <=> Awaits(t, x)
      BY <1>5, <1>9, <1>10, <1>11, <2>1 DEF Awaits
    <2>3. ASSUME NEW x PROVE Asked(t, x)' <=> Asked(t, x)
      <3>1. Asked(t, x)' <=> \/ \E k \in In(msgs') : x \in Asks3 /\ k.type = x /\ k.s = t
                             \/ ~capsKnown /\ \E k \in In(pending) :
                                                  x \in Asks3 /\ k.type = x /\ k.s = t
        BY <1>4 DEF Asked
      <3> QED BY <1>9, <1>10, <1>11, <3>1 DEF Asked, Asks3
    <2>4. ASSUME Owner[t] \in clients PROVE Flight(t)' = Flight(t)
      <3> DEFINE A == Abouts(t)
                 D == Dues(t)
                 p == IF capsKnown THEN 0 ELSE Count(pending, A)
                 i == IF c \in D THEN 1 ELSE 0
      <3>1. c.s = t => c.then # "erase"
        <4>1. c.s = t /\ c.then = "erase" => Awaits(t, "erase")
          BY <1>5 DEF Awaits
        <4> QED BY <1>1, <2>4, <4>1 DEF Sound, Fits
      <3>2. c.then # "none" /\ a \in A <=> c \in D
        <4>1. c \in D <=> c.s = t /\ c.then \notin {"none", "erase"}
          BY <1>6 DEF Dues
        <4>2. c.then # "none" => (a \in A <=> c.s = t)
          BY <1>8, <1>9 DEF Abouts, Messages
        <4> QED BY <3>1, <4>1, <4>2
      <3>3. /\ Count(msgs', A) = Count(msgs, A) + i
            /\ Count(engq, D) = Count(engq', D) + i
        <4>1. Count(r, A) = i
          BY <1>10, <3>2
        <4>2. Count(msgs', A) = Count(msgs, A) + Count(r, A)
          BY <1>3, <1>10, <1>11, CountConcat
        <4>3. Count(engq, D) = Count(engq', D) + IF c \in D THEN 1 ELSE 0
          BY <1>1, CountTail DEF Typed, EngineOK, c
        <4> QED BY <4>1, <4>2, <4>3
      <3>4. Count(msgs, A) \in Nat /\ Count(engq', D) \in Nat /\ p \in Nat /\ i \in Nat
        BY <1>1, <1>5, <1>11, CountIs DEF Typed
      <3>5. /\ Flight(t) = Count(msgs, A) + Count(engq, D) + p
            /\ Flight(t)' = Count(msgs', A) + Count(engq', D) + p
        BY <1>4 DEF Flight, Abouts, Dues
      <3> HIDE DEF A, D, p, i
      <3>6. \A x, y \in Nat : (x + i) + y + p = x + (y + i) + p
        BY <3>4
      <3> QED BY <3>3, <3>4, <3>5, <3>6, Zenon
    <2>5. Untouched(t)
      BY <1>4, <2>2, <2>3, <2>4 DEF Untouched
    <2>6. started \in Nat /\ started <= started
      BY <1>1 DEF Typed
    <2>7. Covered(t)'
      <3> SUFFICES ASSUME t \in DOMAIN distanceBased, ~Reopening'
                   PROVE  \/ t \in engine'.dist
                          \/ \E d \in In(engq') : d.op = "startDistance" /\ d.s = t
                          \/ \E x \in Ending : Awaits(t, x)'
        BY <1>4 DEF Covered, Ending
      <3>1. up /\ ~Reopening /\ engine' = Runs(engine, c)
        BY <1>3, <1>a
      <3>2. \/ t \in engine.dist
            \/ \E d \in In(engq) : d.op = "startDistance" /\ d.s = t
            \/ \E x \in Ending : Awaits(t, x)
        BY <1>1, <3>1 DEF Covered
      <3>3. engine \in Engines
        BY <1>1 DEF Typed, EngineOK
      <3>4. CASE c.op = "stopDistance" /\ c.s = t
        <4>1. c.then \in Ending \cup {"switchToTime"} /\ c.then # "none"
          BY <1>6, <3>4 DEF Orders, Fixings, Spacings, Ending
        <4>2. Awaits(t, c.then)
          BY <1>5, <3>4, <4>1 DEF Awaits
        <4>3. c.then # "switchToTime"
          BY <1>1, <4>2 DEF Sound, Fits
        <4> QED BY <2>2, <4>1, <4>2, <4>3
      <3>5. CASE c.op = "startDistance" /\ c.s = t
        BY <3>1, <3>3, <3>5 DEF Runs, Engines
      <3>6. CASE c.op \notin {"startDistance", "stopDistance"} \/ c.s # t
        <4>1. t \in engine.dist => t \in engine'.dist
          BY <1>6, <3>1, <3>3, <3>6 DEF Runs, Engines, EngineOff, Bodies
        <4> QED BY <1>5, <2>2, <3>2, <3>6, <4>1
      <3> QED BY <3>4, <3>5, <3>6
    <2> QED BY <1>1, <1>4, <2>5, <2>6, <2>7, UntouchedSound
  <1> QED BY <1>b, <1>c, <1>12, <1>13, <1>14, <1>15 DEF IInv

\* The modem is opened: the adapter is to be told, once.
LEMMA OpenKeeps ==
  ASSUME IInv, Open
  PROVE  IInv'
  <1> DEFINE c == Head(engq)
             a == [type |-> "engineUp"]
  <1>1. /\ Typed /\ Opening /\ Restarts /\ Leaving /\ Serving
        /\ \A t \in Sessions : Sound(t) /\ Covered(t)
        /\ engq # << >> /\ c.op = "open" /\ engq' = Tail(engq)
        /\ UNCHANGED <<adapter, engine, callers>> /\ up' = TRUE /\ msgs' = Append(msgs, a)
    BY DEF IInv, Open, Post
  <1>2. /\ clients' = clients /\ timeBased' = timeBased /\ distanceBased' = distanceBased
        /\ capsKnown' = capsKnown /\ pending' = pending /\ live' = live /\ owed' = owed
        /\ started' = started /\ used' = used /\ engine' = engine
    BY <1>1 DEF adapter, callers
  <1>3. engine' = Runs(engine, c)
    BY <1>1, <1>2 DEF Runs
  <1>a. Reopening => Reopening'
    <2>1. AnySeq(msgs) /\ In(msgs') = In(msgs) \cup {a}
      BY <1>1, AppendAt DEF Typed
    <2>2. a \in Ups
      BY DEF Ups
    <2> QED BY <2>1, <2>2 DEF Reopening, Ups
  <1>4. /\ Now' \in Works /\ EngineOK' /\ Serving'
        /\ AnySeq(engq') /\ In(engq) = In(engq') \cup {c}
        /\ c \in Orders \cup {OpenCall}
    <2>1. UNCHANGED <<adapter, callers>>
      BY <1>1
    <2> QED BY <1>1, <1>3, <1>a, <2>1, MadeIs
  <1>5. c = OpenCall /\ c.then = "none"
    BY <1>1, <1>4, OpenIs DEF Orders, Fixings, Spacings
  <1>6. a \in Messages /\ a.type = "engineUp" /\ a \in Ups
    BY DEF Messages, Ups
  <1> HIDE DEF a, c
  <1>7. AnySeq(msgs) /\ AnySeq(msgs') /\ In(msgs') = In(msgs) \cup {a}
    BY <1>1, AppendAt DEF Typed
  <1>8. Typed'
    <2>1. In(msgs') \subseteq Messages
      BY <1>1, <1>6, <1>7 DEF Typed
    <2> QED BY <1>1, <1>2, <1>4, <1>7, <2>1 DEF Typed
  <1>b. Restarts'
    <2>1. Heeded(msgs')
      BY <1>1, <1>6, <1>7, HeededUp
    <2> QED BY <1>1, <1>2, <2>1 DEF Restarts, Heeded, Refusal, Ups
  <1>9. Opening'
    <2> SUFFICES ASSUME MaxCrashes = 0 PROVE Opening'
      BY DEF Opening
    <2> DEFINE p == IF capsKnown THEN 1 ELSE 0
    <2>1. Count(msgs, Ups) \in Nat /\ Count(msgs', Ups) = Count(msgs, Ups) + 1
      BY <1>1, <1>6, <1>7, CountAppend, CountIs
    <2>2. /\ Count(engq', {OpenCall}) \in Nat
          /\ Count(engq, {OpenCall}) = Count(engq', {OpenCall}) + 1
      BY <1>1, <1>4, <1>5, CountTail, CountIs DEF Typed, EngineOK, c
    <2>3. p \in Nat /\ Count(msgs, Ups) + Count(engq, {OpenCall}) + p <= 1
      BY <1>1 DEF Opening
    <2> HIDE DEF p
    <2>4. Count(msgs', Ups) + Count(engq', {OpenCall}) + p <= 1
      BY <2>1, <2>2, <2>3
    <2> QED BY <1>1, <1>2, <2>4 DEF Opening, Ups, p
  <1>10. Leaving'
    BY <1>1, <1>2, <1>6, <1>7 DEF Leaving
  <1>11. ASSUME NEW t \in Sessions PROVE Sound(t)' /\ Covered(t)'
    <2>1. \A x : Awaits(t, x)' <=> \/ \E d \in In(engq') : d.s = t /\ d.then = x /\ x # "none"
                                   \/ \E k \in In(msgs') : k.type = "answer" /\ k.s = t
                                                             /\ k.then = x
      BY DEF Awaits
    <2>2. ASSUME NEW x PROVE Awaits(t, x)' <=> Awaits(t, x)
      BY <1>4, <1>5, <1>6, <1>7, <2>1 DEF Awaits
    <2>3. ASSUME NEW x PROVE Asked(t, x)' <=> Asked(t, x)
      <3>1. Asked(t, x)' <=> \/ \E k \in In(msgs') : x \in Asks3 /\ k.type = x /\ k.s = t
                             \/ ~capsKnown /\ \E k \in In(pending) :
                                                  x \in Asks3 /\ k.type = x /\ k.s = t
        BY <1>2 DEF Asked
      <3> QED BY <1>6, <1>7, <3>1 DEF Asked, Asks3
    <2>4. Flight(t)' = Flight(t)
      <3> DEFINE A == Abouts(t)
                 D == Dues(t)
      <3>1. a \notin A /\ c \notin D
        BY <1>5, <1>6 DEF A, D, Abouts, Dues, Asks3
      <3>2. /\ Count(msgs', A) = Count(msgs, A) + 0 /\ Count(engq, D) = Count(engq', D) + 0
            /\ Count(msgs, A) \in Nat /\ Count(engq', D) \in Nat
        BY <1>1, <1>4, <1>7, <3>1, CountAppend, CountTail, CountIs DEF Typed, EngineOK, c
      <3>3. Count(msgs', A) = Count(msgs, A) /\ Count(engq, D) = Count(engq', D)
        BY <3>2
      <3> QED BY <1>2, <3>3 DEF Flight, Abouts, Dues
    <2>5. Untouched(t)
      BY <1>2, <2>2, <2>3, <2>4 DEF Untouched
    <2>6. started \in Nat /\ started <= started
      BY <1>1 DEF Typed
    <2>7. Covered(t)'
      <3> SUFFICES ASSUME t \in DOMAIN distanceBased, ~Reopening
                   PROVE  \/ t \in engine.dist
                          \/ \E d \in In(engq') : d.op = "startDistance" /\ d.s = t
                          \/ \E x \in Ending : Awaits(t, x)'
        BY <1>2, <1>a DEF Covered, Ending
      <3>1. \/ t \in engine.dist
            \/ \E d \in In(engq) : d.op = "startDistance" /\ d.s = t
            \/ \E x \in Ending : Awaits(t, x)
        BY <1>1 DEF Covered
      <3>2. c.op # "startDistance"
        BY <1>5, OpenIs
      <3> QED BY <1>4, <2>2, <3>1, <3>2
    <2> QED BY <1>1, <1>2, <2>5, <2>6, <2>7, UntouchedSound
  <1> QED BY <1>4, <1>b, <1>8, <1>9, <1>10, <1>11 DEF IInv

\* The modem restarts: it is to be opened, and everything to be restarted, again.
LEMMA CrashKeeps ==
  ASSUME IInv, Crash
  PROVE  IInv'
  <1>1. /\ Typed /\ Opening /\ Restarts /\ Leaving /\ Serving
        /\ \A t \in Sessions : Sound(t) /\ Covered(t)
        /\ msgs' = msgs /\ engq' = Append(engq, OpenCall) /\ engine' = EngineOff
        /\ up' = FALSE /\ used.crashes < MaxCrashes
        /\ used' = [used EXCEPT !.crashes = @ + 1]
        /\ UNCHANGED adapter /\ live' = live /\ owed' = owed /\ started' = started
    BY DEF IInv, Crash
  <1>2. /\ clients' = clients /\ timeBased' = timeBased /\ distanceBased' = distanceBased
        /\ nHz' = nHz /\ spe' = spe /\ capsKnown' = capsKnown /\ pending' = pending
    BY <1>1 DEF adapter
  <1>3. MaxCrashes > 0
    BY <1>1, TrackingAssumption DEF Typed
  <1>4. /\ AnySeq(engq) /\ AnySeq(engq') /\ In(engq') = In(engq) \cup {OpenCall}
    BY <1>1, AppendAt DEF Typed, EngineOK
  <1>5. Reopening'
    BY <1>3, <1>4 DEF Reopening
  <1>6. EngineOK'
    <2>1. EngineOff \in Engines
      BY DEF EngineOff, Engines
    <2> QED BY <1>1, <1>4, <2>1 DEF Typed, EngineOK
  <1>7. Typed'
    <2>1. Now' = Now
      BY <1>1, <1>2 DEF Now
    <2>2. Now' \in Works
      BY <1>1, <2>1 DEF Typed
    <2>3. used' \in [updates : Nat, configs : Nat, crashes : Nat]
      BY <1>1 DEF Typed
    <2> QED BY <1>1, <1>2, <1>6, <2>2, <2>3 DEF Typed
  <1>8. Opening' /\ Restarts' /\ Leaving' /\ Serving'
    <2>1. Opening'
      BY <1>3 DEF Opening
    <2>2. Restarts'
      BY <1>1, <1>2, <1>4 DEF Restarts
    <2>3. Leaving'
      BY <1>1, <1>2 DEF Leaving
    <2> QED BY <1>5, <2>1, <2>2, <2>3 DEF Serving, ServesTable
  <1>9. ASSUME NEW t \in Sessions PROVE Sound(t)' /\ Covered(t)'
    <2>1. ASSUME NEW x PROVE (Awaits(t, x)' <=> Awaits(t, x)) /\ (Asked(t, x)' <=> Asked(t, x))
      <3>1. Awaits(t, x)' <=> \/ \E d \in In(engq') : d.s = t /\ d.then = x /\ x # "none"
                              \/ \E k \in In(msgs) : k.type = "answer" /\ k.s = t
                                                        /\ k.then = x
        BY <1>1 DEF Awaits
      <3>2. Asked(t, x)' <=> Asked(t, x)
        BY <1>1, <1>2 DEF Asked
      <3> QED BY <1>4, <3>1, <3>2, OpenIs DEF Awaits
    <2>2. Flight(t)' = Flight(t)
      <3>1. OpenCall \notin Dues(t)
        BY OpenIs DEF Dues
      <3>2. /\ Count(engq', Dues(t)) = Count(engq, Dues(t)) + 0
            /\ Count(engq, Dues(t)) \in Nat
        BY <1>1, <1>4, <3>1, CountAppend, CountIs
      <3>3. Count(engq', Dues(t)) = Count(engq, Dues(t))
        BY <3>2
      <3> QED BY <1>1, <1>2, <3>3 DEF Flight, Abouts, Dues
    <2>3. Untouched(t)
      BY <1>1, <1>2, <2>1, <2>2 DEF Untouched
    <2>4. started \in Nat /\ started <= started
      BY <1>1 DEF Typed
    <2>5. Covered(t)'
      BY <1>5 DEF Covered
    <2> QED BY <1>1, <2>3, <2>4, <2>5, UntouchedSound
  <1> QED BY <1>7, <1>8, <1>9 DEF IInv

-----------------------------------------------------------------------------
(* The invariant, and what follows from it.                                *)

\* The invariant holds at first.
LEMMA InitIInv ==
  ASSUME SentOnce, Init
  PROVE  IInv
  <1> DEFINE q == IF KnownAtInit THEN << >> ELSE <<OpenCall>>
  <1>1. /\ msgs = << >> /\ engq = q /\ clients = Clients /\ timeBased = << >>
        /\ distanceBased = << >> /\ nHz = FALSE /\ spe = FALSE /\ capsKnown = KnownAtInit
        /\ pending = << >> /\ engine = EngineOff /\ up = KnownAtInit /\ started = 0
        /\ live = Clients /\ owed = [s \in Sessions |-> 0]
        /\ used = [updates |-> 0, configs |-> 0, crashes |-> 0]
    BY DEF Init
  <1>2. KnownAtInit \in BOOLEAN
    BY TrackingAssumption
  <1>3. /\ AnySeq(<< >>) /\ In(<< >>) = {} /\ (\A A : Count(<< >>, A) = 0)
    BY NoneAt, CountOne
  <1>4. /\ AnySeq(q) /\ In(q) = IF KnownAtInit THEN {} ELSE {OpenCall}
        /\ \A A : Count(q, A) = IF ~KnownAtInit /\ OpenCall \in A THEN 1 ELSE 0
    BY <1>2, <1>3, CountOne
  <1>5. ~KnownAtInit => q # << >> /\ Head(q).op = "open"
    <2>1. ~KnownAtInit => q = <<OpenCall>>
      OBVIOUS
    <2>2. <<OpenCall>> # << >> /\ Head(<<OpenCall>>) = OpenCall
      OBVIOUS
    <2> QED BY <2>1, <2>2, OpenIs
  <1>6. EngineOK
    <2>1. EngineOff \in Engines
      BY DEF EngineOff, Engines
    <2> QED BY <1>1, <1>4, <2>1 DEF EngineOK
  <1> HIDE DEF q
  <1>7. Now \in Works /\ Now.calls = << >>
    <2>1. << >> \in Tables(TimeOpts) /\ << >> \in Tables(DistOpts)
      <3>1. << >> = [s \in DOMAIN << >> |-> << >>[s]] /\ DOMAIN << >> = {}
        OBVIOUS
      <3> QED BY <3>1, TableIs
    <2>2. << >> \in Seq(Orders) /\ [s \in Sessions |-> 0] \in [Sessions -> Int]
      OBVIOUS
    <2> QED BY <1>1, <2>1, <2>2 DEF Now, Works
  <1>8. Serving
    <2>1. q \o << >> = q
      BY <1>4, ConcatNone
    <2>2. FixOf(Now) = Commanding(q)
      BY <1>1, <1>7, <2>1 DEF FixOf
    <2>3. FixCalls(q) = {}
      <3>1. \A i \in 1..Len(q) : q[i] \in In(q)
        BY DEF In
      <3>2. \A i \in 1..Len(q) : q[i] = OpenCall
        BY <1>4, <3>1
      <3> QED BY <3>2, OpenIs DEF FixCalls
    <2>4. ~FixOf(Now).on
      BY <1>1, <2>2, <2>3 DEF Commanding, EngineOff
    <2>5. DOMAIN timeBased = {} /\ Now.spe = FALSE
      BY <1>1 DEF Now
    <2> QED BY <2>4, <2>5 DEF Serving, ServesTable, Suits
  <1>9. Typed
    BY <1>1, <1>2, <1>3, <1>6, <1>7 DEF Typed
  <1>10. Opening
    BY <1>1, <1>2, <1>3, <1>4, <1>5 DEF Opening
  <1>a. Restarts
    <2> SUFFICES ASSUME MaxCrashes > 0 PROVE capsKnown /\ pending = << >> /\ up /\ Heeded(msgs)
      BY DEF Restarts
    <2>1. KnownAtInit
      BY TrackingAssumption DEF SentOnce
    <2>2. Heeded(<< >>)
      BY NoneAt DEF Heeded
    <2> QED BY <1>1, <2>1, <2>2
  <1>11. Leaving
    BY <1>1, <1>3 DEF Leaving
  <1>12. ASSUME NEW t \in Sessions PROVE Sound(t) /\ Covered(t)
    <2>1. \A x : ~Awaits(t, x) /\ ~Asked(t, x)
      BY <1>1, <1>3, <1>4, OpenIs DEF Awaits, Asked
    <2>2. Flight(t) = 0
      <3>1. OpenCall \notin Dues(t)
        BY OpenIs DEF Dues
      <3>2. Count(engq, Dues(t)) = 0
        BY <1>1, <1>4, <3>1
      <3> QED BY <1>1, <1>3, <3>2 DEF Flight
    <2>3. owed[t] = 0 /\ DOMAIN timeBased = {} /\ DOMAIN distanceBased = {}
      BY <1>1
    <2>4. Balanced(t) /\ OneAtATime(t) /\ Unborn(t)
      BY <2>1, <2>2, <2>3 DEF Balanced, OneAtATime, Unborn
    <2>5. Removed(t) /\ TimeOnly(t) /\ Fits(t) /\ Orphaned(t)
      BY <2>1, <2>3 DEF Removed, TimeOnly, Fits, Orphaned
    <2>6. Covered(t)
      BY <2>3 DEF Covered
    <2> QED BY <2>4, <2>5, <2>6 DEF Sound
  <1> QED BY <1>a, <1>8, <1>9, <1>10, <1>11, <1>12 DEF IInv

\* Every step keeps the invariant.
LEMMA NextIInv ==
  ASSUME Settled, IInv, [Next]_vars
  PROVE  IInv'
  <1>1. CASE Calls
    BY <1>1, CommandsKeep, RemoveClientKeeps, ReconfigureKeeps DEF Calls
  <1>2. CASE Proc
    BY <1>2, ProcKeeps
  <1>3. CASE LocApi
    BY <1>3, ExecuteKeeps, OpenKeeps DEF LocApi
  <1>4. CASE Crash
    BY <1>4, CrashKeeps
  <1>5. CASE UNCHANGED vars
    <2>1. /\ UNCHANGED <<msgs, engq, adapter, engine, up, callers>>
          /\ \A t \in Sessions : Sound(t) /\ Covered(t)
      BY <1>5 DEF vars, IInv
    <2>2. /\ msgs' = msgs /\ engq' = engq /\ engine' = engine /\ up' = up
          /\ clients' = clients /\ timeBased' = timeBased /\ distanceBased' = distanceBased
          /\ nHz' = nHz /\ spe' = spe /\ capsKnown' = capsKnown /\ pending' = pending
          /\ live' = live /\ owed' = owed /\ started' = started /\ used' = used
      BY <2>1 DEF adapter, callers
    <2>3. owed' \in [Sessions -> Int]
      BY <2>2 DEF IInv, Typed, Works, Now
    <2>a. Reopening => Reopening'
      BY <2>2 DEF Reopening, Ups
    <2>4. Now' \in Works /\ EngineOK' /\ Serving'
      BY <2>1, <2>3, <2>a, NowStays DEF IInv
    <2>5. Typed' /\ Opening' /\ Restarts' /\ Leaving'
      BY <2>2, <2>4 DEF IInv, Typed, Opening, Restarts, Heeded, Refusal, Leaving, Ups
    <2>6. ASSUME NEW t \in Sessions PROVE Sound(t)' /\ Covered(t)'
      <3>1. Flight(t)' = Flight(t)
        BY <2>2 DEF Flight, Abouts, Dues
      <3>2. \A x : (Awaits(t, x)' <=> Awaits(t, x)) /\ (Asked(t, x)' <=> Asked(t, x))
        BY <2>2 DEF Awaits, Asked
      <3>3. Untouched(t)
        BY <2>2, <3>1, <3>2 DEF Untouched
      <3>4. started \in Nat /\ started <= started
        BY DEF IInv, Typed
      <3>5. Covered(t)'
        BY <2>1, <2>2, <2>a, <3>2, CoveredStill
      <3> QED BY <2>1, <2>2, <3>3, <3>4, <3>5, UntouchedSound
    <2> QED BY <2>4, <2>5, <2>6 DEF IInv
  <1> QED BY <1>1, <1>2, <1>3, <1>4, <1>5 DEF Next

\* The invariant holds as long as no command is stored to be sent again and the clients that do
\* not wait for their answers keep to time-based sessions: see ServedAgain.
THEOREM Inductive == SentOnce /\ Settled /\ Spec => []IInv
  <1> SUFFICES ASSUME SentOnce, Settled PROVE Spec => []IInv
    OBVIOUS
  <1>1. Init => IInv
    BY InitIInv
  <1>2. IInv /\ [Next]_vars => IInv'
    BY NextIInv
  <1> QED BY <1>1, <1>2, PTL DEF Spec

\* A modem that does not restart: no command is sent again, and it is never to be reopened.
LEMMA NoRestart ==
  ASSUME MaxCrashes = 0
  PROVE  SentOnce /\ ~Reopening
  BY TrackingAssumption DEF SentOnce, Reopening

\* EngineFollowsTable: the fixes the adapter has called for suit its table whatever the
\* clients do (startTimeBasedTrackingMultiplex, updateTrackingMultiplex,
\* stopTimeBasedTrackingMultiplex, suspendSessions, restartSessions).
THEOREM EngineFollows == MaxCrashes = 0 /\ Settled /\ Spec => []EngineFollowsTable
  <1> SUFFICES ASSUME MaxCrashes = 0, Settled PROVE Spec => []EngineFollowsTable
    OBVIOUS
  <1>1. IInv => EngineFollowsTable
    <2> SUFFICES ASSUME IInv PROVE EngineFollowsTable
      OBVIOUS
    <2>1. /\ Serving /\ EngineOK /\ Now \in Works
      BY DEF IInv, Typed
    <2>2. Now.time = timeBased /\ Now.nHz = nHz /\ Now.calls = << >>
      BY DEF Now
    <2>3. timeBased \in Tables(TimeOpts)
      BY <2>1, <2>2 DEF Works
    <2>4. FixOf(Now) = Commanded
      <3>1. engq \o << >> = engq
        BY <2>1, ConcatNone DEF EngineOK
      <3> QED BY <2>2, <3>1 DEF FixOf, Commanded
    <2>a. Suits(Now, timeBased)
      BY <2>1, NoRestart DEF Serving, ServesTable
    <2>5. DOMAIN timeBased = {} => ~Commanded.on
      BY <2>4, <2>a DEF Suits
    <2>6. ASSUME DOMAIN timeBased # {}
          PROVE  /\ Commanded.on /\ Commanded.interval <= SmallestInterval(timeBased).interval
                 /\ nHz => Commanded.interval = MinInterval
      <3>1. PICK s \in DOMAIN timeBased : SmallestInterval(timeBased) = timeBased[s]
        BY <2>3, <2>6, SmallestIs
      <3>2. Suited(Now, timeBased[s].interval)
        BY <2>a, <3>1 DEF Suits
      <3> QED BY <2>2, <2>4, <3>1, <3>2 DEF Suited
    <2> QED BY <2>5, <2>6 DEF EngineFollowsTable, Serves
  <1>2. SentOnce
    BY NoRestart
  <1> QED BY <1>1, <1>2, Inductive, PTL

\* NoOrphan: when everything has settled no session of a destroyed client is left
\* (removeClientCommand, stopClientSessions, eraseTrackingSession).
THEOREM NoneOrphaned == MaxCrashes = 0 /\ Settled /\ Spec => []NoOrphan
  <1> SUFFICES ASSUME MaxCrashes = 0, Settled PROVE Spec => []NoOrphan
    OBVIOUS
  <1>1. IInv => NoOrphan
    <2> SUFFICES ASSUME IInv, Idle, NEW s \in DOMAIN timeBased \cup DOMAIN distanceBased
                 PROVE  Owner[s] \in clients
      BY DEF NoOrphan
    <2>1. s \in Sessions
      <3>1. timeBased \in Tables(TimeOpts) /\ distanceBased \in Tables(DistOpts)
        BY DEF IInv, Typed, Works, Now
      <3> QED BY <3>1, TableIs
    <2>2. ~Awaits(s, "erase")
      BY NoneAt DEF Idle, Awaits
    <2> QED BY <2>1, <2>2 DEF IInv, Sound, Orphaned
  <1>2. SentOnce
    BY NoRestart
  <1> QED BY <1>1, <1>2, Inductive, PTL

\* SettledServes: when everything queued has been handled the modem serves the sessions of the
\* tables, whatever restarts of it came before (handleEngineDownEvent, LocSsrMsg,
\* MsgHandleEngineUpEvent, restartSessions).
THEOREM ServedAgain == SentOnce /\ Settled /\ Spec => []SettledServes
  <1> SUFFICES ASSUME SentOnce, Settled PROVE Spec => []SettledServes
    OBVIOUS
  <1>1. IInv => SettledServes
    <2> SUFFICES ASSUME IInv, Idle
                 PROVE  Serves(engine, timeBased) /\ DOMAIN distanceBased \subseteq engine.dist
      BY DEF SettledServes
    <2>1. /\ In(msgs) = {} /\ In(engq) = {} /\ Now \in Works
          /\ Now.time = timeBased /\ Now.dist = distanceBased /\ Now.nHz = nHz
          /\ Now.calls = << >>
      BY NoneAt DEF Idle, IInv, Typed, Now
    <2>2. ~Reopening
      BY <2>1 DEF Reopening
    <2>3. Suits(Now, timeBased) /\ \A s \in Sessions : Covered(s)
      BY <2>2 DEF IInv, Serving, ServesTable
    <2>4. FixOf(Now) = engine
      <3>1. engq \o << >> = << >> /\ FixCalls(<< >>) = {}
        BY NoneAt, ConcatNone DEF Idle, FixCalls
      <3> QED BY <2>1, <3>1 DEF FixOf, Commanding
    <2>5. timeBased \in Tables(TimeOpts) /\ distanceBased \in Tables(DistOpts)
      BY <2>1 DEF Works
    <2>6. ASSUME DOMAIN timeBased # {}
          PROVE  /\ engine.on /\ engine.interval <= SmallestInterval(timeBased).interval
                 /\ nHz => engine.interval = MinInterval
      <3>1. PICK s \in DOMAIN timeBased : SmallestInterval(timeBased) = timeBased[s]
        BY <2>5, <2>6, SmallestIs
      <3>2. Suited(Now, timeBased[s].interval)
        BY <2>3, <3>1 DEF Suits
      <3> QED BY <2>1, <2>4, <3>1, <3>2 DEF Suited
    <2>7. ASSUME NEW s \in DOMAIN distanceBased PROVE s \in engine.dist
      <3>1. s \in Sessions
        BY <2>5, TableIs
      <3>2. \A x : ~Awaits(s, x)
        BY <2>1 DEF Awaits
      <3> QED BY <2>1, <2>2, <2>3, <3>1, <3>2 DEF Covered
    <2> QED BY <2>6, <2>7 DEF Serves
  <1> QED BY <1>1, Inductive, PTL

\* OneKind: a session is never in both tables (startTrackingCommand,
\* updateTrackingOptionsCommand and their continuations).
THEOREM OneKindOnly == SentOnce /\ Settled /\ Spec => []OneKind
  <1> SUFFICES ASSUME SentOnce, Settled PROVE Spec => []OneKind
    OBVIOUS
  <1>1. IInv => OneKind
    <2> SUFFICES ASSUME IInv, NEW s \in DOMAIN timeBased, s \in DOMAIN distanceBased
                 PROVE  FALSE
      BY DEF OneKind
    <2>1. s \in Sessions
      <3>1. timeBased \in Tables(TimeOpts)
        BY DEF IInv, Typed, Works, Now
      <3> QED BY <3>1, TableIs
    <2> QED BY <2>1 DEF IInv, Sound, Fits
  <1> QED BY <1>1, Inductive, PTL

\* NeverAnsweredTwice: a client is never given more answers than it has asked for
\* (reportResponse and the LocApiResponse continuations).
THEOREM NoneAnsweredTwice == SentOnce /\ Settled /\ Spec => []NeverAnsweredTwice
  <1> SUFFICES ASSUME SentOnce, Settled PROVE Spec => []NeverAnsweredTwice
    OBVIOUS
  <1>1. IInv => NeverAnsweredTwice
    BY FlightIs DEF IInv, Sound, Balanced, NeverAnsweredTwice
  <1> QED BY <1>1, Inductive, PTL

\* AnswersBalance: when besides every start comes with its options, every command of a
\* client that stays is between the queues or answered, and answered once
\* (reportResponse and the LocApiResponse continuations).
THEOREM Balance == MaxCrashes = 0 /\ Settled /\ Filled /\ Spec => []AnswersBalance
  <1> SUFFICES ASSUME MaxCrashes = 0, Settled, Filled PROVE Spec => []AnswersBalance
    OBVIOUS
  <1>1. IInv => AnswersBalance
    BY FlightIs DEF IInv, Sound, Balanced, Complete, AnswersBalance
  <1>2. SentOnce
    BY NoRestart
  <1> QED BY <1>1, <1>2, Inductive, PTL
=============================================================================
