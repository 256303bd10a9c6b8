------------------------- MODULE Batching_proofs -------------------------
(***************************************************************************)
(* Proofs about Batching. The kinds of the messages; the bit of the full   *)
(* batch, which follows the sessions whatever is under way together; the   *)
(* matching of answers to requests, which rests on order alone; and the    *)
(* agreement of front end, adapter and modem about the sessions.           *)
(*                                                                         *)
(* A queue is described by the classes of its members (Of) that are in it  *)
(* (Some) and by which class is in front of which (Precedes, Followed):    *)
(* what an action does to a queue is to take its head and to append a row. *)
(***************************************************************************)
EXTENDS Batching, SequenceTheorems, FiniteSetTheorems, TLAPS

-----------------------------------------------------------------------------
(* Queues: what is in them, and in which order.                            *)

AnySeq(q) == \E S : q \in Seq(S)

In(q) == {q[i] : i \in 1..Len(q)}

\* The commands, the answers to them, and classes of messages and calls: those of a
\* type, of a session, of a mode, with a number; the answers that tell of a failure, for
\* any session or for one; the messages about a client, and the commands.
Asks == {"start", "stop", "get"}
Answers == {"started", "stopped", "got"}

Of(c, m) ==
    CASE c.of = "type"     -> m.type = c.kind
      [] c.of = "op"       -> m.op = c.kind
      [] c.of = "message"  -> m.type = c.kind /\ m.session = c.is
      [] c.of = "call"     -> m.op = c.kind /\ m.session = c.is
      [] c.of = "mode"     -> m.type = c.kind /\ m.mode = c.is
      [] c.of = "callMode" -> m.op = c.kind /\ m.mode = c.is
      [] c.of = "failed"   -> m.type = c.kind /\ ~m.ok
      [] c.of = "failedOf" -> m.type = c.kind /\ m.session = c.is /\ ~m.ok
      [] c.of = "client"   -> m.type = c.kind /\ m.client = c.is
      [] c.of = "asks"     -> m.type \in Asks
      [] c.of = "asked"    -> m.type \in Asks /\ m.n = c.is
      [] c.of = "called"   -> m.op \in Asks /\ m.n = c.is
      [] c.of = "answered" -> m.type \in Answers /\ m.n = c.is

Class(of, kind, is) == [of |-> of, kind |-> kind, is |-> is]

Some(q, c) == \E i \in 1..Len(q) : Of(c, q[i])

\* Those of class a are in front of those of class b; if a is b there is one.
Precedes(q, a, b) == \A i, j \in 1..Len(q) : Of(a, q[i]) /\ Of(b, q[j]) => i <= j

\* Behind each of class a there is one of class b.
Followed(q, a, b) ==
    \A i \in 1..Len(q) : Of(a, q[i]) => \E j \in 1..Len(q) : i < j /\ Of(b, q[j])

\* One more.
LEMMA AppendAt ==
  ASSUME NEW q, NEW m, AnySeq(q)
  PROVE  /\ AnySeq(Append(q, m)) /\ Len(q) \in Nat /\ Len(Append(q, m)) = Len(q) + 1
         /\ \A i \in 1..Len(q) : Append(q, m)[i] = q[i]
         /\ Append(q, m)[Len(q) + 1] = m
  <1>1. PICK S : q \in Seq(S)
    BY DEF AnySeq
  <1> DEFINE T == S \union {m}
  <1>2. q \in Seq(T) /\ m \in T
    BY <1>1, SeqMonotonic
  <1> HIDE DEF T
  <1>3. /\ Append(q, m) \in Seq(T) /\ Len(q) \in Nat /\ Len(Append(q, m)) = Len(q) + 1
        /\ \A i \in 1..Len(q) : Append(q, m)[i] = q[i]
        /\ Append(q, m)[Len(q) + 1] = m
    BY <1>2, AppendProperties, LenProperties
  <1> QED BY <1>3 DEF AnySeq

\* Without the first.
LEMMA TailAt ==
  ASSUME NEW q, AnySeq(q), q # << >>
  PROVE  /\ AnySeq(Tail(q)) /\ Len(q) \in Nat \ {0} /\ Len(Tail(q)) \in Nat
         /\ Len(q) = Len(Tail(q)) + 1 /\ Head(q) = q[1]
         /\ \A i \in 1..Len(Tail(q)) : Tail(q)[i] = q[i + 1]
  <1>1. PICK S : q \in Seq(S)
    BY DEF AnySeq
  <1>2. /\ Tail(q) \in Seq(S) /\ Len(q) \in Nat \ {0} /\ Len(Tail(q)) = Len(q) - 1
        /\ Head(q) = q[1]
        /\ \A i \in 1..Len(Tail(q)) : Tail(q)[i] = q[i + 1]
    BY <1>1, HeadTailProperties, LenProperties, EmptySeq
  <1> QED BY <1>2 DEF AnySeq

\* Two in a row.
LEMMA ConcatAt ==
  ASSUME NEW q, NEW r, AnySeq(q), AnySeq(r)
  PROVE  /\ AnySeq(q \o r) /\ Len(q) \in Nat /\ Len(r) \in Nat /\ Len(q \o r) = Len(q) + Len(r)
         /\ \A i \in 1..Len(q) : (q \o r)[i] = q[i]
         /\ \A i \in 1..Len(r) : (q \o r)[Len(q) + i] = r[i]
  <1>1. PICK S : q \in Seq(S)
    BY DEF AnySeq
  <1>2. PICK R : r \in Seq(R)
    BY DEF AnySeq
  <1> DEFINE T == S \union R
  <1>3. q \in Seq(T) /\ r \in Seq(T)
    BY <1>1, <1>2, SeqMonotonic
  <1> HIDE DEF T
  <1>4. /\ q \o r \in Seq(T) /\ Len(q \o r) = Len(q) + Len(r)
        /\ \A i \in 1..Len(q) : (q \o r)[i] = q[i]
        /\ \A i \in 1..Len(r) : (q \o r)[Len(q) + i] = r[i]
    BY <1>3, ConcatProperties
  <1>5. Len(q) \in Nat /\ Len(r) \in Nat
    BY <1>3, LenProperties
  <1> QED BY <1>4, <1>5 DEF AnySeq

\* A queue with one of class c: behind, in front, and in one of two.
LEMMA AppendSome ==
  ASSUME NEW q, NEW m, AnySeq(q)
  PROVE  /\ AnySeq(Append(q, m)) /\ Append(q, m) # << >>
         /\ In(Append(q, m)) = In(q) \cup {m}
         /\ \A c : Some(Append(q, m), c) <=> Some(q, c) \/ Of(c, m)
         /\ \A a, b : Precedes(q, a, b) /\ (Of(a, m) => ~Some(q, b)) =>
                          Precedes(Append(q, m), a, b)
         /\ \A a, b : Followed(q, a, b) /\ ~Of(a, m) => Followed(Append(q, m), a, b)
         /\ \A a, b : Of(b, m) /\ ~Of(a, m) => Followed(Append(q, m), a, b)
  <1> DEFINE r == Append(q, m)
  <1>1. /\ AnySeq(r) /\ Len(q) \in Nat /\ Len(r) = Len(q) + 1
        /\ \A i \in 1..Len(q) : r[i] = q[i]
        /\ r[Len(q) + 1] = m
    BY AppendAt
  <1> HIDE DEF r
  <1>2. 1..Len(r) = 1..Len(q) \cup {Len(q) + 1}
    BY <1>1
  <1>3. r # << >>
    BY <1>1
  <1>4. In(r) = In(q) \cup {m}
    BY <1>1, <1>2 DEF In
  <1>5. \A c : Some(r, c) <=> Some(q, c) \/ Of(c, m)
    BY <1>1, <1>2 DEF Some
  <1>6. ASSUME NEW a, NEW b, Precedes(q, a, b), Of(a, m) => ~Some(q, b)
        PROVE  Precedes(r, a, b)
    BY <1>1, <1>2, <1>6 DEF Precedes, Some
  <1>7. ASSUME NEW a, NEW b, Followed(q, a, b), ~Of(a, m) PROVE Followed(r, a, b)
    BY <1>1, <1>2, <1>7 DEF Followed
  <1>8. ASSUME NEW a, NEW b, Of(b, m), ~Of(a, m) PROVE Followed(r, a, b)
    BY <1>1, <1>2, <1>8 DEF Followed
  <1> QED BY <1>1, <1>3, <1>4, <1>5, <1>6, <1>7, <1>8 DEF r

\* What Tail leaves, of classes and their order.
LEMMA TailSome ==
  ASSUME NEW q, AnySeq(q), q # << >>
  PROVE  /\ AnySeq(Tail(q))
         /\ In(q) = In(Tail(q)) \cup {Head(q)}
         /\ \A c : Some(q, c) <=> Some(Tail(q), c) \/ Of(c, Head(q))
         /\ \A a, b : Precedes(q, a, b) => Precedes(Tail(q), a, b)
         /\ \A a, b : Precedes(q, a, b) /\ Of(b, Head(q)) => ~Some(Tail(q), a)
         /\ \A a, b : Followed(q, a, b) => Followed(Tail(q), a, b)
         /\ \A a, b : Followed(q, a, b) /\ Of(a, Head(q)) => Some(Tail(q), b)
  <1> DEFINE r == Tail(q)
  <1>1. /\ AnySeq(r) /\ Len(q) \in Nat \ {0} /\ Len(r) \in Nat
        /\ Len(q) = Len(r) + 1 /\ Head(q) = q[1]
        /\ \A i \in 1..Len(r) : r[i] = q[i + 1]
    BY TailAt
  <1> HIDE DEF r
  <1>2. /\ \A i \in 1..Len(r) : i + 1 \in 1..Len(q)
        /\ \A i \in 1..Len(q) : i # 1 => i - 1 \in 1..Len(r) /\ r[i - 1] = q[i]
        /\ 1 \in 1..Len(q)
    BY <1>1
  <1>3. In(q) = In(r) \cup {Head(q)}
    <2>1. ASSUME NEW x \in In(q) PROVE x \in In(r) \cup {Head(q)}
      BY <1>1, <1>2, <2>1 DEF In
    <2>2. ASSUME NEW x \in In(r) \cup {Head(q)} PROVE x \in In(q)
      BY <1>1, <1>2, <2>2 DEF In
    <2> QED BY <2>1, <2>2
  <1>4. \A c : Some(q, c) <=> Some(r, c) \/ Of(c, Head(q))
    BY <1>1, <1>2 DEF Some
  <1>5. ASSUME NEW a, NEW b, Precedes(q, a, b) PROVE Precedes(r, a, b)
    BY <1>1, <1>2, <1>5 DEF Precedes
  <1>6. ASSUME NEW a, NEW b, Precedes(q, a, b), Of(b, Head(q)) PROVE ~Some(r, a)
    BY <1>1, <1>2, <1>6 DEF Precedes, Some
  <1>7. ASSUME NEW a, NEW b, Followed(q, a, b) PROVE Followed(r, a, b)
    <2> SUFFICES ASSUME NEW i \in 1..Len(r), Of(a, r[i])
                 PROVE  \E j \in 1..Len(r) : i < j /\ Of(b, r[j])
      BY DEF Followed
    <2>1. PICK j \in 1..Len(q) : i + 1 < j /\ Of(b, q[j])
      BY <1>1, <1>2, <1>7 DEF Followed
    <2>2. j - 1 \in 1..Len(r) /\ r[j - 1] = q[j] /\ i < j - 1
      BY <1>1, <1>2, <2>1
    <2> QED BY <2>1, <2>2
  <1>8. ASSUME NEW a, NEW b, Followed(q, a, b), Of(a, Head(q)) PROVE Some(r, b)
    <2>1. PICK j \in 1..Len(q) : 1 < j /\ Of(b, q[j])
      BY <1>1, <1>2, <1>8 DEF Followed
    <2> QED BY <1>2, <2>1 DEF Some
  <1> QED BY <1>1, <1>3, <1>4, <1>5, <1>6, <1>7, <1>8 DEF r

\* What two queues hold together, of classes and their order.
LEMMA ConcatSome ==
  ASSUME NEW q, NEW p, AnySeq(q), AnySeq(p)
  PROVE  /\ AnySeq(q \o p)
         /\ In(q \o p) = In(q) \cup In(p)
         /\ \A c : Some(q \o p, c) <=> Some(q, c) \/ Some(p, c)
         /\ \A a, b : Precedes(q, a, b) /\ Precedes(p, a, b) /\ ~(Some(p, a) /\ Some(q, b)) =>
                          Precedes(q \o p, a, b)
         /\ \A a, b : Followed(q, a, b) /\ ~Some(p, a) => Followed(q \o p, a, b)
  <1> DEFINE r == q \o p
  <1>1. /\ AnySeq(r) /\ Len(q) \in Nat /\ Len(p) \in Nat /\ Len(r) = Len(q) + Len(p)
        /\ \A i \in 1..Len(q) : r[i] = q[i]
        /\ \A i \in 1..Len(p) : r[Len(q) + i] = p[i]
    BY ConcatAt
  <1> HIDE DEF r
  <1>2. /\ \A i \in 1..Len(q) : i \in 1..Len(r)
        /\ \A i \in 1..Len(p) : Len(q) + i \in 1..Len(r)
        /\ \A i \in 1..Len(r) : i \notin 1..Len(q) =>
               i - Len(q) \in 1..Len(p) /\ r[i] = p[i - Len(q)]
    <2>1. ASSUME NEW i \in 1..Len(r), i \notin 1..Len(q)
          PROVE  i - Len(q) \in 1..Len(p) /\ r[i] = p[i - Len(q)]
      <3>1. i - Len(q) \in 1..Len(p) /\ Len(q) + (i - Len(q)) = i
        BY <1>1, <2>1
      <3> QED BY <1>1, <3>1
    <2> QED BY <1>1, <2>1
  <1>3. In(r) = In(q) \cup In(p)
    <2>1. ASSUME NEW x \in In(r) PROVE x \in In(q) \cup In(p)
      BY <1>1, <1>2 DEF In
    <2>2. ASSUME NEW x \in In(q) \cup In(p) PROVE x \in In(r)
      BY <1>1, <1>2 DEF In
    <2> QED BY <2>1, <2>2
  <1>4. ASSUME NEW c PROVE Some(r, c) <=> Some(q, c) \/ Some(p, c)
    <2>1. ASSUME Some(r, c) PROVE Some(q, c) \/ Some(p, c)
      BY <1>1, <1>2, <2>1 DEF Some
    <2>2. ASSUME Some(q, c) \/ Some(p, c) PROVE Some(r, c)
      BY <1>1, <1>2, <2>2 DEF Some
    <2> QED BY <2>1, <2>2
  <1>5. ASSUME NEW a, NEW b, Precedes(q, a, b), Precedes(p, a, b), ~(Some(p, a) /\ Some(q, b))
        PROVE  Precedes(r, a, b)
    <2> SUFFICES ASSUME NEW i \in 1..Len(r), NEW j \in 1..Len(r), Of(a, r[i]), Of(b, r[j])
                 PROVE  i <= j
      BY DEF Precedes
    <2>1. CASE i \in 1..Len(q) /\ j \in 1..Len(q)
      BY <1>1, <1>5, <2>1 DEF Precedes
    <2>2. CASE i \in 1..Len(q) /\ j \notin 1..Len(q)
      BY <1>1, <2>2
    <2>3. CASE i \notin 1..Len(q) /\ j \in 1..Len(q)
      BY <1>1, <1>2, <1>5, <2>3 DEF Some
    <2>4. CASE i \notin 1..Len(q) /\ j \notin 1..Len(q)
      <3>1. i - Len(q) <= j - Len(q)
        BY <1>1, <1>2, <1>5, <2>4 DEF Precedes
      <3> QED BY <1>1, <3>1
    <2> QED BY <2>1, <2>2, <2>3, <2>4
  <1>6. ASSUME NEW a, NEW b, Followed(q, a, b), ~Some(p, a) PROVE Followed(r, a, b)
    <2> SUFFICES ASSUME NEW i \in 1..Len(r), Of(a, r[i])
                 PROVE  \E j \in 1..Len(r) : i < j /\ Of(b, r[j])
      BY DEF Followed
    <2>1. i \in 1..Len(q) /\ r[i] = q[i]
      BY <1>1, <1>2, <1>6 DEF Some
    <2>2. PICK j \in 1..Len(q) : i < j /\ Of(b, q[j])
      BY <2>1, <1>6 DEF Followed
    <2> QED BY <1>1, <1>2, <2>2
  <1> QED BY <1>1, <1>3, <1>4, <1>5, <1>6 DEF r

\* An empty queue, and one with one message.
LEMMA ShortSome ==
  /\ AnySeq(<< >>) /\ In(<< >>) = {}
  /\ \A c : ~Some(<< >>, c)
  /\ \A a, b : Precedes(<< >>, a, b) /\ Followed(<< >>, a, b)
  /\ \A m : /\ AnySeq(<<m>>) /\ In(<<m>>) = {m}
            /\ \A c : Some(<<m>>, c) <=> Of(c, m)
            /\ \A a, b : Precedes(<<m>>, a, b)
  <1>1. << >> \in Seq({}) /\ Len(<< >>) = 0
    OBVIOUS
  <1>2. AnySeq(<< >>)
    BY <1>1 DEF AnySeq
  <1>3. In(<< >>) = {} /\ \A c : ~Some(<< >>, c)
    BY <1>1 DEF In, Some
  <1>4. \A a, b : Precedes(<< >>, a, b) /\ Followed(<< >>, a, b)
    BY <1>1 DEF Precedes, Followed
  <1>5. ASSUME NEW m
        PROVE  /\ AnySeq(<<m>>) /\ In(<<m>>) = {m}
               /\ \A c : Some(<<m>>, c) <=> Of(c, m)
               /\ \A a, b : Precedes(<<m>>, a, b)
    <2>1. <<m>> \in Seq({m}) /\ Len(<<m>>) = 1 /\ <<m>>[1] = m /\ 1..1 = {1}
      OBVIOUS
    <2>2. AnySeq(<<m>>)
      BY <2>1 DEF AnySeq
    <2> QED BY <2>1, <2>2 DEF In, Some, Precedes
  <1> QED BY <1>2, <1>3, <1>4, <1>5

\* What is in a queue is somewhere in it.
LEMMA InSome ==
  ASSUME NEW q, NEW c
  PROVE  Some(q, c) <=> \E m \in In(q) : Of(c, m)
  BY DEF In, Some

\* A set put in a row.
LEMMA RowOfSet ==
  ASSUME NEW S, IsFiniteSet(S)
  PROVE  AnySeq(SetToSeq(S)) /\ In(SetToSeq(S)) = S
  <1> DEFINE n == Cardinality(S)
             g == SetToSeq(S)
  <1>1. n \in Nat /\ ExistsBijection(1..n, S)
    BY FS_CardinalityType
  <1>2. PICK f : f \in Bijection(1..n, S)
    BY <1>1 DEF ExistsBijection
  <1>3. f \in [1..n -> S] /\ IsInjective(f)
    BY <1>2 DEF Bijection, Injection
  <1>4. g \in [1..n -> S] /\ IsInjective(g)
    BY <1>3 DEF SetToSeq
  <1>5. g \in Seq(S) /\ Len(g) = n
    BY <1>1, <1>4, SeqDef, LenProperties
  <1>6. g \in Injection(1..n, S)
    BY <1>4 DEF Injection
  <1>7. Cardinality(1..n) = n
    BY <1>1, FS_Interval
  <1>8. g \in Surjection(1..n, S)
    BY <1>6, <1>7, FS_Injection
  <1>9. \A x \in S : \E i \in 1..n : g[i] = x
    BY <1>8 DEF Surjection
  <1>10. In(g) = S
    <2>1. \A i \in 1..n : g[i] \in S
      BY <1>4
    <2> HIDE DEF g, n
    <2> QED BY <1>5, <1>9, <2>1 DEF In
  <1> QED BY <1>5, <1>10 DEF AnySeq

\* What a function gives of a finite set is finite.
LEMMA FiniteImage ==
  ASSUME NEW S, IsFiniteSet(S), NEW f, DOMAIN f = S
  PROVE  IsFiniteSet({f[s] : s \in S})
  <1> DEFINE T == {f[s] : s \in S}
             h == [s \in S |-> f[s]]
  <1>1. h \in [S -> T] /\ \A t \in T : \E s \in S : h[s] = t
    OBVIOUS
  <1>2. h \in Surjection(S, T)
    BY <1>1 DEF Surjection
  <1> HIDE DEF h, T
  <1>3. IsFiniteSet(T)
    BY <1>2, FS_Surjection
  <1> QED BY <1>3 DEF T

-----------------------------------------------------------------------------
(* The kinds of things.                                                    *)

\* A client whose session is at most l and whose requests are for commands up to k.
Fronts(l, k) ==
    [state : {"started", "stopping", "stopped"}, session : 0..l,
     requests : Seq([op : Asks, n : 1..k]), owed : BOOLEAN, thread : BOOLEAN]

\* A message to the adapter, and a call for the modem, of sessions up to l and
\* commands up to k.
MsgOK(m, l, k) ==
    /\ m.type \in {"addClient", "removeClient"} \cup Asks \cup Answers => m.client \in Clients
    /\ m.type \in Asks \cup Answers => m.session \in 1..l /\ m.n \in 0..k
    /\ m.type \in {"start", "started"} => m.mode \in Modes

CallOK(e, l, k) ==
    /\ e.op \in {"open", "restart"} \cup Asks
    /\ e.op # "open" => e.client \in Clients /\ e.session \in 1..l /\ e.n \in 0..k
    /\ e.op \in {"start", "restart"} => e.mode \in Modes

QueuesOK ==
    /\ AnySeq(msgs) /\ AnySeq(engq) /\ AnySeq(pending)
    /\ \A m \in In(msgs) : MsgOK(m, used.sessions, Len(taken))
    /\ \A m \in In(pending) : m.type \in Asks /\ MsgOK(m, used.sessions, Len(taken))
    /\ \A e \in In(engq) : CallOK(e, used.sessions, Len(taken))

AdapterOK ==
    /\ {full, capsKnown, up} \subseteq BOOLEAN
    /\ known \subseteq Clients
    /\ sessions \in [DOMAIN sessions -> [client : Clients, mode : Modes]]
    /\ DOMAIN sessions \subseteq 1..used.sessions
    /\ modem \in [DOMAIN modem -> Modes]
    /\ DOMAIN modem \subseteq 1..used.sessions

FrontOK ==
    /\ used \in [sessions : Nat, faults : Nat, full : Nat]
    /\ api \in Clients
    /\ taken \in Seq(0..Len(taken))
    /\ front \in [Clients -> Fronts(used.sessions, Len(taken))]

TypeInv == QueuesOK /\ AdapterOK /\ FrontOK

\* What is of a kind stays so when there are more sessions and commands.
LEMMA MoreOK ==
  ASSUME NEW l \in Nat, NEW k \in Nat, NEW l1 \in Nat, NEW k1 \in Nat, l <= l1, k <= k1
  PROVE  /\ Fronts(l, k) \subseteq Fronts(l1, k1)
         /\ \A m : MsgOK(m, l, k) => MsgOK(m, l1, k1)
         /\ \A e : CallOK(e, l, k) => CallOK(e, l1, k1)
  <1>1. [op : Asks, n : 1..k] \subseteq [op : Asks, n : 1..k1] /\ 0..l \subseteq 0..l1
        /\ 1..l \subseteq 1..l1 /\ 0..k \subseteq 0..k1
    OBVIOUS
  <1>2. Seq([op : Asks, n : 1..k]) \subseteq Seq([op : Asks, n : 1..k1])
    BY <1>1, SeqMonotonic
  <1> QED BY <1>1, <1>2 DEF Fronts, MsgOK, CallOK

\* The messages of some requests: so many, behind those there are.
LEMMA AskRow ==
  ASSUME NEW c, NEW ops, NEW mode, AnySeq(ops), AnySeq(taken), Ask(c, ops, mode)
  PROVE  \E row :
           /\ AnySeq(row) /\ msgs' = msgs \o row
           /\ Len(row) = Len(ops)
           /\ \A i \in 1..Len(ops) :
                row[i] = [type |-> ops[i], client |-> c, session |-> front'[c].session,
                          n |-> Len(taken) + i, mode |-> mode]
           /\ Len(taken) \in Nat /\ Len(taken') = Len(taken) + Len(ops)
           /\ \A i \in 1..Len(taken) : taken'[i] = taken[i]
           /\ \A i \in 1..Len(ops) : taken'[Len(taken) + i] = 0
  <1> DEFINE row == [i \in 1..Len(ops) |->
                       [type |-> ops[i], client |-> c, session |-> front'[c].session,
                        n |-> Len(taken) + i, mode |-> mode]]
             zeros == [i \in 1..Len(ops) |-> 0]
             M == {row[i] : i \in 1..Len(ops)}
  <1>1. Len(ops) \in Nat /\ DOMAIN ops = 1..Len(ops)
    BY LenProperties DEF AnySeq
  <1>2. msgs' = msgs \o row /\ taken' = taken \o zeros
    BY <1>1 DEF Ask
  <1>3. row \in [1..Len(ops) -> M] /\ zeros \in [1..Len(ops) -> Nat]
    OBVIOUS
  <1>4. row \in Seq(M) /\ zeros \in Seq(Nat) /\ Len(row) = Len(ops) /\ Len(zeros) = Len(ops)
    BY <1>1, <1>3, SeqDef, LenProperties
  <1>5. AnySeq(row) /\ AnySeq(zeros)
    BY <1>4 DEF AnySeq
  <1>6. /\ \A i \in 1..Len(ops) :
             row[i] = [type |-> ops[i], client |-> c, session |-> front'[c].session,
                       n |-> Len(taken) + i, mode |-> mode]
        /\ \A i \in 1..Len(ops) : zeros[i] = 0
    OBVIOUS
  <1> HIDE DEF row, zeros, M
  <1>7. /\ Len(taken) \in Nat /\ Len(taken \o zeros) = Len(taken) + Len(zeros)
        /\ \A i \in 1..Len(taken) : (taken \o zeros)[i] = taken[i]
        /\ \A i \in 1..Len(zeros) : (taken \o zeros)[Len(taken) + i] = zeros[i]
    BY <1>5, ConcatAt
  <1> QED BY <1>2, <1>4, <1>5, <1>6, <1>7

\* The requests pushed for some commands.
LEMMA RequestsKind ==
  ASSUME NEW ops, ops \in Seq(Asks), Len(taken) \in Nat
  PROVE  /\ Requests(ops) \in Seq([op : Asks, n : 1..(Len(taken) + Len(ops))])
         /\ Len(Requests(ops)) = Len(ops)
         /\ \A i \in 1..Len(ops) : Requests(ops)[i] = [op |-> ops[i], n |-> Len(taken) + i]
  <1> DEFINE R == [op : Asks, n : 1..(Len(taken) + Len(ops))]
             row == [i \in 1..Len(ops) |-> [op |-> ops[i], n |-> Len(taken) + i]]
  <1>1. Len(ops) \in Nat /\ DOMAIN ops = 1..Len(ops) /\ \A i \in 1..Len(ops) : ops[i] \in Asks
    BY LenProperties, ElementOfSeq
  <1>2. Requests(ops) = row
    BY <1>1 DEF Requests
  <1>3. \A i \in 1..Len(ops) :
           /\ Len(taken) + i \in 1..(Len(taken) + Len(ops))
           /\ row[i] = [op |-> ops[i], n |-> Len(taken) + i]
    BY <1>1
  <1>4. row \in [1..Len(ops) -> R]
    BY <1>1, <1>3
  <1> HIDE DEF row, R
  <1>5. row \in Seq(R) /\ Len(row) = Len(ops)
    BY <1>1, <1>4, SeqDef, LenProperties
  <1> QED BY <1>2, <1>3, <1>5 DEF R

\* A message is taken from the queue, and a call.
LEMMA ReceiveOK ==
  ASSUME QueuesOK, NEW type, Receive(type)
  PROVE  /\ msgs # << >> /\ msgs' = Tail(msgs) /\ Head(msgs).type = type /\ AnySeq(msgs')
         /\ Head(msgs) \in In(msgs) /\ In(msgs') \subseteq In(msgs)
         /\ MsgOK(Head(msgs), used.sessions, Len(taken))
         /\ \A m \in In(msgs') : MsgOK(m, used.sessions, Len(taken))
  <1>1. msgs # << >> /\ msgs' = Tail(msgs) /\ Head(msgs).type = type
    BY DEF Receive
  <1>2. AnySeq(Tail(msgs)) /\ In(msgs) = In(Tail(msgs)) \cup {Head(msgs)}
    BY <1>1, TailSome DEF QueuesOK
  <1> QED BY <1>1, <1>2 DEF QueuesOK

\* The messages of some requests are of their kinds.
LEMMA AskOK ==
  ASSUME TypeInv, NEW c \in Clients, NEW ops \in Seq(Asks), NEW mode, Ask(c, ops, mode),
         used' \in [sessions : Nat, faults : Nat, full : Nat],
         used.sessions <= used'.sessions,
         ops = << >> \/ front'[c].session \in 1..used'.sessions,
         (\E i \in 1..Len(ops) : ops[i] = "start") => mode \in Modes
  PROVE  /\ AnySeq(msgs') /\ \A m \in In(msgs') : MsgOK(m, used'.sessions, Len(taken'))
         /\ taken' \in Seq(0..Len(taken'))
         /\ Len(taken) \in Nat /\ Len(ops) \in Nat /\ Len(taken') = Len(taken) + Len(ops)
  <1>1. AnySeq(ops) /\ AnySeq(taken)
    BY DEF AnySeq, TypeInv, FrontOK
  <1>2. PICK row :
          /\ AnySeq(row) /\ msgs' = msgs \o row
          /\ Len(row) = Len(ops)
          /\ \A i \in 1..Len(ops) :
               row[i] = [type |-> ops[i], client |-> c, session |-> front'[c].session,
                         n |-> Len(taken) + i, mode |-> mode]
          /\ Len(taken) \in Nat /\ Len(taken') = Len(taken) + Len(ops)
          /\ \A i \in 1..Len(taken) : taken'[i] = taken[i]
          /\ \A i \in 1..Len(ops) : taken'[Len(taken) + i] = 0
    BY <1>1, AskRow
  <1>3. AnySeq(msgs') /\ In(msgs') = In(msgs) \cup In(row)
    BY <1>2, ConcatSome DEF TypeInv, QueuesOK
  <1>4. Len(ops) \in Nat /\ \A i \in 1..Len(ops) : ops[i] \in Asks
    BY LenProperties, ElementOfSeq
  <1>5. ASSUME NEW m \in In(row) PROVE MsgOK(m, used'.sessions, Len(taken'))
    <2>1. PICK i \in 1..Len(ops) : m = row[i]
      BY <1>2, <1>5 DEF In
    <2>2. m = [type |-> ops[i], client |-> c, session |-> front'[c].session,
               n |-> Len(taken) + i, mode |-> mode]
      BY <1>2, <2>1
    <2>3. ops # << >>
      BY <2>1
    <2>4. m.session \in 1..used'.sessions
      BY <2>2, <2>3
    <2>5. m.n \in 0..Len(taken') /\ m.client \in Clients
      BY <1>2, <1>4, <2>2
    <2>6. m.type = "start" => m.mode \in Modes
      BY <2>2
    <2>7. m.type \in Asks
      BY <1>4, <2>2
    <2> QED BY <2>4, <2>5, <2>6, <2>7 DEF MsgOK, Asks
  <1>6. \A m \in In(msgs) : MsgOK(m, used'.sessions, Len(taken'))
    <2>1. used.sessions \in Nat /\ used'.sessions \in Nat
          /\ Len(taken') \in Nat /\ Len(taken) <= Len(taken')
      BY <1>2, <1>4 DEF TypeInv, FrontOK
    <2>2. \A m : MsgOK(m, used.sessions, Len(taken)) =>
                     MsgOK(m, used'.sessions, Len(taken'))
      BY <1>2, <2>1, MoreOK
    <2> QED BY <2>2 DEF TypeInv, QueuesOK
  <1>7. taken' \in Seq(0..Len(taken'))
    <2>1. taken' = taken \o [i \in DOMAIN ops |-> 0]
      BY DEF Ask
    <2>2. DOMAIN ops = 1..Len(ops)
      BY LenProperties
    <2>3. [i \in DOMAIN ops |-> 0] \in Seq(0..Len(taken'))
      <3> DEFINE z == [i \in DOMAIN ops |-> 0]
      <3>1. z \in [1..Len(ops) -> 0..Len(taken')]
        BY <1>2, <1>4, <2>2
      <3> QED BY <1>4, <3>1, SeqDef
    <2>4. 0..Len(taken) \subseteq 0..Len(taken')
      BY <1>2, <1>4
    <2>5. taken \in Seq(0..Len(taken'))
      BY <2>4, SeqMonotonic DEF TypeInv, FrontOK
    <2> QED BY <2>1, <2>3, <2>5, ConcatProperties
  <1> QED BY <1>2, <1>3, <1>4, <1>5, <1>6, <1>7

\* A client of which a part has changed.
LEMMA FrontSet ==
  ASSUME NEW l, NEW k, NEW f \in Fronts(l, k)
  PROVE  /\ \A x \in {"started", "stopping", "stopped"} :
               /\ [f EXCEPT !.state = x] \in Fronts(l, k)
               /\ [f EXCEPT !.state = x].session = f.session
               /\ [f EXCEPT !.state = x].requests = f.requests
         /\ \A b \in BOOLEAN :
               /\ [f EXCEPT !.owed = b] \in Fronts(l, k)
               /\ [f EXCEPT !.owed = b].session = f.session
               /\ [f EXCEPT !.owed = b].requests = f.requests
         /\ \A b \in BOOLEAN :
               /\ [f EXCEPT !.thread = b] \in Fronts(l, k)
               /\ [f EXCEPT !.thread = b].session = f.session
               /\ [f EXCEPT !.thread = b].requests = f.requests
         /\ f.session \in 0..l /\ f.requests \in Seq([op : Asks, n : 1..k])
         /\ f.thread \in BOOLEAN
  <1> DEFINE R == Seq([op : Asks, n : 1..k])
             S == 0..l
  <1>1. Fronts(l, k) = [state : {"started", "stopping", "stopped"}, session : S,
                        requests : R, owed : BOOLEAN, thread : BOOLEAN]
    BY DEF Fronts
  <1> HIDE DEF R, S
  <1>2. ASSUME NEW x \in {"started", "stopping", "stopped"}
        PROVE  /\ [f EXCEPT !.state = x] \in Fronts(l, k)
               /\ [f EXCEPT !.state = x].session = f.session
               /\ [f EXCEPT !.state = x].requests = f.requests
    BY <1>1
  <1>3. ASSUME NEW b \in BOOLEAN
        PROVE  /\ [f EXCEPT !.owed = b] \in Fronts(l, k)
               /\ [f EXCEPT !.owed = b].session = f.session
               /\ [f EXCEPT !.owed = b].requests = f.requests
    BY <1>1
  <1>4. ASSUME NEW b \in BOOLEAN
        PROVE  /\ [f EXCEPT !.thread = b] \in Fronts(l, k)
               /\ [f EXCEPT !.thread = b].session = f.session
               /\ [f EXCEPT !.thread = b].requests = f.requests
    BY <1>1
  <1>5. f.session \in S /\ f.requests \in R /\ f.thread \in BOOLEAN
    BY <1>1
  <1> QED BY <1>2, <1>3, <1>4, <1>5 DEF R, S

\* A client with another session.
LEMMA FrontSession ==
  ASSUME NEW l, NEW k, NEW f \in Fronts(l, k), NEW s \in 0..l
  PROVE  /\ [f EXCEPT !.session = s] \in Fronts(l, k)
         /\ [f EXCEPT !.session = s].session = s
         /\ [f EXCEPT !.session = s].requests = f.requests
  <1> DEFINE R == Seq([op : Asks, n : 1..k])
             S == 0..l
  <1>1. Fronts(l, k) = [state : {"started", "stopping", "stopped"}, session : S,
                        requests : R, owed : BOOLEAN, thread : BOOLEAN]
    BY DEF Fronts
  <1>2. s \in S
    OBVIOUS
  <1> HIDE DEF R, S
  <1> QED BY <1>1, <1>2

\* A client with other requests.
LEMMA FrontRequests ==
  ASSUME NEW l, NEW k, NEW f \in Fronts(l, k), NEW r \in Seq([op : Asks, n : 1..k])
  PROVE  /\ [f EXCEPT !.requests = r] \in Fronts(l, k)
         /\ [f EXCEPT !.requests = r].session = f.session
         /\ [f EXCEPT !.requests = r].requests = r
  <1> DEFINE R == Seq([op : Asks, n : 1..k])
             S == 0..l
  <1>1. Fronts(l, k) = [state : {"started", "stopping", "stopped"}, session : S,
                        requests : R, owed : BOOLEAN, thread : BOOLEAN]
    BY DEF Fronts
  <1>2. r \in R
    OBVIOUS
  <1> HIDE DEF R, S
  <1> QED BY <1>1, <1>2

\* A report leaves a client a client.
LEMMA ReportKind ==
  ASSUME NEW l, NEW k, NEW f \in Fronts(l, k)
  PROVE  /\ OnBatchingCb(f) \in Fronts(l, k) /\ OnBatchingCb(f).session = f.session
         /\ OnBatchingCb(f).requests = f.requests
  BY DEF OnBatchingCb, Fronts

\* Some requests of client c are pushed and go to the adapter.
LEMMA PushOK ==
  ASSUME TypeInv, NEW c \in Clients, NEW ops \in Seq(Asks), NEW mode, Ask(c, ops, mode),
         used' \in [sessions : Nat, faults : Nat, full : Nat],
         used.sessions <= used'.sessions,
         NEW f \in Fronts(used'.sessions, Len(taken)),
         front' = [front EXCEPT ![c] = [f EXCEPT !.requests = @ \o Requests(ops)]],
         ops = << >> \/ f.session # 0,
         (\E i \in 1..Len(ops) : ops[i] = "start") => mode \in Modes,
         UNCHANGED <<engq, adapter, modem, up>>, api' \in Clients
  PROVE  TypeInv'
  <1> DEFINE g == [f EXCEPT !.requests = @ \o Requests(ops)]
  <1>0. front \in [Clients -> Fronts(used.sessions, Len(taken))] /\ used.sessions \in Nat
        /\ used'.sessions \in Nat
    BY DEF TypeInv, FrontOK
  <1>1. f.session \in 0..used'.sessions /\ f.requests \in Seq([op : Asks, n : 1..Len(taken)])
    BY DEF Fronts
  <1>2. front'[c] = g /\ g.session = f.session
    BY <1>0, <1>1 DEF Fronts
  <1>3. ops = << >> \/ front'[c].session \in 1..used'.sessions
    BY <1>0, <1>1, <1>2
  <1>4. /\ AnySeq(msgs') /\ \A m \in In(msgs') : MsgOK(m, used'.sessions, Len(taken'))
        /\ taken' \in Seq(0..Len(taken'))
        /\ Len(taken) \in Nat /\ Len(ops) \in Nat /\ Len(taken') = Len(taken) + Len(ops)
    BY <1>3, AskOK
  <1>5. /\ Fronts(used.sessions, Len(taken)) \subseteq Fronts(used'.sessions, Len(taken'))
        /\ \A m : MsgOK(m, used.sessions, Len(taken)) => MsgOK(m, used'.sessions, Len(taken'))
        /\ \A e : CallOK(e, used.sessions, Len(taken)) => CallOK(e, used'.sessions, Len(taken'))
    <2>1. PICK l \in Nat, k \in Nat : l = used.sessions /\ k = Len(taken)
      BY <1>0, <1>4
    <2>2. PICK l1 \in Nat, k1 \in Nat : l1 = used'.sessions /\ k1 = Len(taken')
      BY <1>0, <1>4
    <2>3. l <= l1 /\ k <= k1
      BY <1>4, <2>1, <2>2
    <2>4. /\ Fronts(l, k) \subseteq Fronts(l1, k1)
          /\ \A m : MsgOK(m, l, k) => MsgOK(m, l1, k1)
          /\ \A e : CallOK(e, l, k) => CallOK(e, l1, k1)
      BY <2>3, MoreOK
    <2> QED BY <2>1, <2>2, <2>4
  <1>6. QueuesOK'
    BY <1>4, <1>5 DEF TypeInv, QueuesOK, adapter
  <1>7. AdapterOK'
    BY <1>0 DEF TypeInv, AdapterOK, adapter
  <1>8. g \in Fronts(used'.sessions, Len(taken'))
    <2>1. Requests(ops) \in Seq([op : Asks, n : 1..Len(taken')])
      BY <1>4, RequestsKind
    <2>2. 1..Len(taken) \subseteq 1..Len(taken')
      BY <1>4
    <2>3. [op : Asks, n : 1..Len(taken)] \subseteq [op : Asks, n : 1..Len(taken')]
      BY <2>2
    <2>4. f.requests \in Seq([op : Asks, n : 1..Len(taken')])
      BY <1>1, <2>3, SeqMonotonic
    <2>5. f.requests \o Requests(ops) \in Seq([op : Asks, n : 1..Len(taken')])
      BY <2>1, <2>4, ConcatProperties
    <2> QED BY <2>5 DEF Fronts
  <1>9. front' \in [Clients -> Fronts(used'.sessions, Len(taken'))]
    <2> HIDE DEF g
    <2>1. front' = [front EXCEPT ![c] = g]
      BY DEF g
    <2> QED BY <1>0, <1>5, <1>8, <2>1
  <1> QED BY <1>4, <1>6, <1>7, <1>9 DEF TypeInv, FrontOK

\* The kinds: the initial state, and the calls of the framework.
LEMMA TypeInit == Init => TypeInv
  <1> SUFFICES ASSUME Init PROVE TypeInv
    OBVIOUS
  <1> USE DEF Init
  <1>1. MaxClients \in Nat \ {0}
    BY BatchingAssumption
  <1>2. QueuesOK
    <2>1. MsgOK([type |-> "addClient", client |-> 1], used.sessions, Len(taken))
      BY <1>1 DEF MsgOK, Clients, Asks, Answers
    <2>2. CallOK([op |-> "open"], used.sessions, Len(taken))
      BY DEF CallOK
    <2> QED BY <2>1, <2>2, ShortSome DEF QueuesOK
  <1>3. AdapterOK
    <2>1. sessions = << >> /\ DOMAIN sessions = {} /\ modem = << >> /\ DOMAIN modem = {}
      OBVIOUS
    <2>2. sessions \in [DOMAIN sessions -> [client : Clients, mode : Modes]]
          /\ modem \in [DOMAIN modem -> Modes]
      BY <2>1
    <2> QED BY <2>1, <2>2 DEF AdapterOK
  <1>4. FrontOK
    <2>1. taken \in Seq(0..Len(taken)) /\ Len(taken) = 0
      OBVIOUS
    <2>2. NewClient \in Fronts(0, 0)
      BY DEF NewClient, Fronts
    <2> QED BY <1>1, <2>1, <2>2 DEF FrontOK, Clients
  <1> QED BY <1>2, <1>3, <1>4 DEF TypeInv

\* The kinds are kept by the framework's calls,
LEMMA TypeFramework ==
  ASSUME TypeInv, Framework PROVE TypeInv'
  <1> DEFINE F == front[api]
  <1>0. /\ used \in [sessions : Nat, faults : Nat, full : Nat] /\ api \in Clients
        /\ front \in [Clients -> Fronts(used.sessions, Len(taken))]
        /\ F \in Fronts(used.sessions, Len(taken)) /\ used.sessions \in Nat
        /\ Len(taken) \in Nat
    BY LenProperties DEF TypeInv, FrontOK
  <1>1. CASE Initialize
    <2>1. api' \in Clients /\ api \in Clients /\ api + 1 \in Clients
      BY <1>0, <1>1, BatchingAssumption DEF Initialize, Clients
    <2>2. AnySeq(msgs') /\ In(msgs') = In(msgs) \cup {[type |-> "removeClient", client |-> api],
                                                       [type |-> "addClient", client |-> api + 1]}
      <3> DEFINE r == [type |-> "removeClient", client |-> api]
                 a == [type |-> "addClient", client |-> api + 1]
      <3>1. msgs' = msgs \o <<r, a>> /\ <<r, a>> = Append(<<r>>, a)
        BY <1>1 DEF Initialize
      <3>2. AnySeq(<<r>>) /\ In(<<r>>) = {r}
        BY ShortSome
      <3>3. AnySeq(<<r, a>>) /\ In(<<r, a>>) = {r, a}
        BY <3>1, <3>2, AppendSome
      <3> HIDE DEF r, a
      <3> DEFINE row == <<r, a>>
      <3>4. AnySeq(msgs) /\ AnySeq(row) /\ msgs' = msgs \o row /\ In(row) = {r, a}
        BY <3>1, <3>3 DEF TypeInv, QueuesOK
      <3> HIDE DEF row
      <3>5. AnySeq(msgs') /\ In(msgs') = In(msgs) \cup {r, a}
        BY <3>4, ConcatSome
      <3> QED BY <3>5 DEF r, a
    <2>3. \A m \in In(msgs') : MsgOK(m, used.sessions, Len(taken))
      BY <2>1, <2>2 DEF TypeInv, QueuesOK, MsgOK, Asks, Answers
    <2>4. QueuesOK'
      BY <1>1, <2>2, <2>3 DEF TypeInv, QueuesOK, Initialize, adapter
    <2>5. AdapterOK'
      BY <1>1 DEF TypeInv, AdapterOK, Initialize, adapter
    <2>6. FrontOK'
      <3>1. [F EXCEPT !.requests = << >>] \in Fronts(used.sessions, Len(taken))
        <4>1. << >> \in Seq([op : Asks, n : 1..Len(taken)])
          OBVIOUS
        <4> HIDE DEF F
        <4> QED BY <1>0, <4>1, FrontRequests
      <3>2. front' = [front EXCEPT ![api] = [F EXCEPT !.requests = << >>]]
        BY <1>0, <1>1 DEF Initialize
      <3>3. front' \in [Clients -> Fronts(used.sessions, Len(taken))]
        BY <1>0, <3>1, <3>2
      <3> QED BY <1>1, <2>1, <3>3 DEF TypeInv, FrontOK, Initialize
    <2> QED BY <2>4, <2>5, <2>6 DEF TypeInv
  <1>2. ASSUME NEW mode \in Modes, Start(mode) PROVE TypeInv'
    <2>1. CASE StartNew(mode)
      <3> DEFINE s == used.sessions + 1
                 f == [F EXCEPT !.state = "started", !.session = s]
                 ops == <<"start">>
      <3>1. /\ used' = [used EXCEPT !.sessions = s]
            /\ used' \in [sessions : Nat, faults : Nat, full : Nat]
            /\ used'.sessions = s /\ used.sessions <= used'.sessions
        BY <1>0, <2>1 DEF StartNew
      <3>2. F \in Fronts(s, Len(taken))
        BY <1>0, MoreOK
      <3>3. f \in Fronts(s, Len(taken)) /\ f.session # 0
        <4>1. s \in 0..s /\ s # 0
          BY <1>0
        <4>2. PICK h : h = [F EXCEPT !.state = "started"]
          OBVIOUS
        <4>3. h \in Fronts(s, Len(taken))
          BY <3>2, <4>2, FrontSet
        <4>4. /\ [h EXCEPT !.session = s] \in Fronts(s, Len(taken))
              /\ [h EXCEPT !.session = s].session = s
          BY <4>1, <4>3, FrontSession
        <4> QED BY <4>1, <4>2, <4>4
      <3>4. front' = [front EXCEPT ![api] = [f EXCEPT !.requests = @ \o Requests(ops)]]
        BY <1>0, <2>1 DEF StartNew, Fronts
      <3>5. Ask(api, ops, mode) /\ ops \in Seq(Asks)
        BY <2>1 DEF StartNew, Asks
      <3>6. UNCHANGED <<engq, adapter, modem, up>> /\ api' \in Clients
        BY <1>0, <1>2 DEF Start
      <3> HIDE DEF f, ops, s
      <3> QED BY <1>0, <3>1, <3>3, <3>4, <3>5, <3>6, PushOK
    <2>2. CASE StartAgain
      <3>1. front' = [front EXCEPT ![api] = [F EXCEPT !.state = "started"]]
        BY <2>2 DEF StartAgain
      <3>2. [F EXCEPT !.state = "started"] \in Fronts(used.sessions, Len(taken))
        BY <1>0 DEF Fronts
      <3>3. front' \in [Clients -> Fronts(used.sessions, Len(taken))]
        BY <1>0, <3>1, <3>2
      <3> QED BY <1>2, <2>2, <3>3
           DEF Start, StartAgain, TypeInv, QueuesOK, AdapterOK, FrontOK, adapter
    <2> QED BY <1>2, <2>1, <2>2 DEF Start
  <1>3. CASE Stop
    <2> DEFINE ops == IF F.session = 0 THEN << >> ELSE <<"get", "stop">>
               f == [F EXCEPT !.state = "stopping"]
    <2>1. f \in Fronts(used.sessions, Len(taken)) /\ f.session = F.session
      BY <1>0 DEF Fronts
    <2>2. front' = [front EXCEPT ![api] = [f EXCEPT !.requests = @ \o Requests(ops)]]
      BY <1>0, <1>3 DEF Stop, Fronts
    <2>3. Ask(api, ops, "none") /\ ops \in Seq(Asks) /\ (ops = << >> \/ f.session # 0)
      <3>1. Ask(api, ops, "none")
        BY <1>3 DEF Stop
      <3>2. ops \in Seq(Asks)
        <4>1. << >> \in Seq(Asks) /\ <<"get", "stop">> \in Seq(Asks)
          BY DEF Asks
        <4> QED BY <4>1
      <3>3. F.session = 0 => ops = << >>
        OBVIOUS
      <3> QED BY <2>1, <3>1, <3>2, <3>3
    <2>4. UNCHANGED <<engq, adapter, modem, up>> /\ api' \in Clients /\ used' = used
      BY <1>0, <1>3 DEF Stop
    <2>5. \A i \in 1..Len(ops) : ops[i] # "start"
      OBVIOUS
    <2> HIDE DEF f, ops
    <2>6. f \in Fronts(used'.sessions, Len(taken)) /\ used.sessions <= used'.sessions
          /\ used' \in [sessions : Nat, faults : Nat, full : Nat]
      BY <1>0, <2>1, <2>4
    <2> QED BY <1>0, <2>2, <2>3, <2>4, <2>5, <2>6, PushOK
  <1>4. CASE Flush
    <2> DEFINE none == F.session = 0
               ops == IF none THEN << >> ELSE <<"get">>
               f == [F EXCEPT !.owed = TRUE, !.thread = @ \/ none]
    <2>1. f \in Fronts(used.sessions, Len(taken)) /\ f.session = F.session
      BY <1>0 DEF Fronts
    <2>2. front' = [front EXCEPT ![api] = [f EXCEPT !.requests = @ \o Requests(ops)]]
      BY <1>0, <1>4 DEF Flush, Fronts
    <2>3. Ask(api, ops, "none") /\ ops \in Seq(Asks) /\ (ops = << >> \/ f.session # 0)
      <3>1. Ask(api, ops, "none")
        BY <1>4 DEF Flush
      <3>2. ops \in Seq(Asks)
        <4>1. << >> \in Seq(Asks) /\ <<"get">> \in Seq(Asks)
          BY DEF Asks
        <4> QED BY <4>1
      <3>3. F.session = 0 => ops = << >>
        OBVIOUS
      <3> QED BY <2>1, <3>1, <3>2, <3>3
    <2>4. UNCHANGED <<engq, adapter, modem, up>> /\ api' \in Clients /\ used' = used
      BY <1>0, <1>4 DEF Flush
    <2>5. \A i \in 1..Len(ops) : ops[i] # "start"
      OBVIOUS
    <2> HIDE DEF f, ops
    <2>6. f \in Fronts(used'.sessions, Len(taken)) /\ used.sessions <= used'.sessions
          /\ used' \in [sessions : Nat, faults : Nat, full : Nat]
      BY <1>0, <2>1, <2>4
    <2> QED BY <1>0, <2>2, <2>3, <2>4, <2>5, <2>6, PushOK
  <1> QED BY <1>1, <1>2, <1>3, <1>4 DEF Framework

\* ... by the thread of flush,
LEMMA TypeReport ==
  ASSUME TypeInv, NEW c \in Clients, EmptyReport(c) PROVE TypeInv'
  <1> DEFINE F == front[c]
             g == [F EXCEPT !.thread = FALSE]
  <1>1. front \in [Clients -> Fronts(used.sessions, Len(taken))]
    BY DEF TypeInv, FrontOK
  <1>2. g \in Fronts(used.sessions, Len(taken))
    BY <1>1, FrontSet
  <1>3. front' = [front EXCEPT ![c] = OnBatchingCb(g)]
    BY <1>1 DEF EmptyReport
  <1> HIDE DEF g
  <1>4. OnBatchingCb(g) \in Fronts(used.sessions, Len(taken))
    BY <1>2, ReportKind
  <1>5. front' \in [Clients -> Fronts(used.sessions, Len(taken))]
    BY <1>1, <1>3, <1>4
  <1> QED BY <1>5 DEF EmptyReport, TypeInv, QueuesOK, AdapterOK, FrontOK, adapter

\* What an answer does to the client it is for, and to what is taken.
LEMMA RespondOK ==
  ASSUME TypeInv, NEW a, NEW ok, a.client \in Clients, Respond(a, ok)
  PROVE  /\ front' \in [Clients -> Fronts(used.sessions, Len(taken))]
         /\ taken' \in Seq(0..Len(taken)) /\ Len(taken') = Len(taken)
  <1> DEFINE F == front[a.client]
             r == Head(F.requests)
             l == used.sessions
             k == Len(taken)
             ends == IF ok THEN r.op = "stop" ELSE r.op = "start"
             x == IF ends THEN 0 ELSE F.session
  <1>1. /\ front \in [Clients -> Fronts(l, k)] /\ F \in Fronts(l, k) /\ l \in Nat /\ k \in Nat
        /\ taken \in Seq(0..k)
    BY LenProperties DEF TypeInv, FrontOK
  <1>2. CASE UNCHANGED <<taken, front>>
    BY <1>1, <1>2
  <1>3. CASE ~UNCHANGED <<taken, front>>
    <2>1. /\ F.requests # << >>
          /\ taken' = [taken EXCEPT ![a.n] = r.n]
          /\ front' = [front EXCEPT ![a.client] = [[F EXCEPT !.requests = Tail(F.requests)]
                                                      EXCEPT !.session = x]]
      BY <1>1, <1>3 DEF Respond, Fronts
    <2>2. F.requests \in Seq([op : Asks, n : 1..k]) /\ F.session \in 0..l
      BY <1>1, FrontSet
    <2>3. /\ r \in [op : Asks, n : 1..k] /\ Tail(F.requests) \in Seq([op : Asks, n : 1..k])
      BY <2>1, <2>2, HeadTailProperties
    <2>4. PICK g : g = [F EXCEPT !.requests = Tail(F.requests)]
      OBVIOUS
    <2>5. g \in Fronts(l, k)
      BY <1>1, <2>3, <2>4, FrontRequests
    <2>6. x \in 0..l
      BY <1>1, <2>2
    <2>7. [g EXCEPT !.session = x] \in Fronts(l, k)
      BY <2>5, <2>6, FrontSession
    <2>8. front' = [front EXCEPT ![a.client] = [g EXCEPT !.session = x]]
      BY <2>1, <2>4
    <2>9. r.n \in 0..k
      <3>1. PICK v \in [op : Asks, n : 1..k] : v = r
        BY <2>3
      <3>2. v.n \in 1..k
        BY <3>1
      <3> HIDE DEF r
      <3> QED BY <1>1, <3>1, <3>2
    <2> HIDE DEF x, F, r, ends
    <2>10. taken' \in Seq(0..k) /\ Len(taken') = Len(taken)
      <3>1. DOMAIN taken = 1..Len(taken) /\ \A i \in 1..Len(taken) : taken[i] \in 0..k
        BY <1>1, LenProperties, ElementOfSeq
      <3>2. taken' \in [1..Len(taken) -> 0..k]
        BY <1>1, <2>1, <2>9, <3>1
      <3> QED BY <1>1, <3>2, SeqDef, LenProperties
    <2>11. front' \in [Clients -> Fronts(l, k)]
      BY <1>1, <2>7, <2>8
    <2> QED BY <2>10, <2>11
  <1> QED BY <1>2, <1>3

\* The calls to stop a client's sessions, and those to start all of them again.
LEMMA StopRow ==
  ASSUME TypeInv, NEW c, NEW mine, mine \subseteq DOMAIN sessions
  PROVE  LET calls == {Call("stop", [client |-> c, session |-> s, n |-> 0], sessions[s].mode) :
                          s \in mine}
         IN AnySeq(SetToSeq(calls)) /\ In(SetToSeq(calls)) = calls
  <1> DEFINE f == [s \in mine |-> Call("stop", [client |-> c, session |-> s, n |-> 0],
                                       sessions[s].mode)]
             calls == {Call("stop", [client |-> c, session |-> s, n |-> 0], sessions[s].mode) :
                          s \in mine}
  <1>1. IsFiniteSet(1..used.sessions)
    BY FS_Interval DEF TypeInv, FrontOK
  <1>2. IsFiniteSet(mine)
    BY <1>1, FS_Subset DEF TypeInv, AdapterOK
  <1>3. calls = {f[s] : s \in mine} /\ DOMAIN f = mine
    OBVIOUS
  <1> HIDE DEF f, calls
  <1>4. IsFiniteSet(calls)
    <2>1. IsFiniteSet({f[s] : s \in mine})
      BY <1>2, <1>3, FiniteImage
    <2> QED BY <1>3, <2>1
  <1>5. AnySeq(SetToSeq(calls)) /\ In(SetToSeq(calls)) = calls
    BY <1>4, RowOfSet
  <1> QED BY <1>5 DEF calls

\* The calls a restart makes, in some order.
LEMMA RestartRow ==
  ASSUME TypeInv
  PROVE  LET calls == {Restart(s) : s \in DOMAIN sessions}
         IN AnySeq(SetToSeq(calls)) /\ In(SetToSeq(calls)) = calls
  <1> DEFINE f == [s \in DOMAIN sessions |-> Restart(s)]
             calls == {Restart(s) : s \in DOMAIN sessions}
  <1>1. IsFiniteSet(1..used.sessions)
    BY FS_Interval DEF TypeInv, FrontOK
  <1>2. IsFiniteSet(DOMAIN sessions)
    BY <1>1, FS_Subset DEF TypeInv, AdapterOK
  <1>3. calls = {f[s] : s \in DOMAIN sessions} /\ DOMAIN f = DOMAIN sessions
    OBVIOUS
  <1> HIDE DEF f, calls
  <1>4. IsFiniteSet(calls)
    <2>1. IsFiniteSet({f[s] : s \in DOMAIN sessions})
      BY <1>2, <1>3, FiniteImage
    <2> QED BY <1>3, <2>1
  <1>5. AnySeq(SetToSeq(calls)) /\ In(SetToSeq(calls)) = calls
    BY <1>4, RowOfSet
  <1> QED BY <1>5 DEF calls

\* The kinds: the adapter's thread.
LEMMA TypeProc ==
  ASSUME TypeInv, Proc PROVE TypeInv'
  <1> DEFINE a == Head(msgs)
             l == used.sessions
             k == Len(taken)
  <1>0. /\ QueuesOK /\ AdapterOK /\ FrontOK
        /\ \A e \in In(engq) : CallOK(e, l, k)
        /\ AnySeq(engq) /\ AnySeq(pending) /\ l \in Nat /\ k \in Nat
    BY LenProperties DEF TypeInv, QueuesOK, FrontOK
  <1>1. ASSUME NEW type, Receive(type)
        PROVE  /\ msgs # << >> /\ msgs' = Tail(msgs) /\ a.type = type /\ AnySeq(msgs')
               /\ MsgOK(a, l, k)
               /\ \A m \in In(msgs') : MsgOK(m, l, k)
    BY <1>0, <1>1, ReceiveOK
  <1>2. ASSUME NEW e, CallOK(e, l, k), engq' = Append(engq, e)
        PROVE  AnySeq(engq') /\ \A d \in In(engq') : CallOK(d, l, k)
    BY <1>0, <1>2, AppendSome
  <1>3. ASSUME NEW row, AnySeq(row), \A e \in In(row) : CallOK(e, l, k), engq' = engq \o row
        PROVE  AnySeq(engq') /\ \A d \in In(engq') : CallOK(d, l, k)
    BY <1>0, <1>3, ConcatSome
  <1> HIDE DEF a, l, k
  <1>4. ASSUME AnySeq(msgs'), \A m \in In(msgs') : MsgOK(m, l, k),
               AnySeq(engq'), \A e \in In(engq') : CallOK(e, l, k),
               UNCHANGED <<pending, used>>, Len(taken') = k
        PROVE  QueuesOK'
    BY <1>0, <1>4 DEF QueuesOK, l, k
  <1>5. ASSUME UNCHANGED <<api, used, taken, front>> PROVE FrontOK'
    BY <1>0, <1>5 DEF FrontOK
  <1>6. ASSUME NEW ss, sessions' = ss, ss \in [DOMAIN ss -> [client : Clients, mode : Modes]],
               DOMAIN ss \subseteq 1..l, full' \in BOOLEAN,
               UNCHANGED <<capsKnown, known, up, modem, used>>
        PROVE  AdapterOK'
    BY <1>0, <1>6 DEF AdapterOK, l
  <1>7. /\ sessions \in [DOMAIN sessions -> [client : Clients, mode : Modes]]
        /\ DOMAIN sessions \subseteq 1..l /\ full \in BOOLEAN
    BY <1>0 DEF AdapterOK, l
  <1>8. \A s : /\ Without(sessions, s) \in
                      [DOMAIN Without(sessions, s) -> [client : Clients, mode : Modes]]
               /\ DOMAIN Without(sessions, s) \subseteq 1..l
    BY <1>7 DEF Without, Restrict
  <1>9. \A s \in 1..l, x \in [client : Clients, mode : Modes] :
           /\ Extend(sessions, s, x) \in
                  [DOMAIN Extend(sessions, s, x) -> [client : Clients, mode : Modes]]
           /\ DOMAIN Extend(sessions, s, x) \subseteq 1..l
    BY <1>7 DEF Extend
  <1>10. ASSUME NEW ok, a.client \in Clients, Respond(a, ok), UNCHANGED <<api, used>>
         PROVE  FrontOK' /\ Len(taken') = k
    <2>1. /\ front' \in [Clients -> Fronts(used.sessions, Len(taken))]
          /\ taken' \in Seq(0..Len(taken)) /\ Len(taken') = Len(taken)
      BY <1>10, RespondOK
    <2> QED BY <1>0, <1>10, <2>1 DEF FrontOK, k
  <1>11. CASE ProcAddClient
    <2>1. known' \subseteq Clients
      BY <1>0, <1>1, <1>11 DEF ProcAddClient, MsgOK, AdapterOK, a
    <2>2. full' \in BOOLEAN
      BY <1>11 DEF ProcAddClient, AutoReports
    <2>3. QueuesOK'
      BY <1>0, <1>1, <1>4, <1>11 DEF ProcAddClient, k
    <2> QED BY <1>0, <1>5, <1>11, <2>1, <2>2, <2>3 DEF ProcAddClient, AdapterOK, TypeInv
  <1>12. CASE ProcRemoveClient
    <2> DEFINE c == a.client
               mine == {s \in DOMAIN sessions : sessions[s].client = c}
               left == Restrict(sessions, DOMAIN sessions \ mine)
               calls == {Call("stop", [client |-> c, session |-> s, n |-> 0], sessions[s].mode) :
                            s \in mine}
    <2>1. /\ Receive("removeClient") /\ known' = known \ {c} /\ sessions' = left
          /\ full' = AutoReports(left) /\ engq' = engq \o SetToSeq(calls)
          /\ UNCHANGED <<pending, capsKnown, modem, up, api, front, taken, used>>
      BY <1>12 DEF ProcRemoveClient, a
    <2>2. c \in Clients
      BY <1>1, <2>1 DEF MsgOK
    <2>3. \A e \in calls : CallOK(e, l, k)
      <3> SUFFICES ASSUME NEW s \in mine
                   PROVE  CallOK(Call("stop", [client |-> c, session |-> s, n |-> 0],
                                      sessions[s].mode), l, k)
        OBVIOUS
      <3>1. s \in 1..l
        BY <1>7
      <3> HIDE DEF c, mine, left, calls
      <3> QED BY <1>0, <2>2, <3>1 DEF CallOK, Call, Asks
    <2>4. AnySeq(SetToSeq(calls)) /\ In(SetToSeq(calls)) = calls
      BY StopRow
    <2>5. left \in [DOMAIN left -> [client : Clients, mode : Modes]] /\ DOMAIN left \subseteq 1..l
      BY <1>7 DEF Restrict
    <2>6. full' \in BOOLEAN
      BY <2>1 DEF AutoReports
    <2> HIDE DEF calls, left, mine
    <2>7. AnySeq(engq') /\ \A d \in In(engq') : CallOK(d, l, k)
      BY <1>3, <2>1, <2>3, <2>4
    <2>8. QueuesOK'
      BY <1>1, <1>4, <2>1, <2>7 DEF k
    <2>9. AdapterOK'
      BY <1>0, <2>1, <2>5, <2>6 DEF AdapterOK, l
    <2> QED BY <1>5, <2>1, <2>8, <2>9 DEF TypeInv
  <1>13. ASSUME NEW type \in {"start", "stop", "get"}, Hold(type) PROVE TypeInv'
    <2>1. Receive(type) /\ pending' = Append(pending, a)
          /\ UNCHANGED <<engq, capsKnown, known, sessions, full>>
          /\ UNCHANGED <<modem, up, api, front, taken, used>>
      BY <1>13 DEF Hold, a
    <2>2. AnySeq(pending') /\ In(pending') = In(pending) \cup {a}
      BY <1>0, <2>1, AppendSome
    <2>3. QueuesOK'
      BY <1>0, <1>1, <2>1, <2>2 DEF QueuesOK, Asks, l, k
    <2> QED BY <1>0, <1>5, <2>1, <2>3 DEF AdapterOK, TypeInv
  <1>14. CASE ProcStart
    <2>1. /\ Receive("start")
          /\ UNCHANGED <<pending, capsKnown, known, modem, up, api, front, taken, used>>
      BY <1>14 DEF ProcStart
    <2>2. a.client \in Clients /\ a.session \in 1..l /\ a.n \in 0..k /\ a.mode \in Modes
      BY <1>1, <2>1 DEF MsgOK, Asks
    <2>3. CASE a.client \in known /\ Supported
      <3>1. /\ full' = (full \/ (a.mode = "routine" /\ ~AutoReports(sessions)))
            /\ sessions' = Extend(sessions, a.session, Session(a.client, a.mode))
            /\ engq' = Append(engq, Call("start", a, a.mode))
        BY <1>14, <2>3 DEF ProcStart, a
      <3>2. CallOK(Call("start", a, a.mode), l, k)
        BY <2>2 DEF CallOK, Call, Asks
      <3>3. QueuesOK'
        BY <1>1, <1>2, <1>4, <2>1, <3>1, <3>2 DEF k
      <3>4. Session(a.client, a.mode) \in [client : Clients, mode : Modes]
        BY <2>2 DEF Session
      <3>5. full' \in BOOLEAN
        BY <1>7, <3>1 DEF AutoReports
      <3>6. AdapterOK'
        BY <1>6, <1>9, <2>1, <2>2, <3>1, <3>4, <3>5
      <3> QED BY <1>5, <2>1, <3>3, <3>6 DEF TypeInv
    <2>4. CASE ~(a.client \in known /\ Supported)
      <3>1. UNCHANGED <<full, sessions, engq>>
        BY <1>14, <2>4 DEF ProcStart, a
      <3>2. QueuesOK'
        BY <1>0, <1>1, <1>4, <2>1, <3>1 DEF k
      <3> QED BY <1>5, <1>0, <2>1, <3>1, <3>2 DEF TypeInv, AdapterOK
    <2> QED BY <2>3, <2>4
  <1>15. CASE ProcStarted
    <2>1. Receive("started") /\ UNCHANGED <<engq, pending, capsKnown, known, modem, up, api, used>>
          /\ Respond(a, a.ok)
          /\ sessions' = (IF a.ok THEN sessions ELSE Without(sessions, a.session))
          /\ full' = (IF a.ok THEN full ELSE StillFull(sessions', a.mode))
      BY <1>15 DEF ProcStarted, a
    <2>2. a.client \in Clients
      BY <1>1, <2>1 DEF MsgOK, Answers
    <2>3. FrontOK' /\ Len(taken') = k
      BY <1>10, <2>1, <2>2
    <2>4. full' \in BOOLEAN
      BY <1>7, <2>1 DEF StillFull, AutoReports
    <2>5. QueuesOK'
      BY <1>0, <1>1, <1>4, <2>1, <2>3
    <2>6. AdapterOK'
      BY <1>6, <1>7, <1>8, <2>1, <2>4
    <2> QED BY <2>3, <2>5, <2>6 DEF TypeInv
  <1>16. CASE ProcStop
    <2>1. /\ Receive("stop")
          /\ UNCHANGED <<pending, capsKnown, known, full, modem, up, api, front, taken, used>>
      BY <1>16 DEF ProcStop
    <2>2. a.client \in Clients /\ a.session \in 1..l /\ a.n \in 0..k
      BY <1>1, <2>1 DEF MsgOK, Asks
    <2>3. CASE a.session \in DOMAIN sessions
      <3>1. /\ sessions' = Without(sessions, a.session)
            /\ engq' = Append(engq, Call("stop", a, sessions[a.session].mode))
        BY <1>16, <2>3 DEF ProcStop, a
      <3>2. CallOK(Call("stop", a, sessions[a.session].mode), l, k)
        BY <2>2 DEF CallOK, Call, Asks
      <3>3. QueuesOK'
        BY <1>1, <1>2, <1>4, <2>1, <3>1, <3>2 DEF k
      <3>4. AdapterOK'
        BY <1>6, <1>7, <1>8, <2>1, <3>1
      <3> QED BY <1>5, <2>1, <3>3, <3>4 DEF TypeInv
    <2>4. CASE a.session \notin DOMAIN sessions
      <3>1. UNCHANGED <<sessions, engq>>
        BY <1>16, <2>4 DEF ProcStop, a
      <3>2. QueuesOK'
        BY <1>0, <1>1, <1>4, <2>1, <3>1 DEF k
      <3> QED BY <1>5, <1>0, <2>1, <3>1, <3>2 DEF TypeInv, AdapterOK
    <2> QED BY <2>3, <2>4
  <1>17. CASE ProcStopped
    <2>1. Receive("stopped") /\ UNCHANGED <<engq, pending, capsKnown, known, modem, up, api, used>>
          /\ Respond(a, a.ok)
          /\ sessions' = (IF a.ok THEN sessions ELSE Extend(sessions, a.session, Restored(a)))
          /\ full' = (IF a.ok THEN StillFull(sessions, a.mode) ELSE full)
      BY <1>17 DEF ProcStopped, a
    <2>2. a.client \in Clients /\ a.session \in 1..l
      BY <1>1, <2>1 DEF MsgOK, Answers
    <2>3. FrontOK' /\ Len(taken') = k
      BY <1>10, <2>1, <2>2
    <2>4. full' \in BOOLEAN
      BY <1>7, <2>1 DEF StillFull, AutoReports
    <2>5. QueuesOK'
      BY <1>0, <1>1, <1>4, <2>1, <2>3
    <2>6. Restored(a) \in [client : Clients, mode : Modes]
      BY <2>2 DEF Restored, Session, Modes
    <2>7. AdapterOK'
      BY <1>6, <1>7, <1>9, <2>1, <2>2, <2>4, <2>6
    <2> QED BY <2>3, <2>5, <2>7 DEF TypeInv
  <1>18. CASE ProcGet
    <2>1. Receive("get") /\ UNCHANGED <<adapter, modem, up, api, used>>
      BY <1>18 DEF ProcGet
    <2>2. a.client \in Clients /\ a.session \in 1..l /\ a.n \in 0..k
      BY <1>1, <2>1 DEF MsgOK, Asks
    <2>3. AdapterOK'
      BY <1>0, <2>1 DEF AdapterOK, adapter
    <2>4. CASE engq' = Append(engq, Call("get", a, "none")) /\ UNCHANGED <<front, taken>>
      <3>1. CallOK(Call("get", a, "none"), l, k)
        BY <2>2 DEF CallOK, Call, Asks
      <3>2. QueuesOK'
        BY <1>1, <1>2, <1>4, <2>1, <2>4, <3>1 DEF k, adapter
      <3> QED BY <1>5, <2>1, <2>3, <2>4, <3>2 DEF TypeInv
    <2>5. CASE Respond(a, FALSE) /\ UNCHANGED engq
      <3>1. FrontOK' /\ Len(taken') = k
        BY <1>10, <2>1, <2>2, <2>5
      <3>2. QueuesOK'
        BY <1>0, <1>1, <1>4, <2>1, <2>5, <3>1 DEF adapter
      <3> QED BY <2>3, <3>1, <3>2 DEF TypeInv
    <2> QED BY <1>18, <2>4, <2>5 DEF ProcGet, a
  <1>19. CASE ProcGot
    <2>1. Receive("got") /\ UNCHANGED <<engq, adapter, modem, up, api, used>> /\ Respond(a, a.ok)
      BY <1>19 DEF ProcGot, a
    <2>2. a.client \in Clients
      BY <1>1, <2>1 DEF MsgOK, Answers
    <2>3. FrontOK' /\ Len(taken') = k
      BY <1>10, <2>1, <2>2
    <2>4. QueuesOK'
      BY <1>0, <1>1, <1>4, <2>1, <2>3 DEF adapter
    <2> QED BY <1>0, <2>1, <2>3, <2>4 DEF TypeInv, AdapterOK, adapter
  <1>20. CASE ProcLocations
    <2>1. Receive("locations") /\ UNCHANGED <<engq, adapter, modem, up, api, taken, used>>
          /\ front' = [c \in Clients |-> IF c \in known THEN OnBatchingCb(front[c]) ELSE front[c]]
      BY <1>20 DEF ProcLocations
    <2>2. front \in [Clients -> Fronts(l, k)]
      BY <1>0 DEF FrontOK, l, k
    <2>3. \A c \in Clients : OnBatchingCb(front[c]) \in Fronts(l, k)
      BY <2>2, ReportKind
    <2>4. front' \in [Clients -> Fronts(l, k)]
      BY <2>1, <2>2, <2>3
    <2>5. FrontOK'
      BY <1>0, <2>1, <2>4 DEF FrontOK, l, k
    <2>6. QueuesOK'
      BY <1>0, <1>1, <1>4, <2>1 DEF adapter, k
    <2> QED BY <1>0, <2>1, <2>5, <2>6 DEF TypeInv, AdapterOK, adapter
  <1>21. CASE ProcEngineUp
    <2> DEFINE calls == {Restart(s) : s \in DOMAIN sessions}
    <2>1. /\ Receive("engineUp") /\ capsKnown' = TRUE /\ pending' = << >>
          /\ full' = (full \/ AutoReports(sessions))
          /\ engq' = engq \o SetToSeq(calls)
          /\ msgs' = Tail(msgs) \o pending
          /\ UNCHANGED <<known, sessions, modem, up, api, front, taken, used>>
      BY <1>21 DEF ProcEngineUp
    <2>2. \A e \in calls : CallOK(e, l, k)
      <3> SUFFICES ASSUME NEW s \in DOMAIN sessions PROVE CallOK(Restart(s), l, k)
        OBVIOUS
      <3>1. s \in 1..l /\ sessions[s].client \in Clients /\ sessions[s].mode \in Modes
        BY <1>7
      <3> QED BY <1>0, <3>1 DEF CallOK, Call, Restart, Asks
    <2>3. AnySeq(SetToSeq(calls)) /\ In(SetToSeq(calls)) = calls
      BY RestartRow
    <2> HIDE DEF calls
    <2>4. AnySeq(engq') /\ \A d \in In(engq') : CallOK(d, l, k)
      BY <1>3, <2>1, <2>2, <2>3
    <2>5. full' \in BOOLEAN
      BY <1>7, <2>1 DEF AutoReports
    <2>6. AdapterOK'
      BY <1>0, <2>1, <2>5 DEF AdapterOK
    <2>7. AnySeq(Tail(msgs)) /\ In(msgs) = In(Tail(msgs)) \cup {Head(msgs)}
      BY <1>0, <2>1, TailSome DEF Receive, QueuesOK
    <2>8. AnySeq(msgs') /\ In(msgs') = In(Tail(msgs)) \cup In(pending)
      BY <1>0, <2>1, <2>7, ConcatSome
    <2>9. AnySeq(pending') /\ In(pending') = {}
      BY <2>1, ShortSome
    <2>10. QueuesOK'
      BY <1>0, <2>1, <2>4, <2>7, <2>8, <2>9 DEF QueuesOK, l, k
    <2> QED BY <1>5, <2>1, <2>6, <2>10 DEF TypeInv
  <1> QED BY <1>11, <1>12, <1>13, <1>14, <1>15, <1>16, <1>17, <1>18, <1>19, <1>20, <1>21 DEF Proc

\* The answer to a call: one message about what the call was about, except that a
\* restart has none.
AnswerType(op) == IF op = "start" THEN "started" ELSE IF op = "stop" THEN "stopped" ELSE "got"

AnswerTo(e, ok) ==
    [type |-> AnswerType(e.op), client |-> e.client, session |-> e.session,
     n |-> e.n, mode |-> e.mode, ok |-> ok]

\* The answer to a call, written out.
LEMMA AnswerIs ==
  ASSUME NEW e, NEW ok, e.op \in {"restart"} \cup Asks
  PROVE  Answer(e, ok) = IF e.op = "restart" THEN << >> ELSE <<AnswerTo(e, ok)>>
  <1>1. CASE e.op = "start"
    BY <1>1 DEF Answer, AnswerTo, AnswerType
  <1>2. CASE e.op = "stop"
    BY <1>2 DEF Answer, AnswerTo, AnswerType
  <1>3. CASE e.op = "get"
    BY <1>3 DEF Answer, AnswerTo, AnswerType
  <1>4. CASE e.op = "restart"
    BY <1>4 DEF Answer
  <1> QED BY <1>1, <1>2, <1>3, <1>4 DEF Asks

\* The answer behind the other messages, after the locations if there are some.
LEMMA AnswerRow ==
  ASSUME NEW q, AnySeq(q), NEW e, NEW ok, NEW loc, e.op \in {"restart"} \cup Asks,
         loc = << >> \/ loc = <<[type |-> "locations"]>>
  PROVE  LET r == q \o loc
             t == r \o Answer(e, ok)
             m == AnswerTo(e, ok)
             news == IF loc = << >> THEN {} ELSE {[type |-> "locations"]}
         IN /\ AnySeq(r) /\ AnySeq(t)
            /\ In(r) = In(q) \cup news
            /\ loc = << >> => r = q
            /\ loc # << >> => r = Append(q, [type |-> "locations"])
            /\ e.op = "restart" => t = r
            /\ e.op # "restart" => t = Append(r, m)
            /\ In(t) = In(r) \cup (IF e.op = "restart" THEN {} ELSE {m})
  <1> DEFINE r == q \o loc
             t == r \o Answer(e, ok)
             m == AnswerTo(e, ok)
             x == [type |-> "locations"]
  <1>1. PICK S : q \in Seq(S)
    BY DEF AnySeq
  <1>2. q \o << >> = q /\ q \o <<x>> = Append(q, x)
    <2> HIDE DEF x
    <2> QED BY <1>1
  <1>3. (loc = << >> => r = q) /\ (loc # << >> => r = Append(q, x))
    BY <1>2
  <1>4. AnySeq(r) /\ In(r) = In(q) \cup (IF loc = << >> THEN {} ELSE {x})
    <2> HIDE DEF r, x
    <2>1. CASE loc = << >>
      BY <1>3, <2>1
    <2>2. CASE loc # << >>
      <3>1. r = Append(q, x)
        BY <1>3, <2>2
      <3> QED BY <2>2, <3>1, AppendSome
    <2> QED BY <2>1, <2>2
  <1>5. Answer(e, ok) = IF e.op = "restart" THEN << >> ELSE <<m>>
    BY AnswerIs
  <1> HIDE DEF r, m, x
  <1>6. PICK T : r \in Seq(T)
    BY <1>4 DEF AnySeq
  <1>7. r \o << >> = r /\ r \o <<m>> = Append(r, m)
    BY <1>6
  <1>8. (e.op = "restart" => t = r) /\ (e.op # "restart" => t = Append(r, m))
    BY <1>5, <1>7
  <1> HIDE DEF t
  <1>9. AnySeq(t) /\ In(t) = In(r) \cup (IF e.op = "restart" THEN {} ELSE {m})
    <2>1. CASE e.op = "restart"
      BY <1>4, <1>8, <2>1
    <2>2. CASE e.op # "restart"
      <3>1. t = Append(r, m)
        BY <1>8, <2>2
      <3> QED BY <1>4, <2>2, <3>1, AppendSome
    <2> QED BY <2>1, <2>2
  <1> QED BY <1>3, <1>4, <1>8, <1>9 DEF r, t, m, x

\* The kinds: the LocApi's thread and the modem.
LEMMA TypeLocApi ==
  ASSUME TypeInv, LocApi \/ Crash \/ BatchFull PROVE TypeInv'
  <1> DEFINE e == Head(engq)
             l == used.sessions
             k == Len(taken)
  <1>0. /\ QueuesOK /\ AdapterOK /\ FrontOK
        /\ \A m \in In(msgs) : MsgOK(m, l, k)
        /\ AnySeq(engq) /\ AnySeq(msgs) /\ l \in Nat /\ k \in Nat
        /\ used \in [sessions : Nat, faults : Nat, full : Nat]
    BY LenProperties DEF TypeInv, QueuesOK, FrontOK
  <1>1. ASSUME engq # << >>
        PROVE  /\ AnySeq(Tail(engq)) /\ e \in In(engq) /\ CallOK(e, l, k)
               /\ \A d \in In(Tail(engq)) : CallOK(d, l, k)
    <2>1. AnySeq(Tail(engq)) /\ In(engq) = In(Tail(engq)) \cup {e}
      BY <1>0, <1>1, TailSome
    <2> QED BY <2>1 DEF QueuesOK, TypeInv
  <1>2. MsgOK([type |-> "locations"], l, k) /\ MsgOK([type |-> "engineUp"], l, k)
        /\ CallOK([op |-> "open"], l, k)
    BY DEF MsgOK, CallOK, Asks, Answers
  <1>3. ASSUME NEW m, MsgOK(m, l, k), msgs' = Append(msgs, m)
        PROVE  AnySeq(msgs') /\ \A d \in In(msgs') : MsgOK(d, l, k)
    <2>1. AnySeq(msgs') /\ In(msgs') = In(msgs) \cup {m}
      BY <1>0, <1>3, AppendSome
    <2> QED BY <1>0, <1>3, <2>1
  <1>4. ASSUME NEW ok, e.op \in {"restart"} \cup Asks, CallOK(e, l, k)
        PROVE  MsgOK(AnswerTo(e, ok), l, k) \/ e.op = "restart"
    BY <1>4 DEF MsgOK, CallOK, AnswerTo, AnswerType, Asks, Answers
  <1>5. ASSUME NEW loc, NEW ok, loc = << >> \/ loc = <<[type |-> "locations"]>>,
               engq # << >>, e.op # "open", msgs' = (msgs \o loc) \o Answer(e, ok)
        PROVE  AnySeq(msgs') /\ \A d \in In(msgs') : MsgOK(d, l, k)
    <2> DEFINE r == msgs \o loc
               t == r \o Answer(e, ok)
               m == AnswerTo(e, ok)
               news == IF loc = << >> THEN {} ELSE {[type |-> "locations"]}
    <2>1. e.op \in {"restart"} \cup Asks /\ CallOK(e, l, k)
      BY <1>1, <1>5 DEF CallOK
    <2>2. AnySeq(t) /\ In(r) = In(msgs) \cup news
          /\ In(t) = In(r) \cup (IF e.op = "restart" THEN {} ELSE {m})
      BY <1>0, <1>5, <2>1, AnswerRow
    <2>3. MsgOK(m, l, k) \/ e.op = "restart"
      BY <1>4, <2>1
    <2>4. \A d \in news : MsgOK(d, l, k)
      BY <1>2
    <2>5. msgs' = t
      BY <1>5
    <2> HIDE DEF r, t, m, news
    <2> QED BY <1>0, <2>2, <2>3, <2>4, <2>5
  <1> HIDE DEF e, l, k
  <1>6. ASSUME AnySeq(msgs'), \A m \in In(msgs') : MsgOK(m, l, k),
               AnySeq(engq'), \A d \in In(engq') : CallOK(d, l, k),
               UNCHANGED <<pending, taken>>, used'.sessions = l
        PROVE  QueuesOK'
    BY <1>0, <1>6 DEF QueuesOK, l, k
  <1>7. ASSUME UNCHANGED <<api, taken, front>>, used'.sessions = l,
               used' \in [sessions : Nat, faults : Nat, full : Nat]
        PROVE  FrontOK'
    BY <1>0, <1>7 DEF FrontOK, l
  <1>8. CASE Accept
    <2> DEFINE loc == IF e.op = "get" THEN <<[type |-> "locations"]>> ELSE << >>
    <2>1. /\ engq # << >> /\ e.op # "open" /\ engq' = Tail(engq)
          /\ msgs' = (msgs \o loc) \o Answer(e, TRUE)
          /\ modem' = CASE e.op \in {"start", "restart"} -> Extend(modem, e.session, e.mode)
                        [] e.op = "stop" -> Without(modem, e.session)
                        [] e.op = "get" -> modem
          /\ UNCHANGED <<adapter, up, api, front, taken, used>>
      BY <1>8 DEF Accept, e
    <2>2. loc = << >> \/ loc = <<[type |-> "locations"]>>
      OBVIOUS
    <2> HIDE DEF loc
    <2>3. AnySeq(msgs') /\ \A d \in In(msgs') : MsgOK(d, l, k)
      BY <1>5, <2>1, <2>2
    <2>4. QueuesOK'
      BY <1>1, <1>6, <2>1, <2>3 DEF adapter, l
    <2>5. modem' \in [DOMAIN modem' -> Modes] /\ DOMAIN modem' \subseteq 1..l
      <3>1. modem \in [DOMAIN modem -> Modes] /\ DOMAIN modem \subseteq 1..l
        BY <1>0 DEF AdapterOK, l
      <3>2. CallOK(e, l, k)
        BY <1>1, <2>1
      <3>3. CASE e.op \in {"start", "restart"}
        <4>1. e.session \in 1..l /\ e.mode \in Modes
          BY <3>2, <3>3 DEF CallOK
        <4>2. modem' = Extend(modem, e.session, e.mode)
          BY <2>1, <3>3
        <4> QED BY <3>1, <4>1, <4>2 DEF Extend
      <3>4. CASE e.op = "stop"
        <4>1. modem' = Without(modem, e.session)
          BY <2>1, <3>4
        <4> QED BY <3>1, <4>1 DEF Without, Restrict
      <3>5. CASE e.op = "get"
        <4>1. modem' = modem
          BY <2>1, <3>5
        <4> QED BY <3>1, <4>1
      <3> QED BY <2>1, <3>2, <3>3, <3>4, <3>5 DEF CallOK, Asks
    <2>6. AdapterOK'
      BY <1>0, <2>1, <2>5 DEF AdapterOK, adapter, l
    <2>7. FrontOK'
      BY <1>0, <1>7, <2>1 DEF l
    <2> QED BY <2>4, <2>6, <2>7 DEF TypeInv
  <1>9. CASE Refuse
    <2>1. /\ engq # << >> /\ e.op # "open" /\ engq' = Tail(engq)
          /\ msgs' = msgs \o Answer(e, FALSE)
          /\ UNCHANGED <<adapter, modem, up, api, front, taken>>
          /\ used' = IF up THEN [used EXCEPT !.faults = @ + 1] ELSE used
      BY <1>9 DEF Refuse, e
    <2>2. used'.sessions = l /\ used' \in [sessions : Nat, faults : Nat, full : Nat]
      BY <1>0, <2>1 DEF l
    <2>3. msgs' = (msgs \o << >>) \o Answer(e, FALSE)
      <3>1. msgs \o << >> = msgs
        BY <1>0 DEF AnySeq
      <3> QED BY <2>1, <3>1
    <2>4. AnySeq(msgs') /\ \A d \in In(msgs') : MsgOK(d, l, k)
      BY <1>5, <2>1, <2>3
    <2>5. QueuesOK'
      BY <1>1, <1>6, <2>1, <2>2, <2>4 DEF adapter
    <2>6. AdapterOK'
      BY <1>0, <2>1, <2>2 DEF AdapterOK, adapter, l
    <2>7. FrontOK'
      BY <1>7, <2>1, <2>2
    <2> QED BY <2>5, <2>6, <2>7 DEF TypeInv
  <1>10. CASE Open
    <2>1. /\ engq # << >> /\ engq' = Tail(engq) /\ up' = TRUE
          /\ msgs' = Append(msgs, [type |-> "engineUp"])
          /\ UNCHANGED <<adapter, modem, api, front, taken, used>>
      BY <1>10 DEF Open
    <2>2. QueuesOK'
      BY <1>1, <1>2, <1>3, <1>6, <2>1 DEF adapter, l
    <2>3. AdapterOK'
      BY <1>0, <2>1 DEF AdapterOK, adapter
    <2>4. FrontOK'
      BY <1>0, <1>7, <2>1 DEF l
    <2> QED BY <2>2, <2>3, <2>4 DEF TypeInv
  <1>11. CASE Crash
    <2>1. /\ used' = [used EXCEPT !.faults = @ + 1] /\ up' = FALSE /\ modem' = << >>
          /\ engq' = Append(engq, [op |-> "open"])
          /\ UNCHANGED <<msgs, adapter, api, front, taken>>
      BY <1>11 DEF Crash
    <2>2. used'.sessions = l /\ used' \in [sessions : Nat, faults : Nat, full : Nat]
      BY <1>0, <2>1 DEF l
    <2>3. AnySeq(engq') /\ In(engq') = In(engq) \cup {[op |-> "open"]}
      BY <1>0, <2>1, AppendSome
    <2>4. QueuesOK'
      BY <1>0, <1>2, <1>6, <2>1, <2>2, <2>3 DEF adapter, QueuesOK, l, k
    <2>5. modem' \in [DOMAIN modem' -> Modes] /\ DOMAIN modem' \subseteq 1..l
      BY <2>1
    <2>6. AdapterOK'
      BY <1>0, <2>1, <2>2, <2>5 DEF AdapterOK, adapter, l
    <2>7. FrontOK'
      BY <1>7, <2>1, <2>2
    <2> QED BY <2>4, <2>6, <2>7 DEF TypeInv
  <1>12. CASE BatchFull
    <2>1. /\ used' = [used EXCEPT !.full = @ + 1]
          /\ msgs' = Append(msgs, [type |-> "locations"])
          /\ UNCHANGED <<engq, adapter, modem, up, api, front, taken>>
      BY <1>12 DEF BatchFull
    <2>2. used'.sessions = l /\ used' \in [sessions : Nat, faults : Nat, full : Nat]
      BY <1>0, <2>1 DEF l
    <2>3. AnySeq(msgs') /\ \A d \in In(msgs') : MsgOK(d, l, k)
      BY <1>2, <1>3, <2>1
    <2>4. QueuesOK'
      BY <1>0, <1>6, <2>1, <2>2, <2>3 DEF adapter, QueuesOK, l, k
    <2>5. AdapterOK'
      BY <1>0, <2>1, <2>2 DEF AdapterOK, adapter, l
    <2>6. FrontOK'
      BY <1>7, <2>1, <2>2
    <2> QED BY <2>4, <2>5, <2>6 DEF TypeInv
  <1> QED BY <1>8, <1>9, <1>10, <1>11, <1>12 DEF LocApi

\* Every step keeps the kinds.
LEMMA TypeNext == TypeInv /\ [Next]_vars => TypeInv'
  <1> SUFFICES ASSUME TypeInv, [Next]_vars PROVE TypeInv'
    OBVIOUS
  <1>1. CASE UNCHANGED vars
    BY <1>1 DEF vars, adapter, TypeInv, QueuesOK, AdapterOK, FrontOK
  <1> QED BY <1>1, TypeFramework, TypeReport, TypeProc, TypeLocApi DEF Next

\* The clients, the sessions and the modem's are always of the kinds the threads
\* expect of them.
THEOREM TypeCorrect == Spec => []TypeOK
  <1>1. TypeInv => TypeOK
    <2> SUFFICES ASSUME TypeInv PROVE TypeOK
      OBVIOUS
    <2>1. Len(taken) \in Nat /\ used.sessions \in Nat
      BY LenProperties DEF TypeInv, FrontOK
    <2>2. \A n \in Commands : taken[n] \in 0..Len(taken)
      BY ElementOfSeq DEF TypeInv, FrontOK, Commands
    <2>3. ASSUME NEW c \in Clients
          PROVE  /\ front[c].state \in {"started", "stopping", "stopped"}
                 /\ front[c].session \in 0..used.sessions
                 /\ \A i \in DOMAIN front[c].requests : front[c].requests[i].n \in Commands
      <3>1. front[c] \in Fronts(used.sessions, Len(taken))
        BY DEF TypeInv, FrontOK
      <3>2. front[c].requests \in Seq([op : Asks, n : 1..Len(taken)])
        BY <3>1 DEF Fronts
      <3> DEFINE R == [op : Asks, n : 1..Len(taken)]
      <3>3. \A i \in DOMAIN front[c].requests : front[c].requests[i] \in R
        <4> HIDE DEF R
        <4>1. front[c].requests \in Seq(R)
          BY <3>2 DEF R
        <4> QED BY <4>1, ElementOfSeq, LenProperties
      <3> QED BY <3>1, <3>3 DEF Fronts, Commands
    <2>4. /\ \A s \in DOMAIN sessions : sessions[s].client \in Clients /\ sessions[s].mode \in Modes
          /\ \A s \in DOMAIN modem : modem[s] \in Modes
      BY DEF TypeInv, AdapterOK
    <2> QED BY <2>2, <2>3, <2>4 DEF TypeOK, TypeInv, AdapterOK, FrontOK
  <1> QED BY <1>1, TypeInit, TypeNext, PTL DEF Spec

-----------------------------------------------------------------------------
(* The bit of the full batch follows the sessions.                         *)

Msg(type, s) == Class("message", type, s)
CallOf(op, s) == Class("call", op, s)
EngineUp == Class("type", "engineUp", 0)
OpenCall == Class("op", "open", 0)
FailedStop == Class("failed", "stopped", 0)

\* Session s is the adapter's, or a call or an answer about it is under way.
Known(s) ==
    \/ s \in DOMAIN sessions
    \/ Some(engq, CallOf("start", s)) \/ Some(engq, CallOf("stop", s))
    \/ Some(msgs, Msg("started", s)) \/ Some(msgs, Msg("stopped", s))

\* The command to start it has not been carried out.
Waiting(s) == Some(msgs, Msg("start", s)) \/ Some(pending, Msg("start", s))

\* A session is started once.
Once(s) ==
    /\ Waiting(s) => ~Known(s)
    /\ Precedes(msgs, Msg("start", s), Msg("start", s))
    /\ Precedes(pending, Msg("start", s), Msg("start", s))
    /\ ~(Some(msgs, Msg("start", s)) /\ Some(pending, Msg("start", s)))
    /\ s > used.sessions => ~Known(s) /\ ~Waiting(s)

\* It is started before it is stopped, and so are the answers.
Ordered(s) ==
    /\ Precedes(engq, CallOf("start", s), CallOf("stop", s))
    /\ Precedes(msgs, Msg("started", s), Msg("stopped", s))
    /\ ~(Some(engq, CallOf("start", s)) /\ Some(msgs, Msg("stopped", s)))

\* Its start and the answer to it are in its mode.
Kept(s) ==
    s \in DOMAIN sessions =>
        /\ \A e \in In(engq) : Of(CallOf("start", s), e) => e.mode = sessions[s].mode
        /\ \A m \in In(msgs) : Of(Msg("started", s), m) => m.mode = sessions[s].mode

\* The adapter will be told that the engine is up; a session is about to be gone.
Recovering == ~up \/ Some(msgs, EngineUp)
Clearing == Some(engq, Class("callMode", "stop", "routine"))
            \/ Some(msgs, Class("mode", "stopped", "routine"))

\* The bit, and what can restore a session it does not know of: a stop that failed
\* as the modem was down, behind which the adapter is told that it is up.
BitFollows ==
    /\ full /\ ~AutoReports(sessions) => Clearing
    /\ ~full /\ AutoReports(sessions) => Recovering
    /\ up => Followed(msgs, FailedStop, EngineUp)
    /\ ~up => Some(engq, OpenCall)

Session1(s) == Once(s) /\ Ordered(s) /\ Kept(s)
FullInv == TypeInv /\ (\A s \in Nat : Session1(s)) /\ BitFollows

\* What the classes are.
LEMMA OfIs ==
  /\ \A t, s, m : Of(Msg(t, s), m) <=> m.type = t /\ m.session = s
  /\ \A t, s, e : Of(CallOf(t, s), e) <=> e.op = t /\ e.session = s
  /\ \A m : Of(EngineUp, m) <=> m.type = "engineUp"
  /\ \A e : Of(OpenCall, e) <=> e.op = "open"
  /\ \A m : Of(FailedStop, m) <=> m.type = "stopped" /\ ~m.ok
  /\ \A t, x, m : Of(Class("mode", t, x), m) <=> m.type = t /\ m.mode = x
  /\ \A t, x, e : Of(Class("callMode", t, x), e) <=> e.op = t /\ e.mode = x
  BY DEF Of, Class, Msg, CallOf, EngineUp, OpenCall, FailedStop

\* The same starts, stops and answers to them in both queues, in the same order.
SameMsgs(q, r) ==
    /\ \A s \in Nat, t \in {"start", "started", "stopped"} :
          Some(r, Msg(t, s)) <=> Some(q, Msg(t, s))
    /\ \A s \in Nat, t, u \in {"start", "started", "stopped"} :
          Precedes(q, Msg(t, s), Msg(u, s)) => Precedes(r, Msg(t, s), Msg(u, s))
    /\ Some(r, Class("mode", "stopped", "routine")) <=> Some(q, Class("mode", "stopped", "routine"))
    /\ \A m \in In(r) : m.type = "started" => m \in In(q)
    /\ Followed(q, FailedStop, EngineUp) => Followed(r, FailedStop, EngineUp)

SameCalls(q, r) ==
    /\ \A s \in Nat, t \in {"start", "stop"} : Some(r, CallOf(t, s)) <=> Some(q, CallOf(t, s))
    /\ \A s \in Nat :
          Precedes(q, CallOf("start", s), CallOf("stop", s)) =>
              Precedes(r, CallOf("start", s), CallOf("stop", s))
    /\ Some(r, Class("callMode", "stop", "routine")) <=>
           Some(q, Class("callMode", "stop", "routine"))
    /\ \A e \in In(r) : e.op = "start" => e \in In(q)

\* Messages of other kinds make no difference.
LEMMA OtherMsgs ==
  ASSUME NEW q, AnySeq(q)
  PROVE  /\ SameMsgs(q, q)
         /\ \A row : AnySeq(row)
                     /\ (\A m \in In(row) : m.type \notin {"start", "started", "stopped"}) =>
               /\ SameMsgs(q, q \o row)
               /\ Some(q, EngineUp) => Some(q \o row, EngineUp)
         /\ q # << >> /\ Head(q).type \notin {"start", "started", "stopped"} =>
               /\ SameMsgs(q, Tail(q))
               /\ Some(q, EngineUp) /\ Head(q).type # "engineUp" => Some(Tail(q), EngineUp)
  <1>1. ASSUME NEW row, AnySeq(row),
               \A m \in In(row) : m.type \notin {"start", "started", "stopped"}
        PROVE  SameMsgs(q, q \o row) /\ (Some(q, EngineUp) => Some(q \o row, EngineUp))
    <2>1. /\ \A s : \A t \in {"start", "started", "stopped"} : ~Some(row, Msg(t, s))
          /\ ~Some(row, Class("mode", "stopped", "routine"))
          /\ ~Some(row, FailedStop)
      BY <1>1, OfIs, InSome
    <2>2. \A s : \A t, u \in {"start", "started", "stopped"} : Precedes(row, Msg(t, s), Msg(u, s))
      BY <2>1 DEF Precedes, Some
    <2> DEFINE r == q \o row
    <2>3. /\ In(r) = In(q) \cup In(row)
          /\ \A c : Some(r, c) <=> Some(q, c) \/ Some(row, c)
          /\ \A a, b : Precedes(q, a, b) /\ Precedes(row, a, b) /\ ~(Some(row, a) /\ Some(q, b)) =>
                           Precedes(r, a, b)
          /\ \A a, b : Followed(q, a, b) /\ ~Some(row, a) => Followed(r, a, b)
      BY <1>1, ConcatSome
    <2> HIDE DEF r
    <2>4. \A m \in In(r) : m.type = "started" => m \in In(q)
      BY <1>1, <2>3
    <2>5. SameMsgs(q, r) /\ (Some(q, EngineUp) => Some(r, EngineUp))
      BY <2>1, <2>2, <2>3, <2>4 DEF SameMsgs
    <2> QED BY <2>5 DEF r
  <1>2. ASSUME q # << >>, Head(q).type \notin {"start", "started", "stopped"}
        PROVE  /\ SameMsgs(q, Tail(q))
               /\ Some(q, EngineUp) /\ Head(q).type # "engineUp" => Some(Tail(q), EngineUp)
    <2> DEFINE r == Tail(q)
               h == Head(q)
    <2>1. /\ In(q) = In(r) \cup {h}
          /\ \A c : Some(q, c) <=> Some(r, c) \/ Of(c, h)
          /\ \A a, b : Precedes(q, a, b) => Precedes(r, a, b)
          /\ \A a, b : Followed(q, a, b) => Followed(r, a, b)
      BY <1>2, TailSome
    <2> HIDE DEF r, h
    <2>2. h.type \notin {"start", "started", "stopped"}
      BY <1>2 DEF h
    <2>3. SameMsgs(q, r) /\ (Some(q, EngineUp) /\ h.type # "engineUp" => Some(r, EngineUp))
      BY <2>1, <2>2, OfIs DEF SameMsgs
    <2> QED BY <2>3 DEF r, h
  <1>3. SameMsgs(q, q)
    BY DEF SameMsgs
  <1> QED BY <1>1, <1>2, <1>3

\* Calls other than of starts and stops change nothing of these.
LEMMA OtherCalls ==
  ASSUME NEW q, AnySeq(q)
  PROVE  /\ SameCalls(q, q)
         /\ \A row : AnySeq(row) /\ (\A e \in In(row) : e.op \notin {"start", "stop"}) =>
               /\ SameCalls(q, q \o row)
               /\ Some(q, OpenCall) => Some(q \o row, OpenCall)
         /\ \A e : e.op \notin {"start", "stop"} =>
               /\ SameCalls(q, Append(q, e))
               /\ Some(q, OpenCall) => Some(Append(q, e), OpenCall)
         /\ q # << >> /\ Head(q).op \notin {"start", "stop"} =>
               /\ SameCalls(q, Tail(q))
               /\ Some(q, OpenCall) /\ Head(q).op # "open" => Some(Tail(q), OpenCall)
  <1>1. ASSUME NEW row, AnySeq(row), \A e \in In(row) : e.op \notin {"start", "stop"}
        PROVE  SameCalls(q, q \o row) /\ (Some(q, OpenCall) => Some(q \o row, OpenCall))
    <2>1. /\ \A s : \A t \in {"start", "stop"} : ~Some(row, CallOf(t, s))
          /\ ~Some(row, Class("callMode", "stop", "routine"))
      BY <1>1, OfIs, InSome
    <2>2. \A s : Precedes(row, CallOf("start", s), CallOf("stop", s))
      BY <2>1 DEF Precedes, Some
    <2> DEFINE r == q \o row
    <2>3. /\ In(r) = In(q) \cup In(row)
          /\ \A c : Some(r, c) <=> Some(q, c) \/ Some(row, c)
          /\ \A a, b : Precedes(q, a, b) /\ Precedes(row, a, b) /\ ~(Some(row, a) /\ Some(q, b)) =>
                           Precedes(r, a, b)
      BY <1>1, ConcatSome
    <2> HIDE DEF r
    <2>4. \A e \in In(r) : e.op = "start" => e \in In(q)
      BY <1>1, <2>3
    <2>5. SameCalls(q, r) /\ (Some(q, OpenCall) => Some(r, OpenCall))
      BY <2>1, <2>2, <2>3, <2>4 DEF SameCalls
    <2> QED BY <2>5 DEF r
  <1>2. ASSUME NEW e, e.op \notin {"start", "stop"}
        PROVE  SameCalls(q, Append(q, e)) /\ (Some(q, OpenCall) => Some(Append(q, e), OpenCall))
    <2> DEFINE r == Append(q, e)
    <2>1. /\ In(r) = In(q) \cup {e}
          /\ \A c : Some(r, c) <=> Some(q, c) \/ Of(c, e)
          /\ \A a, b : Precedes(q, a, b) /\ (Of(a, e) => ~Some(q, b)) => Precedes(r, a, b)
      BY AppendSome
    <2> HIDE DEF r
    <2>2. SameCalls(q, r) /\ (Some(q, OpenCall) => Some(r, OpenCall))
      BY <1>2, <2>1, OfIs DEF SameCalls
    <2> QED BY <2>2 DEF r
  <1>3. ASSUME q # << >>, Head(q).op \notin {"start", "stop"}
        PROVE  /\ SameCalls(q, Tail(q))
               /\ Some(q, OpenCall) /\ Head(q).op # "open" => Some(Tail(q), OpenCall)
    <2> DEFINE r == Tail(q)
               h == Head(q)
    <2>1. /\ In(q) = In(r) \cup {h}
          /\ \A c : Some(q, c) <=> Some(r, c) \/ Of(c, h)
          /\ \A a, b : Precedes(q, a, b) => Precedes(r, a, b)
      BY <1>3, TailSome
    <2> HIDE DEF r, h
    <2>2. h.op \notin {"start", "stop"}
      BY <1>3 DEF h
    <2>3. SameCalls(q, r) /\ (Some(q, OpenCall) /\ h.op # "open" => Some(r, OpenCall))
      BY <2>1, <2>2, OfIs DEF SameCalls
    <2> QED BY <2>3 DEF r, h
  <1>4. SameCalls(q, q)
    BY DEF SameCalls
  <1> QED BY <1>1, <1>2, <1>3, <1>4

\* A step that makes no difference to the sessions, and to the bit.
LEMMA SessionKept ==
  ASSUME NEW s \in Nat, Session1(s), SameMsgs(msgs, msgs'), SameCalls(engq, engq'),
         UNCHANGED <<pending, sessions>>, used'.sessions = used.sessions
  PROVE  Session1(s)'
  <1>1. Known(s)' <=> Known(s)
    BY DEF SameMsgs, SameCalls, Known
  <1>2. Waiting(s)' <=> Waiting(s)
    BY DEF SameMsgs, Waiting
  <1>3. Once(s)'
    BY <1>1, <1>2 DEF SameMsgs, Once, Session1
  <1>4. Ordered(s)'
    BY DEF SameMsgs, SameCalls, Ordered, Session1
  <1>5. Kept(s)'
    BY OfIs DEF SameMsgs, SameCalls, Kept, Session1
  <1> QED BY <1>3, <1>4, <1>5 DEF Session1

\* What leaves the starts and the stops alone leaves the bit right.
LEMMA BitKept ==
  ASSUME BitFollows, SameMsgs(msgs, msgs'), SameCalls(engq, engq'),
         UNCHANGED <<sessions, full, up>>,
         Some(msgs, EngineUp) => Some(msgs', EngineUp),
         Some(engq, OpenCall) => Some(engq', OpenCall)
  PROVE  BitFollows'
  <1>1. Clearing' <=> Clearing
    BY DEF SameMsgs, SameCalls, Clearing
  <1>2. Recovering => Recovering'
    BY DEF Recovering
  <1>3. Followed(msgs, FailedStop, EngineUp) => Followed(msgs', FailedStop, EngineUp)
    BY DEF SameMsgs
  <1>4. AutoReports(sessions)' <=> AutoReports(sessions)
    BY DEF AutoReports
  <1> QED BY <1>1, <1>2, <1>3, <1>4 DEF BitFollows

\* The facts of FullInv that every step starts from.
LEMMA FullFacts ==
  ASSUME FullInv
  PROVE  /\ TypeInv /\ BitFollows /\ AnySeq(msgs) /\ AnySeq(engq) /\ AnySeq(pending)
         /\ \A s \in Nat : Session1(s)
         /\ \A m \in In(msgs) : MsgOK(m, used.sessions, Len(taken))
         /\ \A m \in In(pending) : m.type \in Asks
         /\ \A e \in In(engq) : CallOK(e, used.sessions, Len(taken))
         /\ DOMAIN sessions \subseteq 1..used.sessions /\ used.sessions \in Nat
         /\ full \in BOOLEAN /\ up \in BOOLEAN
  BY DEF FullInv, TypeInv, QueuesOK, AdapterOK, FrontOK

\* The sessions and the bit: the initial state.
LEMMA FullInit == Init => FullInv
  <1> SUFFICES ASSUME Init PROVE FullInv
    OBVIOUS
  <1> USE DEF Init
  <1>1. TypeInv
    BY TypeInit
  <1>2. /\ \A c : Some(msgs, c) <=> Of(c, [type |-> "addClient", client |-> 1])
        /\ \A a, b : Precedes(msgs, a, b)
        /\ \A c : Some(engq, c) <=> Of(c, [op |-> "open"])
        /\ \A a, b : Precedes(engq, a, b)
        /\ \A c : ~Some(pending, c)
        /\ \A a, b : Precedes(pending, a, b)
    BY ShortSome
  <1>3. /\ \A t, s : t # "addClient" => ~Some(msgs, Msg(t, s))
        /\ \A t, s : t # "open" => ~Some(engq, CallOf(t, s))
        /\ Some(engq, OpenCall)
    BY <1>2, OfIs
  <1>4. DOMAIN sessions = {}
    OBVIOUS
  <1>5. \A s \in Nat : Session1(s)
    BY <1>2, <1>3, <1>4 DEF Session1, Once, Ordered, Kept, Known, Waiting
  <1>6. BitFollows
    BY <1>3, <1>4 DEF BitFollows, AutoReports
  <1> QED BY <1>1, <1>5, <1>6 DEF FullInv

\* A new session: its number is above all there are.
LEMMA FullStartNew ==
  ASSUME FullInv, NEW mode, Start(mode), StartNew(mode)
  PROVE  (\A s \in Nat : Session1(s)') /\ BitFollows'
  <1> DEFINE n == used.sessions + 1
             ops == <<"start">>
  <1>0. /\ AnySeq(msgs) /\ \A s \in Nat : Session1(s)
        /\ BitFollows /\ used.sessions \in Nat /\ TypeInv
    BY FullFacts
  <1>1. /\ used' = [used EXCEPT !.sessions = n] /\ Ask(api, ops, mode)
        /\ front' = [front EXCEPT ![api].state = "started", ![api].session = n,
                              ![api].requests = @ \o Requests(ops)]
        /\ UNCHANGED <<engq, adapter, modem, up, api>>
    BY DEF Start, StartNew
  <1>2. used'.sessions = n /\ front'[api].session = n
    BY <1>0, <1>1 DEF TypeInv, FrontOK, Fronts
  <1>3. AnySeq(ops) /\ AnySeq(taken) /\ Len(ops) = 1 /\ ops[1] = "start"
    BY <1>0, ShortSome DEF TypeInv, FrontOK, AnySeq
  <1>4. PICK row :
           /\ AnySeq(row) /\ msgs' = msgs \o row
           /\ Len(row) = Len(ops)
           /\ \A i \in 1..Len(ops) :
                row[i] = [type |-> ops[i], client |-> api, session |-> front'[api].session,
                          n |-> Len(taken) + i, mode |-> mode]
           /\ Len(taken) \in Nat /\ Len(taken') = Len(taken) + Len(ops)
           /\ \A i \in 1..Len(taken) : taken'[i] = taken[i]
           /\ \A i \in 1..Len(ops) : taken'[Len(taken) + i] = 0
    BY <1>1, <1>3, AskRow
  <1>5. Len(row) = 1 /\ row[1].type = "start" /\ row[1].session = n
    BY <1>2, <1>3, <1>4
  <1>6. /\ \A c : Some(row, c) <=> Of(c, row[1])
        /\ \A a, b : Precedes(row, a, b)
        /\ In(row) = {row[1]}
    BY <1>5 DEF Some, Precedes, In
  <1>7. /\ In(msgs') = In(msgs) \cup {row[1]}
        /\ \A c : Some(msgs', c) <=> Some(msgs, c) \/ Some(row, c)
        /\ \A a, b : Precedes(msgs, a, b) /\ Precedes(row, a, b)
                     /\ ~(Some(row, a) /\ Some(msgs, b)) => Precedes(msgs', a, b)
        /\ \A a, b : Followed(msgs, a, b) /\ ~Some(row, a) => Followed(msgs', a, b)
    BY <1>0, <1>4, <1>6, ConcatSome
  <1>8. /\ \A s : Of(Msg("start", s), row[1]) <=> s = n
        /\ \A s : \A t \in {"started", "stopped"} : ~Of(Msg(t, s), row[1])
        /\ ~Of(FailedStop, row[1]) /\ ~Of(Class("mode", "stopped", "routine"), row[1])
    BY <1>5, OfIs
  <1>9. ASSUME NEW s \in Nat PROVE Session1(s)'
    <2>1. Session1(s)
      BY <1>0
    <2>2. Known(s)' <=> Known(s)
      BY <1>1, <1>6, <1>7, <1>8 DEF Known, adapter
    <2>3. Waiting(s)' <=> (Waiting(s) \/ s = n)
      BY <1>1, <1>6, <1>7, <1>8 DEF Waiting, adapter
    <2>4. s = n => ~Known(s) /\ ~Waiting(s)
      BY <1>0, <2>1 DEF Session1, Once
    <2>5. Once(s)'
      BY <1>0, <1>1, <1>2, <1>6, <1>7, <1>8, <2>1, <2>2, <2>3, <2>4
      DEF Session1, Once, Waiting, adapter
    <2>6. Ordered(s)'
      BY <1>1, <1>6, <1>7, <1>8, <2>1 DEF Session1, Ordered
    <2>7. Kept(s)'
      BY <1>1, <1>7, <1>8, <2>1 DEF Session1, Kept, adapter
    <2> QED BY <2>5, <2>6, <2>7 DEF Session1
  <1>10. BitFollows'
    <2>1. Recovering => Recovering'
      BY <1>1, <1>7 DEF Recovering
    <2>2. Clearing => Clearing'
      BY <1>1, <1>7 DEF Clearing
    <2>3. Followed(msgs, FailedStop, EngineUp) => Followed(msgs', FailedStop, EngineUp)
      BY <1>6, <1>7, <1>8
    <2> QED BY <1>0, <1>1, <2>1, <2>2, <2>3 DEF BitFollows, AutoReports, adapter
  <1> QED BY <1>9, <1>10

\* The framework and the thread of flush.
LEMMA FullFramework ==
  ASSUME FullInv, Framework \/ \E c \in Clients : EmptyReport(c)
  PROVE  (\A s \in Nat : Session1(s)') /\ BitFollows'
  <1>0. /\ AnySeq(msgs) /\ AnySeq(engq) /\ \A s \in Nat : Session1(s)
        /\ BitFollows /\ TypeInv
    BY FullFacts
  <1>1. ASSUME SameMsgs(msgs, msgs'), SameCalls(engq, engq'),
               UNCHANGED <<pending, sessions, full, up, engq>>, used'.sessions = used.sessions,
               Some(msgs, EngineUp) => Some(msgs', EngineUp)
        PROVE  (\A s \in Nat : Session1(s)') /\ BitFollows'
    <2>1. \A s \in Nat : Session1(s)'
      BY <1>0, <1>1, SessionKept
    <2>2. BitFollows'
      BY <1>0, <1>1, BitKept
    <2> QED BY <2>1, <2>2
  <1>2. SameMsgs(msgs, msgs) /\ SameCalls(engq, engq)
    BY <1>0, OtherMsgs, OtherCalls
  <1>3. CASE Initialize
    <2> DEFINE r == [type |-> "removeClient", client |-> api]
               a == [type |-> "addClient", client |-> api + 1]
               row == <<r, a>>
    <2>1. msgs' = msgs \o row /\ row = Append(<<r>>, a)
          /\ UNCHANGED <<pending, sessions, full, up, engq, used>>
      BY <1>3 DEF Initialize, adapter
    <2>2. AnySeq(<<r>>) /\ In(<<r>>) = {r}
      BY ShortSome
    <2>3. AnySeq(row) /\ In(row) = {r, a}
      BY <2>1, <2>2, AppendSome
    <2>4. \A m \in In(row) : m.type \notin {"start", "started", "stopped"}
      BY <2>3
    <2> HIDE DEF row
    <2>5. SameMsgs(msgs, msgs') /\ (Some(msgs, EngineUp) => Some(msgs', EngineUp))
      BY <1>0, <2>1, <2>3, <2>4, OtherMsgs
    <2> QED BY <1>1, <1>2, <2>1, <2>5
  <1>4. ASSUME NEW mode \in Modes, Start(mode)
        PROVE  (\A s \in Nat : Session1(s)') /\ BitFollows'
    <2>1. CASE StartNew(mode)
      BY <1>4, <2>1, FullStartNew
    <2>2. CASE StartAgain
      <3>1. UNCHANGED <<msgs, pending, sessions, full, up, engq, used>>
        BY <1>4, <2>2 DEF Start, StartAgain, adapter
      <3> QED BY <1>1, <1>2, <3>1
    <2> QED BY <1>4, <2>1, <2>2 DEF Start
  <1>5. ASSUME NEW ops, ops \in Seq({"get", "stop"}), Ask(api, ops, "none"),
               UNCHANGED <<engq, adapter, up, used>>
        PROVE  (\A s \in Nat : Session1(s)') /\ BitFollows'
    <2>1. AnySeq(ops) /\ AnySeq(taken)
      BY <1>0, <1>5 DEF TypeInv, FrontOK, AnySeq
    <2>2. PICK row :
             /\ AnySeq(row) /\ msgs' = msgs \o row
             /\ Len(row) = Len(ops)
             /\ \A i \in 1..Len(ops) :
                  row[i] = [type |-> ops[i], client |-> api, session |-> front'[api].session,
                            n |-> Len(taken) + i, mode |-> "none"]
             /\ Len(taken) \in Nat /\ Len(taken') = Len(taken) + Len(ops)
             /\ \A i \in 1..Len(taken) : taken'[i] = taken[i]
             /\ \A i \in 1..Len(ops) : taken'[Len(taken) + i] = 0
      BY <1>5, <2>1, AskRow
    <2>3. \A i \in 1..Len(ops) : ops[i] \in {"get", "stop"}
      BY <1>5, ElementOfSeq
    <2>4. \A m \in In(row) : m.type \notin {"start", "started", "stopped"}
      <3>1. ASSUME NEW i \in 1..Len(row) PROVE row[i].type = ops[i]
        <4>1. row[i] = [type |-> ops[i], client |-> api, session |-> front'[api].session,
                        n |-> Len(taken) + i, mode |-> "none"]
          BY <2>2, <3>1
        <4> QED BY <4>1
      <3>2. \A i \in 1..Len(row) : row[i].type \in {"get", "stop"}
        BY <2>2, <2>3, <3>1
      <3> QED BY <3>2 DEF In
    <2>5. SameMsgs(msgs, msgs') /\ (Some(msgs, EngineUp) => Some(msgs', EngineUp))
      BY <1>0, <2>2, <2>4, OtherMsgs
    <2> QED BY <1>1, <1>2, <1>5, <2>5 DEF adapter
  <1>6. CASE Stop
    <2> DEFINE ops == IF front[api].session = 0 THEN << >> ELSE <<"get", "stop">>
    <2>1. << >> \in Seq({"get", "stop"}) /\ <<"get", "stop">> \in Seq({"get", "stop"})
      OBVIOUS
    <2>2. ops \in Seq({"get", "stop"})
      BY <2>1
    <2>3. Ask(api, ops, "none") /\ UNCHANGED <<engq, adapter, up, used>>
      BY <1>6 DEF Stop
    <2> HIDE DEF ops
    <2> QED BY <1>5, <2>2, <2>3
  <1>7. CASE Flush
    <2> DEFINE ops == IF front[api].session = 0 THEN << >> ELSE <<"get">>
    <2>1. << >> \in Seq({"get", "stop"}) /\ <<"get">> \in Seq({"get", "stop"})
      OBVIOUS
    <2>2. ops \in Seq({"get", "stop"})
      BY <2>1
    <2>3. Ask(api, ops, "none") /\ UNCHANGED <<engq, adapter, up, used>>
      BY <1>7 DEF Flush
    <2> HIDE DEF ops
    <2> QED BY <1>5, <2>2, <2>3
  <1>8. ASSUME NEW c \in Clients, EmptyReport(c)
        PROVE  (\A s \in Nat : Session1(s)') /\ BitFollows'
    <2>1. UNCHANGED <<msgs, pending, sessions, full, up, engq, used>>
      BY <1>8 DEF EmptyReport, adapter
    <2> QED BY <1>1, <1>2, <2>1
  <1> QED BY <1>3, <1>4, <1>6, <1>7, <1>8 DEF Framework

\* A message leaves the queue.
LEMMA ReceiveSome ==
  ASSUME AnySeq(msgs), NEW type, Receive(type)
  PROVE  /\ msgs # << >> /\ msgs' = Tail(msgs) /\ Head(msgs).type = type /\ AnySeq(msgs')
         /\ In(msgs) = In(msgs') \cup {Head(msgs)}
         /\ \A c : Some(msgs, c) <=> Some(msgs', c) \/ Of(c, Head(msgs))
         /\ \A a, b : Precedes(msgs, a, b) => Precedes(msgs', a, b)
         /\ \A a, b : Precedes(msgs, a, b) /\ Of(b, Head(msgs)) => ~Some(msgs', a)
         /\ \A a, b : Followed(msgs, a, b) => Followed(msgs', a, b)
         /\ \A a, b : Followed(msgs, a, b) /\ Of(a, Head(msgs)) => Some(msgs', b)
  <1>1. msgs # << >> /\ msgs' = Tail(msgs) /\ Head(msgs).type = type
    BY DEF Receive
  <1> QED BY <1>1, TailSome

\* The steps of the adapter's thread that are about neither a session nor the bit.
LEMMA FullOther ==
  ASSUME FullInv, ProcGet \/ ProcGot \/ ProcLocations
  PROVE  (\A s \in Nat : Session1(s)') /\ BitFollows'
  <1>0. /\ AnySeq(msgs) /\ AnySeq(engq) /\ \A s \in Nat : Session1(s)
        /\ BitFollows
    BY FullFacts
  <1>1. PICK type \in {"get", "got", "locations"} :
          /\ Receive(type)
          /\ UNCHANGED <<adapter, up, used>>
          /\ \/ engq' = engq
             \/ \E e : e.op = "get" /\ engq' = Append(engq, e)
    <2>1. Call("get", Head(msgs), "none").op = "get"
      BY DEF Call
    <2> QED BY <2>1 DEF ProcGet, ProcGot, ProcLocations
  <1>2. msgs # << >> /\ msgs' = Tail(msgs) /\ Head(msgs).type = type
    BY <1>0, <1>1, ReceiveSome
  <1>3. SameMsgs(msgs, msgs') /\ (Some(msgs, EngineUp) => Some(msgs', EngineUp))
    BY <1>0, <1>1, <1>2, OtherMsgs
  <1>4. SameCalls(engq, engq') /\ (Some(engq, OpenCall) => Some(engq', OpenCall))
    <2>1. CASE engq' = engq
      BY <1>0, <2>1, OtherCalls
    <2>2. ASSUME NEW e, e.op = "get", engq' = Append(engq, e)
          PROVE  SameCalls(engq, engq') /\ (Some(engq, OpenCall) => Some(engq', OpenCall))
      BY <1>0, <2>2, OtherCalls
    <2> QED BY <1>1, <2>1, <2>2
  <1>5. \A s \in Nat : Session1(s)'
    BY <1>0, <1>1, <1>3, <1>4, SessionKept DEF adapter
  <1>6. BitFollows'
    BY <1>0, <1>1, <1>3, <1>4, BitKept DEF adapter
  <1> QED BY <1>5, <1>6

\* A client comes, or goes with its sessions.
LEMMA FullClients ==
  ASSUME FullInv, ProcAddClient \/ ProcRemoveClient
  PROVE  (\A s \in Nat : Session1(s)') /\ BitFollows'
  <1>0. /\ AnySeq(msgs) /\ AnySeq(engq) /\ \A s \in Nat : Session1(s)
        /\ BitFollows /\ TypeInv
    BY FullFacts
  <1>1. CASE ProcAddClient
    <2>1. /\ Receive("addClient") /\ full' = AutoReports(sessions)
          /\ UNCHANGED <<engq, pending, sessions, up, used>>
      BY <1>1 DEF ProcAddClient
    <2>2. msgs # << >> /\ msgs' = Tail(msgs) /\ Head(msgs).type = "addClient"
      BY <1>0, <2>1, ReceiveSome
    <2>3. SameMsgs(msgs, msgs') /\ SameCalls(engq, engq')
      BY <1>0, <2>1, <2>2, OtherMsgs, OtherCalls
    <2>4. \A s \in Nat : Session1(s)'
      BY <1>0, <2>1, <2>3, SessionKept
    <2>5. BitFollows'
      BY <1>0, <2>1, <2>3 DEF BitFollows, SameMsgs, AutoReports
    <2> QED BY <2>4, <2>5
  <1>2. CASE ProcRemoveClient
    <2> DEFINE c == Head(msgs).client
               mine == {s \in DOMAIN sessions : sessions[s].client = c}
               left == Restrict(sessions, DOMAIN sessions \ mine)
               calls == {Call("stop", [client |-> c, session |-> s, n |-> 0], sessions[s].mode) :
                            s \in mine}
               row == SetToSeq(calls)
    <2>1. /\ Receive("removeClient") /\ sessions' = left
          /\ full' = AutoReports(left) /\ engq' = engq \o row
          /\ UNCHANGED <<pending, up, used>>
      BY <1>2 DEF ProcRemoveClient
    <2>2. msgs # << >> /\ msgs' = Tail(msgs) /\ Head(msgs).type = "removeClient"
      BY <1>0, <2>1, ReceiveSome
    <2>3. SameMsgs(msgs, msgs')
      BY <1>0, <2>2, OtherMsgs
    <2>4. AnySeq(row) /\ In(row) = calls
      BY <1>0, StopRow
    <2>5. /\ DOMAIN left = DOMAIN sessions \ mine
          /\ \A s \in DOMAIN left : left[s] = sessions[s]
      BY DEF Restrict
    <2>6. \A e \in calls : e.op = "stop" /\ e.session \in DOMAIN sessions
      BY DEF Call
    <2> HIDE DEF c, mine, left, calls, row
    <2>7. /\ In(engq') = In(engq) \cup In(row)
          /\ \A x : Some(engq', x) <=> Some(engq, x) \/ Some(row, x)
          /\ \A a, b : Precedes(engq, a, b) /\ Precedes(row, a, b)
                       /\ ~(Some(row, a) /\ Some(engq, b)) => Precedes(engq', a, b)
      BY <1>0, <2>1, <2>4, ConcatSome
    <2>8. /\ \A s : ~Some(row, CallOf("start", s))
          /\ \A s : Some(row, CallOf("stop", s)) => s \in DOMAIN sessions
          /\ \A s : Precedes(row, CallOf("start", s), CallOf("stop", s))
      <3>1. /\ \A s : ~Some(row, CallOf("start", s))
            /\ \A s : Some(row, CallOf("stop", s)) => s \in DOMAIN sessions
        BY <2>4, <2>6, OfIs, InSome
      <3> QED BY <3>1 DEF Precedes, Some
    <2>9. ASSUME NEW s \in Nat PROVE Session1(s)'
      <3>1. Session1(s)
        BY <1>0
      <3>2. Known(s)' => Known(s)
        BY <2>1, <2>3, <2>5, <2>7, <2>8 DEF Known, SameMsgs
      <3>3. Waiting(s)' <=> Waiting(s)
        BY <2>1, <2>3 DEF Waiting, SameMsgs
      <3>4. Once(s)'
        BY <2>1, <2>3, <3>1, <3>2, <3>3 DEF Once, SameMsgs, Session1
      <3>5. Ordered(s)'
        BY <2>3, <2>7, <2>8, <3>1 DEF Ordered, SameMsgs, Session1
      <3>6. Kept(s)'
        BY <2>1, <2>3, <2>4, <2>5, <2>6, <2>7, <3>1, OfIs DEF Kept, SameMsgs, Session1
      <3> QED BY <3>4, <3>5, <3>6 DEF Session1
    <2>10. BitFollows'
      <3>1. full' = AutoReports(sessions')
        BY <2>1
      <3>2. Some(engq, OpenCall) => Some(engq', OpenCall)
        BY <2>7
      <3> QED BY <1>0, <2>1, <2>3, <3>1, <3>2 DEF BitFollows, SameMsgs
    <2> QED BY <2>9, <2>10
  <1> QED BY <1>1, <1>2

\* A command is held.
LEMMA FullHold ==
  ASSUME FullInv, NEW type \in {"start", "stop", "get"}, Hold(type)
  PROVE  (\A s \in Nat : Session1(s)') /\ BitFollows'
  <1> DEFINE a == Head(msgs)
  <1>0. /\ AnySeq(msgs) /\ AnySeq(engq) /\ AnySeq(pending) /\ \A s \in Nat : Session1(s)
        /\ BitFollows
    BY FullFacts
  <1>1. Receive(type) /\ pending' = Append(pending, a)
        /\ UNCHANGED <<engq, sessions, full, up, used>>
    BY DEF Hold
  <1>2. /\ a.type = type
        /\ In(msgs) = In(msgs') \cup {a}
        /\ \A c : Some(msgs, c) <=> Some(msgs', c) \/ Of(c, a)
        /\ \A x, y : Precedes(msgs, x, y) => Precedes(msgs', x, y)
        /\ \A x, y : Precedes(msgs, x, y) /\ Of(y, a) => ~Some(msgs', x)
        /\ \A x, y : Followed(msgs, x, y) => Followed(msgs', x, y)
    BY <1>0, <1>1, ReceiveSome
  <1>3. /\ \A c : Some(pending', c) <=> Some(pending, c) \/ Of(c, a)
        /\ \A x, y : Precedes(pending, x, y) /\ (Of(x, a) => ~Some(pending, y)) =>
                         Precedes(pending', x, y)
    BY <1>0, <1>1, AppendSome
  <1> HIDE DEF a
  <1>4. /\ \A s : \A t \in {"started", "stopped"} : ~Of(Msg(t, s), a)
        /\ ~Of(EngineUp, a) /\ ~Of(Class("mode", "stopped", "routine"), a)
    BY <1>2, OfIs
  <1>5. ASSUME NEW s \in Nat PROVE Session1(s)'
    <2>1. Session1(s)
      BY <1>0
    <2>2. Known(s)' <=> Known(s)
      BY <1>1, <1>2, <1>4 DEF Known
    <2>3. Waiting(s)' <=> Waiting(s)
      BY <1>2, <1>3 DEF Waiting
    <2>4. Once(s)'
      BY <1>1, <1>2, <1>3, <2>1, <2>2, <2>3 DEF Once, Session1
    <2>5. Ordered(s)'
      BY <1>1, <1>2, <2>1 DEF Ordered, Session1
    <2>6. Kept(s)'
      BY <1>1, <1>2, <2>1 DEF Kept, Session1
    <2> QED BY <2>4, <2>5, <2>6 DEF Session1
  <1>6. BitFollows'
    <2>1. Recovering => Recovering'
      BY <1>1, <1>2, <1>4 DEF Recovering
    <2>2. Clearing => Clearing'
      BY <1>1, <1>2, <1>4 DEF Clearing
    <2> QED BY <1>0, <1>1, <1>2, <2>1, <2>2 DEF BitFollows, AutoReports
  <1> QED BY <1>5, <1>6

\* A start is carried out: the session was not known, and its mode is that of the call.
LEMMA FullStart ==
  ASSUME FullInv, ProcStart
  PROVE  (\A s \in Nat : Session1(s)') /\ BitFollows'
  <1> DEFINE a == Head(msgs)
             e == Call("start", a, a.mode)
  <1>0. /\ AnySeq(msgs) /\ AnySeq(engq) /\ \A s \in Nat : Session1(s)
        /\ BitFollows /\ used.sessions \in Nat /\ full \in BOOLEAN
        /\ \A m \in In(msgs) : MsgOK(m, used.sessions, Len(taken))
    BY FullFacts
  <1>1. Receive("start") /\ UNCHANGED <<pending, up, used>>
    BY DEF ProcStart
  <1>2. /\ a.type = "start"
        /\ In(msgs) = In(msgs') \cup {a}
        /\ \A c : Some(msgs, c) <=> Some(msgs', c) \/ Of(c, a)
        /\ \A x, y : Precedes(msgs, x, y) => Precedes(msgs', x, y)
        /\ \A x, y : Precedes(msgs, x, y) /\ Of(y, a) => ~Some(msgs', x)
        /\ \A x, y : Followed(msgs, x, y) => Followed(msgs', x, y)
    BY <1>0, <1>1, ReceiveSome
  <1>3. a.session \in 1..used.sessions
    BY <1>0, <1>2 DEF MsgOK, Asks
  <1>4. e.op = "start" /\ e.session = a.session /\ e.mode = a.mode
    BY DEF Call
  <1>5. \/ /\ engq' = Append(engq, e)
           /\ full' = (full \/ (a.mode = "routine" /\ ~AutoReports(sessions)))
           /\ sessions' = Extend(sessions, a.session, Session(a.client, a.mode))
        \/ UNCHANGED <<full, sessions, engq>>
    BY DEF ProcStart
  <1> HIDE DEF a, e
  <1>6. /\ \A s : \A t \in {"started", "stopped"} : ~Of(Msg(t, s), a)
        /\ \A s : Of(Msg("start", s), a) <=> s = a.session
        /\ ~Of(EngineUp, a) /\ ~Of(Class("mode", "stopped", "routine"), a)
    BY <1>2, OfIs
  <1>7. Session1(a.session) /\ a.session \in Nat
    BY <1>0, <1>3
  <1>8. Waiting(a.session) /\ ~Known(a.session) /\ ~Some(msgs', Msg("start", a.session))
        /\ ~Some(pending, Msg("start", a.session))
    BY <1>2, <1>6, <1>7 DEF Waiting, Session1, Once
  <1>9. CASE UNCHANGED <<full, sessions, engq>>
    <2>1. ASSUME NEW s \in Nat PROVE Session1(s)'
      <3>1. Session1(s)
        BY <1>0
      <3>2. Known(s)' <=> Known(s)
        BY <1>2, <1>6, <1>9 DEF Known
      <3>3. Waiting(s)' => Waiting(s)
        BY <1>1, <1>2 DEF Waiting
      <3>4. Once(s)'
        BY <1>1, <1>2, <3>1, <3>2, <3>3 DEF Once, Session1
      <3>5. Ordered(s)'
        BY <1>2, <1>9, <3>1 DEF Ordered, Session1
      <3>6. Kept(s)'
        BY <1>2, <1>9, <3>1 DEF Kept, Session1
      <3> QED BY <3>4, <3>5, <3>6 DEF Session1
    <2>2. BitFollows'
      <3>1. Recovering => Recovering'
        BY <1>1, <1>2, <1>6 DEF Recovering
      <3>2. Clearing => Clearing'
        BY <1>2, <1>6, <1>9 DEF Clearing
      <3> QED BY <1>0, <1>1, <1>2, <1>9, <3>1, <3>2 DEF BitFollows, AutoReports
    <2> QED BY <2>1, <2>2
  <1>10. CASE /\ engq' = Append(engq, e)
              /\ full' = (full \/ (a.mode = "routine" /\ ~AutoReports(sessions)))
              /\ sessions' = Extend(sessions, a.session, Session(a.client, a.mode))
    <2>1. /\ In(engq') = In(engq) \cup {e}
          /\ \A c : Some(engq', c) <=> Some(engq, c) \/ Of(c, e)
          /\ \A x, y : Precedes(engq, x, y) /\ (Of(x, e) => ~Some(engq, y)) => Precedes(engq', x, y)
      BY <1>0, <1>10, AppendSome
    <2>2. /\ \A s : Of(CallOf("start", s), e) <=> s = a.session
          /\ \A s : ~Of(CallOf("stop", s), e)
      BY <1>4, OfIs
    <2>3. /\ DOMAIN sessions' = DOMAIN sessions \cup {a.session}
          /\ a.session \notin DOMAIN sessions
          /\ \A s \in DOMAIN sessions : sessions'[s] = sessions[s]
          /\ sessions'[a.session].mode = a.mode
      BY <1>8, <1>10 DEF Extend, Session, Known
    <2>4. ASSUME NEW s \in Nat PROVE Session1(s)'
      <3>1. Session1(s)
        BY <1>0
      <3>2. Known(s)' <=> (Known(s) \/ s = a.session)
        BY <1>2, <1>6, <2>1, <2>2, <2>3 DEF Known
      <3>3. Waiting(s)' => Waiting(s) /\ s # a.session
        BY <1>1, <1>2, <1>8 DEF Waiting
      <3>4. Once(s)'
        <4>1. Waiting(s)' => ~Known(s)'
          BY <3>1, <3>2, <3>3 DEF Once, Session1
        <4>2. Precedes(msgs', Msg("start", s), Msg("start", s))
          BY <1>2, <3>1 DEF Once, Session1
        <4>3. s > used.sessions => ~Known(s)' /\ ~Waiting(s)'
          BY <1>0, <1>3, <3>1, <3>2, <3>3 DEF Once, Session1
        <4> QED BY <1>1, <1>2, <3>1, <4>1, <4>2, <4>3 DEF Once, Session1
      <3>5. Ordered(s)'
        BY <1>2, <1>8, <2>1, <2>2, <3>1 DEF Ordered, Session1, Known
      <3>6. Kept(s)'
        <4>1. CASE s = a.session
          <5>1. \A m \in In(msgs') : Of(Msg("started", s), m) => FALSE
            BY <1>2, <1>8, <4>1, InSome DEF Known
          <5>2. \A d \in In(engq) : Of(CallOf("start", s), d) => FALSE
            BY <1>8, <4>1, InSome DEF Known
          <5> QED BY <1>4, <2>1, <2>3, <4>1, <5>1, <5>2 DEF Kept
        <4>2. CASE s # a.session
          BY <1>2, <2>1, <2>2, <2>3, <3>1, <4>2 DEF Kept, Session1
        <4> QED BY <4>1, <4>2
      <3> QED BY <3>4, <3>5, <3>6 DEF Session1
    <2>5. BitFollows'
      <3>1. Recovering => Recovering'
        BY <1>1, <1>2, <1>6 DEF Recovering
      <3>2. Clearing => Clearing'
        BY <1>2, <1>6, <2>1 DEF Clearing
      <3>3. AutoReports(sessions') <=> AutoReports(sessions) \/ a.mode = "routine"
        BY <2>3 DEF AutoReports
      <3>4. Some(engq, OpenCall) => Some(engq', OpenCall)
        BY <2>1
      <3>5. full' /\ ~AutoReports(sessions') => Clearing'
        BY <1>0, <1>10, <3>2, <3>3 DEF BitFollows
      <3>6. ~full' /\ AutoReports(sessions') => Recovering'
        BY <1>0, <1>10, <3>1, <3>3 DEF BitFollows
      <3> QED BY <1>0, <1>1, <1>2, <3>4, <3>5, <3>6 DEF BitFollows
    <2> QED BY <2>4, <2>5
  <1> QED BY <1>5, <1>9, <1>10

\* A start is answered: one that failed takes a session of its own mode away.
LEMMA FullStarted ==
  ASSUME FullInv, ProcStarted
  PROVE  (\A s \in Nat : Session1(s)') /\ BitFollows'
  <1> DEFINE a == Head(msgs)
  <1>0. /\ AnySeq(msgs) /\ AnySeq(engq) /\ \A s \in Nat : Session1(s)
        /\ BitFollows /\ used.sessions \in Nat /\ full \in BOOLEAN
        /\ \A m \in In(msgs) : MsgOK(m, used.sessions, Len(taken))
    BY FullFacts
  <1>1. /\ Receive("started") /\ UNCHANGED <<engq, pending, up, used>>
        /\ sessions' = (IF a.ok THEN sessions ELSE Without(sessions, a.session))
        /\ full' = (IF a.ok THEN full ELSE StillFull(sessions', a.mode))
    BY DEF ProcStarted
  <1>2. /\ a.type = "started"
        /\ In(msgs) = In(msgs') \cup {a}
        /\ \A c : Some(msgs, c) <=> Some(msgs', c) \/ Of(c, a)
        /\ \A x, y : Precedes(msgs, x, y) => Precedes(msgs', x, y)
        /\ \A x, y : Followed(msgs, x, y) => Followed(msgs', x, y)
    BY <1>0, <1>1, ReceiveSome
  <1>3. a.session \in 1..used.sessions
    BY <1>0, <1>2 DEF MsgOK, Answers
  <1> HIDE DEF a
  <1>4. /\ \A s : \A t \in {"start", "stopped"} : ~Of(Msg(t, s), a)
        /\ ~Of(EngineUp, a) /\ ~Of(Class("mode", "stopped", "routine"), a)
        /\ Of(Msg("started", a.session), a)
    BY <1>2, OfIs
  <1>5. /\ DOMAIN sessions' \subseteq DOMAIN sessions
        /\ \A s \in DOMAIN sessions : s # a.session \/ a.ok => s \in DOMAIN sessions'
        /\ \A s \in DOMAIN sessions' : sessions'[s] = sessions[s]
    BY <1>1 DEF Without, Restrict
  <1>6. ASSUME NEW s \in Nat PROVE Session1(s)'
    <2>1. Session1(s)
      BY <1>0
    <2>2. Known(s)' => Known(s)
      BY <1>1, <1>2, <1>4, <1>5 DEF Known
    <2>3. Waiting(s)' <=> Waiting(s)
      BY <1>1, <1>2, <1>4 DEF Waiting
    <2>4. Once(s)'
      BY <1>1, <1>2, <2>1, <2>2, <2>3 DEF Once, Session1
    <2>5. Ordered(s)'
      BY <1>1, <1>2, <2>1 DEF Ordered, Session1
    <2>6. Kept(s)'
      BY <1>1, <1>2, <1>5, <2>1 DEF Kept, Session1
    <2> QED BY <2>4, <2>5, <2>6 DEF Session1
  <1>7. BitFollows'
    <2>1. Recovering => Recovering'
      BY <1>1, <1>2, <1>4 DEF Recovering
    <2>2. Clearing => Clearing'
      BY <1>1, <1>2, <1>4 DEF Clearing
    <2>3. a.session \in DOMAIN sessions => a.mode = sessions[a.session].mode
      BY <1>0, <1>2, <1>3, <1>4 DEF Session1, Kept
    <2>4. ~a.ok /\ AutoReports(sessions) /\ ~AutoReports(sessions') => a.mode = "routine"
      BY <1>5, <2>3 DEF AutoReports
    <2>5. AutoReports(sessions') => AutoReports(sessions)
      BY <1>5 DEF AutoReports
    <2>6. full' /\ ~AutoReports(sessions') => Clearing'
      <3>1. CASE a.ok
        BY <1>0, <1>1, <2>2, <3>1 DEF BitFollows
      <3>2. CASE ~a.ok
        BY <1>0, <1>1, <2>2, <2>4, <3>2 DEF BitFollows, StillFull
      <3> QED BY <3>1, <3>2
    <2>7. ~full' /\ AutoReports(sessions') => Recovering'
      BY <1>0, <1>1, <2>1, <2>5 DEF BitFollows, StillFull
    <2> QED BY <1>0, <1>1, <1>2, <2>6, <2>7 DEF BitFollows
  <1> QED BY <1>6, <1>7

\* A stop is carried out: the call is in the mode of the session that is gone.
LEMMA FullStop ==
  ASSUME FullInv, ProcStop
  PROVE  (\A s \in Nat : Session1(s)') /\ BitFollows'
  <1> DEFINE a == Head(msgs)
             e == Call("stop", a, sessions[a.session].mode)
  <1>0. /\ AnySeq(msgs) /\ AnySeq(engq) /\ \A s \in Nat : Session1(s)
        /\ BitFollows
    BY FullFacts
  <1>1. Receive("stop") /\ UNCHANGED <<pending, full, up, used>>
    BY DEF ProcStop
  <1>2. msgs # << >> /\ msgs' = Tail(msgs) /\ a.type = "stop"
    BY <1>0, <1>1, ReceiveSome
  <1>3. SameMsgs(msgs, msgs') /\ (Some(msgs, EngineUp) => Some(msgs', EngineUp))
    BY <1>0, <1>2, OtherMsgs
  <1>4. \/ /\ a.session \in DOMAIN sessions
           /\ sessions' = Without(sessions, a.session)
           /\ engq' = Append(engq, e)
        \/ UNCHANGED <<sessions, engq>>
    BY DEF ProcStop
  <1>5. e.op = "stop" /\ e.session = a.session /\ e.mode = sessions[a.session].mode
    BY DEF Call
  <1> HIDE DEF a, e
  <1>6. CASE UNCHANGED <<sessions, engq>>
    <2>1. SameCalls(engq, engq')
      BY <1>0, <1>6, OtherCalls
    <2>2. \A s \in Nat : Session1(s)'
      BY <1>0, <1>1, <1>3, <1>6, <2>1, SessionKept
    <2>3. BitFollows'
      BY <1>0, <1>1, <1>3, <1>6, <2>1, BitKept
    <2> QED BY <2>2, <2>3
  <1>7. CASE /\ a.session \in DOMAIN sessions
             /\ sessions' = Without(sessions, a.session)
             /\ engq' = Append(engq, e)
    <2>1. /\ In(engq') = In(engq) \cup {e}
          /\ \A c : Some(engq', c) <=> Some(engq, c) \/ Of(c, e)
          /\ \A x, y : Precedes(engq, x, y) /\ (Of(x, e) => ~Some(engq, y)) => Precedes(engq', x, y)
      BY <1>0, <1>7, AppendSome
    <2>2. /\ \A s : ~Of(CallOf("start", s), e)
          /\ \A s : Of(CallOf("stop", s), e) <=> s = a.session
          /\ Of(Class("callMode", "stop", "routine"), e) <=> sessions[a.session].mode = "routine"
      BY <1>5, OfIs
    <2>3. /\ DOMAIN sessions' = DOMAIN sessions \ {a.session}
          /\ \A s \in DOMAIN sessions' : sessions'[s] = sessions[s]
      BY <1>7 DEF Without, Restrict
    <2>4. ASSUME NEW s \in Nat PROVE Session1(s)'
      <3>1. Session1(s)
        BY <1>0
      <3>2. Known(s)' => Known(s)
        BY <1>3, <1>7, <2>1, <2>2, <2>3 DEF Known, SameMsgs
      <3>3. Waiting(s)' <=> Waiting(s)
        BY <1>1, <1>3 DEF Waiting, SameMsgs
      <3>4. Once(s)'
        BY <1>1, <1>3, <3>1, <3>2, <3>3 DEF Once, SameMsgs, Session1
      <3>5. Ordered(s)'
        BY <1>3, <2>1, <2>2, <3>1 DEF Ordered, SameMsgs, Session1
      <3>6. Kept(s)'
        BY <1>3, <2>1, <2>2, <2>3, <3>1, OfIs DEF Kept, SameMsgs, Session1
      <3> QED BY <3>4, <3>5, <3>6 DEF Session1
    <2>5. BitFollows'
      <3>1. Recovering => Recovering'
        BY <1>1, <1>3 DEF Recovering
      <3>2. Clearing => Clearing'
        BY <1>3, <2>1 DEF Clearing, SameMsgs
      <3>3. AutoReports(sessions) /\ ~AutoReports(sessions') => Clearing'
        BY <2>1, <2>2, <2>3 DEF AutoReports, Clearing
      <3>4. AutoReports(sessions') => AutoReports(sessions)
        BY <2>3 DEF AutoReports
      <3>5. Some(engq, OpenCall) => Some(engq', OpenCall)
        BY <2>1
      <3> QED BY <1>0, <1>1, <1>3, <3>1, <3>2, <3>3, <3>4, <3>5 DEF BitFollows, SameMsgs
    <2> QED BY <2>4, <2>5
  <1> QED BY <1>4, <1>6, <1>7

\* A stop is answered: one that failed, as the modem was down, gives the session back,
\* and the adapter will be told that the engine is up.
LEMMA FullStopped ==
  ASSUME FullInv, ProcStopped
  PROVE  (\A s \in Nat : Session1(s)') /\ BitFollows'
  <1> DEFINE a == Head(msgs)
  <1>0. /\ AnySeq(msgs) /\ AnySeq(engq) /\ \A s \in Nat : Session1(s)
        /\ BitFollows /\ used.sessions \in Nat /\ full \in BOOLEAN
        /\ \A m \in In(msgs) : MsgOK(m, used.sessions, Len(taken))
    BY FullFacts
  <1>1. /\ Receive("stopped") /\ UNCHANGED <<engq, pending, up, used>>
        /\ sessions' = (IF a.ok THEN sessions ELSE Extend(sessions, a.session, Restored(a)))
        /\ full' = (IF a.ok THEN StillFull(sessions, a.mode) ELSE full)
    BY DEF ProcStopped
  <1>2. /\ a.type = "stopped"
        /\ In(msgs) = In(msgs') \cup {a}
        /\ \A c : Some(msgs, c) <=> Some(msgs', c) \/ Of(c, a)
        /\ \A x, y : Precedes(msgs, x, y) => Precedes(msgs', x, y)
        /\ \A x, y : Precedes(msgs, x, y) /\ Of(y, a) => ~Some(msgs', x)
        /\ \A x, y : Followed(msgs, x, y) => Followed(msgs', x, y)
        /\ \A x, y : Followed(msgs, x, y) /\ Of(x, a) => Some(msgs', y)
    BY <1>0, <1>1, ReceiveSome
  <1>3. a.session \in 1..used.sessions
    BY <1>0, <1>2 DEF MsgOK, Answers
  <1> HIDE DEF a
  <1>4. /\ \A s : \A t \in {"start", "started"} : ~Of(Msg(t, s), a)
        /\ ~Of(EngineUp, a) /\ (Of(Class("mode", "stopped", "routine"), a) <=> a.mode = "routine")
        /\ \A s : Of(Msg("stopped", s), a) <=> s = a.session
        /\ Of(FailedStop, a) <=> ~a.ok
    BY <1>2, OfIs
  <1>5. /\ DOMAIN sessions' = IF a.ok THEN DOMAIN sessions ELSE DOMAIN sessions \cup {a.session}
        /\ \A s \in DOMAIN sessions : s # a.session \/ a.ok => sessions'[s] = sessions[s]
        /\ ~a.ok => sessions'[a.session].mode = "routine"
    <2>1. CASE a.ok
      BY <1>1, <2>1
    <2>2. CASE ~a.ok
      BY <1>1, <2>2 DEF Extend, Restored, Session
    <2> QED BY <2>1, <2>2
  <1>6. Session1(a.session) /\ a.session \in Nat
    BY <1>0, <1>3
  <1>7. /\ Known(a.session)
        /\ ~Some(engq, CallOf("start", a.session)) /\ ~Some(msgs', Msg("started", a.session))
    BY <1>2, <1>4, <1>6 DEF Session1, Ordered, Known
  <1>8. ASSUME NEW s \in Nat PROVE Session1(s)'
    <2>1. Session1(s)
      BY <1>0
    <2>2. Known(s)' => Known(s)
      BY <1>1, <1>2, <1>5, <1>7 DEF Known
    <2>3. Waiting(s)' <=> Waiting(s)
      BY <1>1, <1>2, <1>4 DEF Waiting
    <2>4. Once(s)'
      BY <1>1, <1>2, <2>1, <2>2, <2>3 DEF Once, Session1
    <2>5. Ordered(s)'
      BY <1>1, <1>2, <2>1 DEF Ordered, Session1
    <2>6. Kept(s)'
      <3>1. CASE s = a.session /\ ~a.ok
        BY <1>1, <1>7, <3>1, InSome DEF Kept
      <3>2. CASE s # a.session \/ a.ok
        BY <1>1, <1>2, <1>5, <2>1, <3>2 DEF Kept, Session1
      <3> QED BY <3>1, <3>2
    <2> QED BY <2>4, <2>5, <2>6 DEF Session1
  <1>9. BitFollows'
    <2>1. Recovering => Recovering'
      BY <1>1, <1>2, <1>4 DEF Recovering
    <2>2. CASE a.ok
      <3>1. sessions' = sessions /\ full' = StillFull(sessions, a.mode)
        BY <1>1, <2>2
      <3>2. full' /\ ~AutoReports(sessions') => Clearing'
        BY <1>0, <1>1, <1>2, <1>4, <3>1 DEF BitFollows, StillFull, Clearing
      <3>3. ~full' /\ AutoReports(sessions') => Recovering'
        BY <1>0, <2>1, <3>1 DEF BitFollows, StillFull
      <3> QED BY <1>0, <1>1, <1>2, <3>2, <3>3 DEF BitFollows
    <2>3. CASE ~a.ok
      <3>1. AutoReports(sessions')
        BY <1>5, <2>3 DEF AutoReports
      <3>2. Recovering'
        BY <1>0, <1>1, <1>2, <1>4, <2>3 DEF BitFollows, Recovering
      <3> QED BY <1>0, <1>1, <1>2, <3>1, <3>2 DEF BitFollows
    <2> QED BY <2>2, <2>3
  <1> QED BY <1>8, <1>9

\* The engine is up: the commands that were held come behind the others.
LEMMA FullEngineUp ==
  ASSUME FullInv, ProcEngineUp
  PROVE  (\A s \in Nat : Session1(s)') /\ BitFollows'
  <1> DEFINE a == Head(msgs)
             r == Tail(msgs)
             calls == {Restart(s) : s \in DOMAIN sessions}
             row == SetToSeq(calls)
  <1>0. /\ AnySeq(msgs) /\ AnySeq(engq) /\ AnySeq(pending) /\ \A s \in Nat : Session1(s)
        /\ BitFollows /\ TypeInv /\ full \in BOOLEAN
        /\ \A m \in In(pending) : m.type \in Asks
    BY FullFacts
  <1>1. /\ msgs # << >> /\ a.type = "engineUp"
        /\ full' = (full \/ AutoReports(sessions))
        /\ pending' = << >> /\ engq' = engq \o row /\ msgs' = r \o pending
        /\ UNCHANGED <<sessions, up, used>>
    BY DEF ProcEngineUp, Receive
  <1>2. AnySeq(r) /\ SameMsgs(msgs, r)
    BY <1>0, <1>1, OtherMsgs, TailSome
  <1>3. AnySeq(row) /\ In(row) = calls
    BY <1>0, RestartRow
  <1>4. \A e \in calls : e.op = "restart"
    BY DEF Restart, Call
  <1> HIDE DEF a, r, row, calls
  <1>5. SameCalls(engq, engq') /\ (Some(engq, OpenCall) => Some(engq', OpenCall))
    BY <1>0, <1>1, <1>3, <1>4, OtherCalls
  <1>6. /\ In(msgs') = In(r) \cup In(pending)
        /\ \A c : Some(msgs', c) <=> Some(r, c) \/ Some(pending, c)
        /\ \A x, y : Precedes(r, x, y) /\ Precedes(pending, x, y)
                     /\ ~(Some(pending, x) /\ Some(r, y)) => Precedes(msgs', x, y)
        /\ \A x, y : Followed(r, x, y) /\ ~Some(pending, x) => Followed(msgs', x, y)
    BY <1>0, <1>1, <1>2, ConcatSome
  <1>7. /\ \A s : \A t \in {"started", "stopped"} : ~Some(pending, Msg(t, s))
        /\ ~Some(pending, FailedStop) /\ ~Some(pending, Class("mode", "stopped", "routine"))
        /\ \A m \in In(pending) : m.type # "started"
    BY <1>0, OfIs, InSome DEF Asks
  <1>8. (\A c : ~Some(pending', c)) /\ \A x, y : Precedes(pending', x, y)
    BY <1>1, ShortSome
  <1>9. ASSUME NEW s \in Nat PROVE Session1(s)'
    <2>1. Session1(s)
      BY <1>0
    <2>2. Known(s)' <=> Known(s)
      BY <1>1, <1>2, <1>5, <1>6, <1>7 DEF Known, SameMsgs, SameCalls
    <2>3. Waiting(s)' <=> Waiting(s)
      BY <1>2, <1>6, <1>8 DEF Waiting, SameMsgs
    <2>4. Once(s)'
      <3>1. Precedes(msgs', Msg("start", s), Msg("start", s))
        BY <1>2, <1>6, <2>1 DEF Once, SameMsgs, Session1
      <3> QED BY <1>1, <1>8, <2>1, <2>2, <2>3, <3>1 DEF Once, Session1
    <2>5. Ordered(s)'
      <3>1. Precedes(pending, Msg("started", s), Msg("stopped", s))
        BY <1>7 DEF Precedes, Some
      <3> QED BY <1>2, <1>5, <1>6, <1>7, <2>1, <3>1 DEF Ordered, SameMsgs, SameCalls, Session1
    <2>6. Kept(s)'
      BY <1>1, <1>2, <1>5, <1>6, <1>7, <2>1, OfIs DEF Kept, SameMsgs, SameCalls, Session1
    <2> QED BY <2>4, <2>5, <2>6 DEF Session1
  <1>10. BitFollows'
    <2>1. Clearing => Clearing'
      BY <1>2, <1>5, <1>6 DEF Clearing, SameMsgs, SameCalls
    <2>2. Followed(msgs, FailedStop, EngineUp) => Followed(msgs', FailedStop, EngineUp)
      BY <1>2, <1>6, <1>7 DEF SameMsgs
    <2> QED BY <1>0, <1>1, <1>5, <2>1, <2>2 DEF BitFollows, AutoReports
  <1> QED BY <1>9, <1>10

\* A call is answered. One of a stop fails only if the modem is not open, in which
\* case it is to be opened.
LEMMA FullAnswer ==
  ASSUME FullInv, "stop" \notin Refusable, Accept \/ Refuse
  PROVE  (\A s \in Nat : Session1(s)') /\ BitFollows'
  <1> DEFINE e == Head(engq)
  <1>0. /\ AnySeq(msgs) /\ AnySeq(engq) /\ AnySeq(pending) /\ \A s \in Nat : Session1(s)
        /\ BitFollows /\ TypeInv
        /\ \A d \in In(engq) : CallOK(d, used.sessions, Len(taken))
    BY FullFacts
  <1>1. PICK ok \in BOOLEAN, loc \in {<< >>, <<[type |-> "locations"]>>} :
          /\ engq # << >> /\ e.op # "open" /\ engq' = Tail(engq)
          /\ msgs' = (msgs \o loc) \o Answer(e, ok)
          /\ UNCHANGED <<pending, sessions, full, up>> /\ used'.sessions = used.sessions
          /\ e.op = "stop" /\ ~ok => ~up
    <2>1. CASE Accept
      BY <2>1 DEF Accept, adapter
    <2>2. CASE Refuse
      <3>1. msgs \o << >> = msgs
        BY <1>0 DEF AnySeq
      <3>2. used'.sessions = used.sessions
        BY <1>0, <2>2 DEF Refuse, TypeInv, FrontOK
      <3>3. /\ engq # << >> /\ e.op # "open" /\ engq' = Tail(engq)
            /\ msgs' = (msgs \o << >>) \o Answer(e, FALSE)
            /\ UNCHANGED <<pending, sessions, full, up>>
            /\ e.op = "stop" => ~up
        BY <2>2, <3>1 DEF Refuse, adapter
      <3> QED BY <3>2, <3>3
    <2> QED BY <2>1, <2>2
  <1>2. /\ In(engq) = In(engq') \cup {e}
        /\ \A c : Some(engq, c) <=> Some(engq', c) \/ Of(c, e)
        /\ \A x, y : Precedes(engq, x, y) => Precedes(engq', x, y)
        /\ \A x, y : Precedes(engq, x, y) /\ Of(y, e) => ~Some(engq', x)
    BY <1>0, <1>1, TailSome
  <1>3. CallOK(e, used.sessions, Len(taken)) /\ e.op \in {"restart"} \cup Asks
    BY <1>0, <1>1, <1>2 DEF CallOK
  <1> HIDE DEF e
  <1> DEFINE r == msgs \o loc
             m == AnswerTo(e, ok)
  <1>4. /\ AnySeq(r)
        /\ loc = << >> => r = msgs
        /\ loc # << >> => r = Append(msgs, [type |-> "locations"])
        /\ e.op = "restart" => msgs' = r
        /\ e.op # "restart" => msgs' = Append(r, m)
    <2>1. loc = << >> \/ loc = <<[type |-> "locations"]>>
      OBVIOUS
    <2> DEFINE t == r \o Answer(e, ok)
    <2>2. AnySeq(msgs) /\ e.op \in {"restart"} \cup Asks
      BY <1>0, <1>3
    <2>3. AnySeq(r) /\ (loc = << >> => r = msgs)
          /\ (loc # << >> => r = Append(msgs, [type |-> "locations"]))
      BY <2>1, <2>2, AnswerRow
    <2>4. (e.op = "restart" => t = r) /\ (e.op # "restart" => t = Append(r, m))
      <3>1. Answer(e, ok) = IF e.op = "restart" THEN << >> ELSE <<m>>
        BY <2>2, AnswerIs
      <3> HIDE DEF r, m
      <3>2. r \o << >> = r /\ r \o <<m>> = Append(r, m)
        BY <2>3 DEF AnySeq
      <3> QED BY <3>1, <3>2
    <2> HIDE DEF m
    <2> QED BY <1>1, <2>3, <2>4
  <1>5. SameMsgs(msgs, r) /\ (Some(msgs, EngineUp) => Some(r, EngineUp))
    <2>1. AnySeq(<<[type |-> "locations"]>>)
          /\ In(<<[type |-> "locations"]>>) = {[type |-> "locations"]}
      BY ShortSome
    <2>2. AnySeq(<< >>) /\ In(<< >>) = {}
      BY ShortSome
    <2>3. AnySeq(loc) /\ \A x \in In(loc) : x.type \notin {"start", "started", "stopped"}
      BY <1>1, <2>1, <2>2
    <2> QED BY <1>0, <2>3, OtherMsgs
  <1>6. /\ m.type = AnswerType(e.op) /\ m.session = e.session /\ m.mode = e.mode /\ m.ok = ok
    BY DEF AnswerTo
  <1>7. Some(engq, OpenCall) => Some(engq', OpenCall)
    BY <1>1, <1>2, OfIs
  <1> HIDE DEF r, m
  <1>8. CASE e.op \in {"restart", "get"}
    <2>1. SameMsgs(msgs, msgs') /\ (Some(msgs, EngineUp) => Some(msgs', EngineUp))
      <3>1. CASE e.op = "restart"
        BY <1>4, <1>5, <3>1
      <3>2. CASE e.op = "get"
        <4>1. msgs' = Append(r, m) /\ m.type = "got"
          BY <1>4, <1>6, <3>2 DEF AnswerType
        <4>2. /\ In(msgs') = In(r) \cup {m}
              /\ \A c : Some(msgs', c) <=> Some(r, c) \/ Of(c, m)
              /\ \A a, b : Precedes(r, a, b) /\ (Of(a, m) => ~Some(r, b)) => Precedes(msgs', a, b)
              /\ \A a, b : Followed(r, a, b) /\ ~Of(a, m) => Followed(msgs', a, b)
          BY <1>4, <4>1, AppendSome
        <4>3. SameMsgs(r, msgs') /\ (Some(r, EngineUp) => Some(msgs', EngineUp))
          BY <4>1, <4>2, OfIs DEF SameMsgs
        <4> QED BY <1>5, <4>3 DEF SameMsgs
      <3> QED BY <1>8, <3>1, <3>2
    <2>2. SameCalls(engq, engq')
      BY <1>0, <1>1, <1>8, OtherCalls DEF e
    <2>3. \A s \in Nat : Session1(s)'
      BY <1>0, <1>1, <2>1, <2>2, SessionKept
    <2>4. BitFollows'
      BY <1>0, <1>1, <1>7, <2>1, <2>2, BitKept
    <2> QED BY <2>3, <2>4
  <1>9. CASE e.op \in {"start", "stop"}
    <2>1. msgs' = Append(r, m) /\ m.type = (IF e.op = "start" THEN "started" ELSE "stopped")
      BY <1>4, <1>6, <1>9 DEF AnswerType
    <2>2. /\ In(msgs') = In(r) \cup {m}
          /\ \A c : Some(msgs', c) <=> Some(r, c) \/ Of(c, m)
          /\ \A a, b : Precedes(r, a, b) /\ (Of(a, m) => ~Some(r, b)) => Precedes(msgs', a, b)
          /\ \A a, b : Followed(r, a, b) /\ ~Of(a, m) => Followed(msgs', a, b)
      BY <1>4, <2>1, AppendSome
    <2>3. /\ \A s : ~Of(Msg("start", s), m)
          /\ \A s : Of(Msg("started", s), m) <=> e.op = "start" /\ s = e.session
          /\ \A s : Of(Msg("stopped", s), m) <=> e.op = "stop" /\ s = e.session
          /\ ~Of(EngineUp, m) /\ (Of(FailedStop, m) <=> e.op = "stop" /\ ~ok)
          /\ Of(Class("mode", "stopped", "routine"), m) <=> e.op = "stop" /\ e.mode = "routine"
          /\ \A s : \A t \in {"start", "stop"} : Of(CallOf(t, s), e) <=> e.op = t /\ s = e.session
          /\ Of(Class("callMode", "stop", "routine"), e) <=> e.op = "stop" /\ e.mode = "routine"
      BY <1>6, <1>9, <2>1, OfIs
    <2>4. ASSUME NEW s \in Nat PROVE Session1(s)'
      <3>1. Session1(s)
        BY <1>0
      <3>2. Known(s)' <=> Known(s)
        BY <1>1, <1>2, <1>5, <1>9, <2>2, <2>3 DEF Known, SameMsgs
      <3>3. Waiting(s)' <=> Waiting(s)
        BY <1>1, <1>5, <2>2, <2>3 DEF Waiting, SameMsgs
      <3>4. Once(s)'
        BY <1>1, <1>5, <2>2, <2>3, <3>1, <3>2, <3>3 DEF Once, SameMsgs, Session1
      <3>5. Ordered(s)'
        <4>1. Precedes(engq', CallOf("start", s), CallOf("stop", s))
          BY <1>2, <3>1 DEF Ordered, Session1
        <4>2. Of(Msg("started", s), m) => ~Some(r, Msg("stopped", s))
          BY <1>2, <1>5, <1>9, <2>3, <3>1 DEF Ordered, SameMsgs, Session1
        <4>3. Precedes(msgs', Msg("started", s), Msg("stopped", s))
          BY <1>5, <2>2, <3>1, <4>2 DEF Ordered, SameMsgs, Session1
        <4>4. ~(Some(engq', CallOf("start", s)) /\ Some(msgs', Msg("stopped", s)))
          BY <1>2, <1>5, <1>9, <2>2, <2>3, <3>1 DEF Ordered, SameMsgs, Session1
        <4> QED BY <4>1, <4>3, <4>4 DEF Ordered
      <3>6. Kept(s)'
        <4>1. SUFFICES ASSUME s \in DOMAIN sessions
                       PROVE  /\ \A d \in In(engq') : Of(CallOf("start", s), d) =>
                                                          d.mode = sessions[s].mode
                              /\ \A d \in In(msgs') : Of(Msg("started", s), d) =>
                                                          d.mode = sessions[s].mode
          BY <1>1 DEF Kept
        <4>2. \A d \in In(engq) : Of(CallOf("start", s), d) => d.mode = sessions[s].mode
          BY <3>1, <4>1 DEF Kept, Session1
        <4>3. ASSUME NEW d \in In(r), Of(Msg("started", s), d) PROVE d.mode = sessions[s].mode
          <5>1. d.type = "started"
            BY <4>3, OfIs
          <5> QED BY <1>5, <3>1, <4>1, <4>3, <5>1 DEF Kept, SameMsgs, Session1
        <4>4. Of(Msg("started", s), m) => m.mode = sessions[s].mode
          BY <1>2, <1>6, <1>9, <2>3, <4>2
        <4> QED BY <1>2, <2>2, <4>2, <4>3, <4>4
      <3> QED BY <3>4, <3>5, <3>6 DEF Session1
    <2>5. BitFollows'
      <3>1. Recovering => Recovering'
        BY <1>1, <1>5, <2>2 DEF Recovering
      <3>2. Clearing => Clearing'
        BY <1>2, <1>5, <2>2, <2>3 DEF Clearing, SameMsgs
      <3>3. up => Followed(msgs', FailedStop, EngineUp)
        BY <1>0, <1>1, <1>5, <2>2, <2>3 DEF BitFollows, SameMsgs
      <3> QED BY <1>0, <1>1, <1>7, <3>1, <3>2, <3>3 DEF BitFollows, AutoReports
    <2> QED BY <2>4, <2>5
  <1> QED BY <1>3, <1>8, <1>9 DEF Asks

\* The modem opens, restarts, or has a full batch.
LEMMA FullModem ==
  ASSUME FullInv, Open \/ Crash \/ BatchFull
  PROVE  (\A s \in Nat : Session1(s)') /\ BitFollows'
  <1>0. /\ AnySeq(msgs) /\ AnySeq(engq) /\ AnySeq(pending) /\ \A s \in Nat : Session1(s)
        /\ BitFollows /\ TypeInv
    BY FullFacts
  <1>1. CASE Open
    <2> DEFINE m == [type |-> "engineUp"]
    <2>1. /\ engq # << >> /\ Head(engq).op = "open" /\ engq' = Tail(engq) /\ up' = TRUE
          /\ msgs' = Append(msgs, m)
          /\ UNCHANGED <<pending, sessions, full, used>>
      BY <1>1 DEF Open, adapter
    <2>2. SameCalls(engq, engq')
      BY <1>0, <2>1, OtherCalls
    <2>3. m.type = "engineUp"
      OBVIOUS
    <2> HIDE DEF m
    <2>4. /\ In(msgs') = In(msgs) \cup {m}
          /\ \A c : Some(msgs', c) <=> Some(msgs, c) \/ Of(c, m)
          /\ \A a, b : Precedes(msgs, a, b) /\ (Of(a, m) => ~Some(msgs, b)) => Precedes(msgs', a, b)
          /\ \A a, b : Of(b, m) /\ ~Of(a, m) => Followed(msgs', a, b)
      BY <1>0, <2>1, AppendSome
    <2>5. Of(EngineUp, m) /\ ~Of(FailedStop, m)
          /\ ~Of(Class("mode", "stopped", "routine"), m)
          /\ \A s : \A t \in {"start", "started", "stopped"} : ~Of(Msg(t, s), m)
      BY <2>3, OfIs
    <2>6. Followed(msgs', FailedStop, EngineUp) /\ Some(msgs', EngineUp)
      BY <2>4, <2>5
    <2>7. SameMsgs(msgs, msgs')
      BY <2>3, <2>4, <2>5, <2>6 DEF SameMsgs
    <2>8. \A s \in Nat : Session1(s)'
      BY <1>0, <2>1, <2>2, <2>7, SessionKept
    <2>9. BitFollows'
      BY <1>0, <2>1, <2>2, <2>6, <2>7
      DEF BitFollows, AutoReports, Recovering, Clearing, SameMsgs, SameCalls
    <2> QED BY <2>8, <2>9
  <1>2. CASE Crash
    <2> DEFINE e == [op |-> "open"]
    <2>1. /\ up' = FALSE /\ engq' = Append(engq, e) /\ used'.sessions = used.sessions
          /\ UNCHANGED <<msgs, pending, sessions, full>>
      BY <1>0, <1>2 DEF Crash, adapter, TypeInv, FrontOK
    <2>2. e.op = "open"
      OBVIOUS
    <2> HIDE DEF e
    <2>3. SameCalls(engq, engq')
      BY <1>0, <2>1, <2>2, OtherCalls
    <2>4. Some(engq', OpenCall)
      BY <1>0, <2>1, <2>2, AppendSome, OfIs
    <2>5. SameMsgs(msgs, msgs')
      BY <1>0, <2>1, OtherMsgs
    <2>6. \A s \in Nat : Session1(s)'
      BY <1>0, <2>1, <2>3, <2>5, SessionKept
    <2>7. BitFollows'
      BY <1>0, <2>1, <2>3, <2>4
      DEF BitFollows, AutoReports, Recovering, Clearing, SameCalls
    <2> QED BY <2>6, <2>7
  <1>3. CASE BatchFull
    <2> DEFINE m == [type |-> "locations"]
    <2>1. /\ msgs' = Append(msgs, m) /\ used'.sessions = used.sessions
          /\ UNCHANGED <<engq, pending, sessions, full, up>>
      BY <1>0, <1>3 DEF BatchFull, adapter, TypeInv, FrontOK
    <2>2. m.type = "locations"
      OBVIOUS
    <2> HIDE DEF m
    <2>3. AnySeq(<<m>>) /\ In(<<m>>) = {m} /\ Append(msgs, m) = msgs \o <<m>>
      BY <1>0, ShortSome DEF AnySeq
    <2>4. SameMsgs(msgs, msgs') /\ (Some(msgs, EngineUp) => Some(msgs', EngineUp))
      BY <1>0, <2>1, <2>2, <2>3, OtherMsgs
    <2>5. SameCalls(engq, engq')
      BY <1>0, <2>1, OtherCalls
    <2>6. \A s \in Nat : Session1(s)'
      BY <1>0, <2>1, <2>4, <2>5, SessionKept
    <2>7. BitFollows'
      BY <1>0, <2>1, <2>4, <2>5, BitKept
    <2> QED BY <2>6, <2>7
  <1> QED BY <1>1, <1>2, <1>3

\* Every step keeps it, if no stop of a session the modem has is refused.
LEMMA FullNext ==
  ASSUME "stop" \notin Refusable PROVE FullInv /\ [Next]_vars => FullInv'
  <1> SUFFICES ASSUME FullInv, [Next]_vars PROVE FullInv'
    OBVIOUS
  <1>1. TypeInv'
    BY TypeNext DEF FullInv
  <1>2. (\A s \in Nat : Session1(s)') /\ BitFollows'
    <2>1. CASE UNCHANGED vars
      <3>1. \A s \in Nat : Session1(s)'
        BY <2>1 DEF FullInv, vars, adapter, Session1, Once, Ordered, Kept, Known, Waiting
      <3>2. BitFollows'
        BY <2>1 DEF FullInv, vars, adapter, BitFollows, Clearing, Recovering, AutoReports
      <3> QED BY <3>1, <3>2
    <2>2. CASE Proc
      BY <2>2, FullOther, FullClients, FullHold, FullStart, FullStarted, FullStop, FullStopped,
         FullEngineUp DEF Proc
    <2>3. CASE LocApi \/ Crash \/ BatchFull
      BY <2>3, FullAnswer, FullModem DEF LocApi
    <2>4. CASE Framework \/ \E c \in Clients : EmptyReport(c)
      BY <2>4, FullFramework
    <2> QED BY <2>1, <2>2, <2>3, <2>4 DEF Next
  <1> QED BY <1>1, <1>2 DEF FullInv

\* When everything has settled the modem is to tell of a full batch exactly if some
\* session wants to know, whatever was under way together and however often the modem
\* has restarted, as long as it refuses no stop of a session it has.
THEOREM FullFollows ==
  ASSUME "stop" \notin Refusable PROVE Spec => []FullFollowsSessions
  <1>1. FullInv => FullFollowsSessions
    <2> SUFFICES ASSUME FullInv, Idle PROVE full <=> AutoReports(sessions)
      BY DEF FullFollowsSessions
    <2>1. \A c : ~Some(msgs, c) /\ ~Some(engq, c)
      BY ShortSome DEF Idle
    <2>2. full \in BOOLEAN /\ AutoReports(sessions) \in BOOLEAN
      BY FullFacts DEF AutoReports
    <2>3. full => AutoReports(sessions)
      BY <2>1 DEF FullInv, BitFollows, Clearing
    <2>4. AutoReports(sessions) => full
      BY <2>1 DEF FullInv, BitFollows, Recovering
    <2> QED BY <2>2, <2>3, <2>4
  <1> QED BY <1>1, FullInit, FullNext, PTL DEF Spec

-----------------------------------------------------------------------------
(* Every answer is taken for the command it answers, if the framework lets a  *)
(* client's requests be answered before it makes another.                    *)

AskedN(n) == Class("asked", "", n)
CalledN(n) == Class("called", "", n)
AnsweredN(n) == Class("answered", "", n)
Adding(c) == Class("client", "addClient", c)
Asking == Class("asks", "", 0)

\* Right behind each of class a there is one of class b.
Adjacent(q, a, b) == \A i \in 1..Len(q) : Of(a, q[i]) => i < Len(q) /\ Of(b, q[i + 1])

\* The requests and the session of the client in use.
Requested == front[api].requests
Here == front[api].session
Numbers == {Requested[k].n : k \in 1..Len(Requested)}
Wanted(op, n) == \E k \in 1..Len(Requested) : Requested[k].op = op /\ Requested[k].n = n

\* Where the command with this number has got to.
InMsgs(n) == Some(msgs, AskedN(n))
Held(n) == Some(pending, AskedN(n))
Called(n) == Some(engq, CalledN(n))
Answered(n) == Some(msgs, AnsweredN(n))

\* A message or a call that is one of the client in use, or of a client that is gone.
Mine(m, op) == m.client = api /\ m.session = Here /\ Wanted(op, m.n)
Foreign(m, op) == m.n = 0 /\ op = "stop" /\ m.client < api /\ m.session # Here

\* One request is waiting, or those of a stop are.
Shape ==
    /\ Len(Requested) <= 2
    /\ Len(Requested) = 2 =>
          /\ Requested[1].op = "get" /\ Requested[2].op = "stop"
          /\ Requested[1].n # Requested[2].n

\* A client that is gone has no request, one that is to come no session either.
Others ==
    /\ \A c \in Clients : c # api => front[c].requests = << >>
    /\ \A c \in Clients : c > api => front[c].session = 0

\* What is under way is about a request of the client in use, or nobody's any more.
Owned ==
    /\ \A m \in In(msgs) : m.type \in Asks => Mine(m, m.type)
    /\ \A m \in In(msgs) :
          \A op \in Asks : m.type = AnswerType(op) => Foreign(m, op) \/ Mine(m, op)
    /\ \A m \in In(pending) : Mine(m, m.type)
    /\ \A e \in In(engq) : e.op \in Asks => Foreign(e, e.op) \/ Mine(e, e.op)
    /\ \A m \in In(msgs) : m.type = "removeClient" => m.client < api

\* A request's command, call or answer is in one place, once.
Spot(n) ==
    /\ Precedes(msgs, AskedN(n), AskedN(n)) /\ Precedes(msgs, AnsweredN(n), AnsweredN(n))
    /\ Precedes(pending, AskedN(n), AskedN(n)) /\ Precedes(engq, CalledN(n), CalledN(n))
    /\ InMsgs(n) \/ Held(n) \/ Called(n) \/ Answered(n)
    /\ InMsgs(n) => ~Held(n) /\ ~Called(n) /\ ~Answered(n)
    /\ Held(n) => ~Called(n) /\ ~Answered(n)
    /\ Called(n) => ~Answered(n)

\* The first of two is ahead of the second; nothing comes between them.
Ahead(g, t) ==
    /\ Adjacent(msgs, AskedN(g), AskedN(t))
    /\ Held(t) => Held(g) /\ Adjacent(pending, AskedN(g), AskedN(t))
    /\ Held(g) /\ InMsgs(t) => Of(AskedN(t), Head(msgs))
    /\ Precedes(engq, CalledN(g), CalledN(t))
    /\ Precedes(msgs, AnsweredN(g), AnsweredN(t))
    /\ Called(t) => Called(g) \/ Answered(g)
    /\ Answered(t) => Answered(g)

Spots ==
    /\ \A n \in Numbers : Spot(n)
    /\ Len(Requested) = 2 => Ahead(Requested[1].n, Requested[2].n)

\* Commands are held, and none is called, until the adapter is told that the engine
\* is up; which it will be.
Caps ==
    /\ capsKnown => pending = << >>
    /\ ~capsKnown => \A n \in Numbers : InMsgs(n) \/ Held(n)
    /\ ~capsKnown => Some(engq, OpenCall) \/ Some(msgs, EngineUp)

\* The adapter knows the client in use before the first of its commands.
KnownApi ==
    api \notin known =>
        /\ Some(msgs, Adding(api)) /\ Precedes(msgs, Adding(api), Asking)
        /\ \A n \in Numbers : InMsgs(n)

\* The adapter has the client's session, unless it is to start it or has stopped it.
Gone == \E n \in Numbers :
    \/ Wanted("start", n) /\ (InMsgs(n) \/ Held(n))
    \/ Wanted("stop", n) /\ (Called(n) \/ Answered(n))

There ==
    /\ Here \in DOMAIN sessions => sessions[Here].client = api
    /\ Here # 0 /\ ~Gone => Here \in DOMAIN sessions

Taken == \A n \in Commands : taken[n] \in {0, n}

AnswersInv ==
    /\ TypeInv /\ Shape /\ Others /\ Owned /\ Spots /\ Caps /\ KnownApi /\ There /\ Taken

\* The classes written out.
LEMMA NumberIs ==
  /\ \A n, m : Of(AskedN(n), m) <=> m.type \in Asks /\ m.n = n
  /\ \A n, e : Of(CalledN(n), e) <=> e.op \in Asks /\ e.n = n
  /\ \A n, m : Of(AnsweredN(n), m) <=> m.type \in Answers /\ m.n = n
  /\ \A c, m : Of(Adding(c), m) <=> m.type = "addClient" /\ m.client = c
  /\ \A m : Of(Asking, m) <=> m.type \in Asks
  BY DEF Of, Class, AskedN, CalledN, AnsweredN, Adding, Asking

\* A queue in which two are next to each other: behind, in front, and with another.
LEMMA AdjacentMore ==
  ASSUME NEW q, AnySeq(q)
  PROVE  /\ q # << >> => \A a, b : Adjacent(q, a, b) => Adjacent(Tail(q), a, b)
         /\ q # << >> => \A a, b : Adjacent(q, a, b) /\ Of(a, Head(q)) => Of(b, Head(Tail(q)))
         /\ q # << >> => \A a, b : Adjacent(q, a, b) /\ Of(b, Head(q)) /\ Precedes(q, b, b)
                                       => \A i \in 1..Len(q) : ~Of(a, q[i])
         /\ \A p : AnySeq(p) => \A a, b : Adjacent(q, a, b) /\ Adjacent(p, a, b) =>
                                              Adjacent(q \o p, a, b)
         /\ \A m : \A a, b : Adjacent(q, a, b) /\ ~Of(a, m) => Adjacent(Append(q, m), a, b)
         /\ \A p : AnySeq(p) /\ q # << >> => Head(q \o p) = Head(q)
         /\ \A m : q # << >> => Head(Append(q, m)) = Head(q)
         /\ \A a, b : ~Some(q, a) => Adjacent(q, a, b)
  <1>1. ASSUME q # << >>
        PROVE  /\ \A a, b : Adjacent(q, a, b) => Adjacent(Tail(q), a, b)
               /\ \A a, b : Adjacent(q, a, b) /\ Of(a, Head(q)) => Of(b, Head(Tail(q)))
               /\ \A a, b : Adjacent(q, a, b) /\ Of(b, Head(q)) /\ Precedes(q, b, b)
                                => \A i \in 1..Len(q) : ~Of(a, q[i])
    <2> DEFINE r == Tail(q)
    <2>1. /\ AnySeq(r) /\ Len(q) \in Nat \ {0} /\ Len(r) \in Nat
          /\ Len(q) = Len(r) + 1 /\ Head(q) = q[1]
          /\ \A i \in 1..Len(r) : r[i] = q[i + 1]
      BY <1>1, TailAt
    <2>2. r # << >> => Head(r) = r[1]
      BY <2>1, TailAt
    <2> HIDE DEF r
    <2>3. Len(r) # 0 => r # << >>
      OBVIOUS
    <2>4. ASSUME NEW a, NEW b, Adjacent(q, a, b) PROVE Adjacent(r, a, b)
      <3> SUFFICES ASSUME NEW i \in 1..Len(r), Of(a, r[i])
                   PROVE  i < Len(r) /\ Of(b, r[i + 1])
        BY DEF Adjacent
      <3>1. i + 1 \in 1..Len(q) /\ Of(a, q[i + 1])
        BY <2>1
      <3>2. i + 1 < Len(q) /\ Of(b, q[(i + 1) + 1])
        BY <2>4, <3>1 DEF Adjacent
      <3>3. i + 1 \in 1..Len(r)
        BY <2>1, <3>2
      <3> QED BY <2>1, <3>2, <3>3
    <2>5. ASSUME NEW a, NEW b, Adjacent(q, a, b), Of(a, Head(q)) PROVE Of(b, Head(r))
      <3>1. 1 < Len(q) /\ Of(b, q[1 + 1])
        BY <2>1, <2>5 DEF Adjacent
      <3>2. 1 \in 1..Len(r) /\ r # << >>
        BY <2>1, <2>3, <3>1
      <3> QED BY <2>1, <2>2, <3>1, <3>2
    <2>6. ASSUME NEW a, NEW b, Adjacent(q, a, b), Of(b, Head(q)), Precedes(q, b, b),
                 NEW i \in 1..Len(q)
          PROVE  ~Of(a, q[i])
      <3> SUFFICES ASSUME Of(a, q[i]) PROVE FALSE
        OBVIOUS
      <3>1. i < Len(q) /\ Of(b, q[i + 1])
        BY <2>6 DEF Adjacent
      <3>2. i + 1 \in 1..Len(q) /\ 1 \in 1..Len(q)
        BY <2>1, <3>1
      <3>3. i + 1 <= 1
        BY <2>1, <2>6, <3>1, <3>2 DEF Precedes
      <3> QED BY <3>3
    <2> QED BY <2>4, <2>5, <2>6 DEF r
  <1>2. ASSUME NEW p, AnySeq(p)
        PROVE  /\ \A a, b : Adjacent(q, a, b) /\ Adjacent(p, a, b) => Adjacent(q \o p, a, b)
               /\ q # << >> => Head(q \o p) = Head(q)
    <2> DEFINE r == q \o p
    <2>1. /\ AnySeq(r) /\ Len(q) \in Nat /\ Len(p) \in Nat /\ Len(r) = Len(q) + Len(p)
          /\ \A i \in 1..Len(q) : r[i] = q[i]
          /\ \A i \in 1..Len(p) : r[Len(q) + i] = p[i]
      BY <1>2, ConcatAt
    <2> HIDE DEF r
    <2>2. ASSUME NEW a, NEW b, Adjacent(q, a, b), Adjacent(p, a, b) PROVE Adjacent(r, a, b)
      <3> SUFFICES ASSUME NEW i \in 1..Len(r), Of(a, r[i])
                   PROVE  i < Len(r) /\ Of(b, r[i + 1])
        BY DEF Adjacent
      <3>1. CASE i \in 1..Len(q)
        <4>1. i < Len(q) /\ Of(b, q[i + 1])
          BY <2>1, <2>2, <3>1 DEF Adjacent
        <4>2. i + 1 \in 1..Len(q)
          BY <2>1, <4>1
        <4> QED BY <2>1, <4>1, <4>2
      <3>2. CASE i \notin 1..Len(q)
        <4>1. i - Len(q) \in 1..Len(p) /\ Len(q) + (i - Len(q)) = i
          BY <2>1, <3>2
        <4>2. r[i] = p[i - Len(q)]
          BY <2>1, <4>1
        <4>3. i - Len(q) < Len(p) /\ Of(b, p[(i - Len(q)) + 1])
          BY <2>2, <4>1, <4>2 DEF Adjacent
        <4>4. (i - Len(q)) + 1 \in 1..Len(p) /\ Len(q) + ((i - Len(q)) + 1) = i + 1
              /\ i < Len(r)
          BY <2>1, <4>1, <4>3
        <4>5. r[i + 1] = p[(i - Len(q)) + 1]
          BY <2>1, <4>4
        <4> QED BY <4>3, <4>4, <4>5
      <3> QED BY <3>1, <3>2
    <2>3. q # << >> => Head(r) = Head(q)
      <3> SUFFICES ASSUME q # << >> PROVE Head(r) = Head(q)
        OBVIOUS
      <3>1. Head(q) = q[1] /\ Len(q) \in Nat \ {0}
        BY TailAt
      <3>2. r # << >>
        BY <2>1, <3>1
      <3>3. Head(r) = r[1]
        BY <2>1, <3>2, TailAt
      <3> QED BY <2>1, <3>1, <3>3
    <2> QED BY <2>2, <2>3 DEF r
  <1>3. ASSUME NEW m
        PROVE  /\ \A a, b : Adjacent(q, a, b) /\ ~Of(a, m) => Adjacent(Append(q, m), a, b)
               /\ q # << >> => Head(Append(q, m)) = Head(q)
    <2> DEFINE r == Append(q, m)
    <2>1. /\ AnySeq(r) /\ Len(q) \in Nat /\ Len(r) = Len(q) + 1
          /\ \A i \in 1..Len(q) : r[i] = q[i]
          /\ r[Len(q) + 1] = m
      BY AppendAt
    <2>2. r # << >>
      BY AppendSome
    <2> HIDE DEF r
    <2>3. ASSUME NEW a, NEW b, Adjacent(q, a, b), ~Of(a, m) PROVE Adjacent(r, a, b)
      <3> SUFFICES ASSUME NEW i \in 1..Len(r), Of(a, r[i])
                   PROVE  i < Len(r) /\ Of(b, r[i + 1])
        BY DEF Adjacent
      <3>1. i \in 1..Len(q)
        BY <2>1, <2>3
      <3>2. i < Len(q) /\ Of(b, q[i + 1])
        BY <2>1, <2>3, <3>1 DEF Adjacent
      <3>3. i + 1 \in 1..Len(q)
        BY <2>1, <3>2
      <3> QED BY <2>1, <3>2, <3>3
    <2>4. q # << >> => Head(r) = Head(q)
      <3> SUFFICES ASSUME q # << >> PROVE Head(r) = Head(q)
        OBVIOUS
      <3>1. Head(q) = q[1] /\ Len(q) \in Nat \ {0}
        BY TailAt
      <3>2. Head(r) = r[1]
        BY <2>1, <2>2, TailAt
      <3> QED BY <2>1, <3>1, <3>2
    <2> QED BY <2>3, <2>4 DEF r
  <1>4. \A a, b : ~Some(q, a) => Adjacent(q, a, b)
    BY DEF Some, Adjacent
  <1> QED BY <1>1, <1>2, <1>3, <1>4

\* The facts of AnswersInv that every step starts from.
LEMMA AnswersFacts ==
  ASSUME AnswersInv
  PROVE  /\ TypeInv /\ AnySeq(msgs) /\ AnySeq(engq) /\ AnySeq(pending)
         /\ \A m \in In(msgs) : MsgOK(m, used.sessions, Len(taken))
         /\ \A m \in In(pending) : m.type \in Asks
         /\ \A e \in In(engq) : CallOK(e, used.sessions, Len(taken))
         /\ DOMAIN sessions \subseteq 1..used.sessions /\ used.sessions \in Nat
         /\ api \in Clients /\ Clients \subseteq Nat /\ Len(taken) \in Nat
         /\ front \in [Clients -> Fronts(used.sessions, Len(taken))]
         /\ Here \in 0..used.sessions
         /\ Requested \in Seq([op : Asks, n : 1..Len(taken)])
         /\ capsKnown \in BOOLEAN
  <1>1. /\ TypeInv /\ AnySeq(msgs) /\ AnySeq(engq) /\ AnySeq(pending)
        /\ \A m \in In(msgs) : MsgOK(m, used.sessions, Len(taken))
        /\ \A m \in In(pending) : m.type \in Asks
        /\ \A e \in In(engq) : CallOK(e, used.sessions, Len(taken))
    BY DEF AnswersInv, TypeInv, QueuesOK
  <1>2. /\ DOMAIN sessions \subseteq 1..used.sessions /\ used.sessions \in Nat
        /\ api \in Clients /\ Clients \subseteq Nat /\ Len(taken) \in Nat
        /\ front \in [Clients -> Fronts(used.sessions, Len(taken))]
        /\ capsKnown \in BOOLEAN
    BY LenProperties DEF AnswersInv, TypeInv, AdapterOK, FrontOK, Clients
  <1>3. front[api] \in Fronts(used.sessions, Len(taken))
    BY <1>2
  <1>4. Here \in 0..used.sessions /\ Requested \in Seq([op : Asks, n : 1..Len(taken)])
    BY <1>3, FrontSet DEF Here, Requested
  <1> QED BY <1>1, <1>2, <1>4

\* The numbers of the requests: at most two, of different operations.
LEMMA NumbersAre ==
  ASSUME AnswersInv
  PROVE  /\ Numbers \subseteq Nat \ {0}
         /\ Len(Requested) \in {0, 1, 2}
         /\ \A op, n : Wanted(op, n) => n \in Numbers /\ op \in Asks
         /\ \A n \in Numbers : \E op \in Asks : Wanted(op, n)
         /\ \A op, od, n : Wanted(op, n) /\ Wanted(od, n) => op = od
         /\ \A op, n, m : Wanted(op, n) /\ Wanted(op, m) => n = m
         /\ \A n : Wanted("start", n) => \A op, m : Wanted(op, m) => op = "start"
         /\ Len(Requested) = 2 =>
               /\ Numbers = {Requested[1].n, Requested[2].n} /\ Requested[1].n # Requested[2].n
               /\ Wanted("get", Requested[1].n) /\ Wanted("stop", Requested[2].n)
  <1> DEFINE R == [op : Asks, n : 1..Len(taken)]
  <1>1. Requested \in Seq(R) /\ Len(taken) \in Nat
    BY AnswersFacts
  <1>2. Shape
    BY DEF AnswersInv
  <1>3. \A r \in R : r.op \in Asks /\ r.n \in Nat \ {0}
    BY <1>1
  <1> HIDE DEF R
  <1>4. Len(Requested) \in Nat /\ \A k \in 1..Len(Requested) : Requested[k] \in R
    BY <1>1, LenProperties, ElementOfSeq
  <1>5. Len(Requested) \in {0, 1, 2}
    <2>1. \A l \in Nat : l <= 2 => l \in {0, 1, 2}
      OBVIOUS
    <2>2. Len(Requested) \in Nat /\ Len(Requested) <= 2
      BY <1>2, <1>4 DEF Shape
    <2> QED BY <2>1, <2>2
  <1>6. \A k \in 1..Len(Requested) : Requested[k].op \in Asks /\ Requested[k].n \in Nat \ {0}
    BY <1>3, <1>4
  <1>7. Numbers \subseteq Nat \ {0}
    BY <1>6 DEF Numbers
  <1>8. /\ \A op, n : Wanted(op, n) => n \in Numbers /\ op \in Asks
        /\ \A n \in Numbers : \E op \in Asks : Wanted(op, n)
    BY <1>6 DEF Wanted, Numbers
  <1>9. CASE Len(Requested) \in {0, 1}
    <2>1. \A k, j \in 1..Len(Requested) : k = j
      <3>1. \A l \in {0, 1} : \A k, j \in 1..l : k = j
        OBVIOUS
      <3> QED BY <1>9, <3>1
    <2>2. \A op, od, n : Wanted(op, n) /\ Wanted(od, n) => op = od
      BY <2>1 DEF Wanted
    <2>3. \A op, n, m : Wanted(op, n) /\ Wanted(op, m) => n = m
      BY <2>1 DEF Wanted
    <2>4. \A n : Wanted("start", n) => \A op, m : Wanted(op, m) => op = "start"
      BY <2>1 DEF Wanted
    <2>5. Len(Requested) # 2
      BY <1>9
    <2> QED BY <1>5, <1>7, <1>8, <2>2, <2>3, <2>4, <2>5
  <1>10. CASE Len(Requested) = 2
    <2>1. 1..Len(Requested) = {1, 2}
      BY <1>10
    <2>2. /\ Requested[1].op = "get" /\ Requested[2].op = "stop"
          /\ Requested[1].n # Requested[2].n
      BY <1>2, <1>10 DEF Shape
    <2>3. Numbers = {Requested[1].n, Requested[2].n}
      BY <2>1 DEF Numbers
    <2>4. \A op, n : Wanted(op, n) <=> \/ op = "get" /\ n = Requested[1].n
                                       \/ op = "stop" /\ n = Requested[2].n
      BY <2>1, <2>2 DEF Wanted
    <2>5. \A op, od, n : Wanted(op, n) /\ Wanted(od, n) => op = od
      BY <2>2, <2>4
    <2>6. \A op, n, m : Wanted(op, n) /\ Wanted(op, m) => n = m
      BY <2>4
    <2>7. \A n : Wanted("start", n) => \A op, m : Wanted(op, m) => op = "start"
      BY <2>4
    <2>8. Wanted("get", Requested[1].n) /\ Wanted("stop", Requested[2].n)
      BY <2>4
    <2> QED BY <1>5, <1>7, <1>8, <2>2, <2>3, <2>5, <2>6, <2>7, <2>8
  <1> QED BY <1>5, <1>9, <1>10

\* A message that is about no request; and the same commands, calls and answers in
\* two queues, in the same order.
Harmless(m) ==
    \/ m.type \notin Asks \cup Answers \cup {"removeClient"}
    \/ m.type = "stopped" /\ Foreign(m, "stop")

SameAsks(q, r) ==
    /\ \A n \in Nat \ {0} : Some(r, AskedN(n)) <=> Some(q, AskedN(n))
    /\ \A n \in Nat \ {0} : Some(r, AnsweredN(n)) <=> Some(q, AnsweredN(n))
    /\ \A g, t \in Nat \ {0} :
          Precedes(q, AskedN(g), AskedN(t)) => Precedes(r, AskedN(g), AskedN(t))
    /\ \A g, t \in Nat \ {0} :
          Precedes(q, AnsweredN(g), AnsweredN(t)) => Precedes(r, AnsweredN(g), AnsweredN(t))
    /\ \A g, t \in Nat \ {0} :
          Adjacent(q, AskedN(g), AskedN(t)) => Adjacent(r, AskedN(g), AskedN(t))
    /\ \A t \in Nat \ {0} :
          Some(q, AskedN(t)) /\ Of(AskedN(t), Head(q)) => Of(AskedN(t), Head(r))
    /\ \A m \in In(r) : m \in In(q) \/ Harmless(m)

SameCalled(q, r) ==
    /\ \A n \in Nat \ {0} : Some(r, CalledN(n)) <=> Some(q, CalledN(n))
    /\ \A g, t \in Nat \ {0} :
          Precedes(q, CalledN(g), CalledN(t)) => Precedes(r, CalledN(g), CalledN(t))
    /\ \A e \in In(r) : e \in In(q) \/ e.op \notin Asks \/ Foreign(e, e.op)

\* Messages that are not about a command change nothing of the commands,
LEMMA QuietMsgs ==
  ASSUME NEW q, AnySeq(q)
  PROVE  /\ SameAsks(q, q)
         /\ \A row : AnySeq(row) /\ (\A m \in In(row) : Harmless(m)) => SameAsks(q, q \o row)
         /\ \A m : Harmless(m) => SameAsks(q, Append(q, m))
         /\ q # << >> /\ Head(q).type \notin Asks /\ (Head(q).type \in Answers => Head(q).n = 0) =>
               SameAsks(q, Tail(q))
  <1>1. SameAsks(q, q)
    BY DEF SameAsks
  <1>2. \A m : Harmless(m) => \A n \in Nat \ {0} : ~Of(AskedN(n), m) /\ ~Of(AnsweredN(n), m)
    BY NumberIs DEF Harmless, Foreign, Asks, Answers
  <1>3. ASSUME NEW row, AnySeq(row), \A m \in In(row) : Harmless(m) PROVE SameAsks(q, q \o row)
    <2> DEFINE r == q \o row
    <2>1. /\ In(r) = In(q) \cup In(row)
          /\ \A c : Some(r, c) <=> Some(q, c) \/ Some(row, c)
          /\ \A a, b : Precedes(q, a, b) /\ Precedes(row, a, b) /\ ~(Some(row, a) /\ Some(q, b)) =>
                           Precedes(r, a, b)
      BY <1>3, ConcatSome
    <2>2. /\ \A a, b : Adjacent(q, a, b) /\ Adjacent(row, a, b) => Adjacent(r, a, b)
          /\ q # << >> => Head(r) = Head(q)
      BY <1>3, AdjacentMore
    <2>3. \A n \in Nat \ {0} : ~Some(row, AskedN(n)) /\ ~Some(row, AnsweredN(n))
      BY <1>2, <1>3, InSome
    <2>4. /\ \A a, b : ~Some(row, a) => Precedes(row, a, b)
          /\ \A a, b : ~Some(row, a) => Adjacent(row, a, b)
      BY DEF Some, Precedes, Adjacent
    <2>5. \A c : Some(q, c) => q # << >>
      BY ShortSome
    <2> HIDE DEF r
    <2>6. SameAsks(q, r)
      BY <1>3, <2>1, <2>2, <2>3, <2>4, <2>5 DEF SameAsks
    <2> QED BY <2>6 DEF r
  <1>4. ASSUME NEW m, Harmless(m) PROVE SameAsks(q, Append(q, m))
    <2>1. AnySeq(<<m>>) /\ In(<<m>>) = {m} /\ Append(q, m) = q \o <<m>>
      BY ShortSome DEF AnySeq
    <2> QED BY <1>3, <1>4, <2>1
  <1>5. ASSUME q # << >>, Head(q).type \notin Asks, Head(q).type \in Answers => Head(q).n = 0
        PROVE  SameAsks(q, Tail(q))
    <2> DEFINE r == Tail(q)
               h == Head(q)
    <2>1. /\ In(q) = In(r) \cup {h}
          /\ \A c : Some(q, c) <=> Some(r, c) \/ Of(c, h)
          /\ \A a, b : Precedes(q, a, b) => Precedes(r, a, b)
      BY <1>5, TailSome
    <2>2. \A a, b : Adjacent(q, a, b) => Adjacent(r, a, b)
      BY <1>5, AdjacentMore
    <2>3. \A n \in Nat \ {0} : ~Of(AskedN(n), h) /\ ~Of(AnsweredN(n), h)
      BY <1>5, NumberIs
    <2> HIDE DEF r
    <2>4. SameAsks(q, r)
      BY <2>1, <2>2, <2>3 DEF SameAsks
    <2> QED BY <2>4 DEF r
  <1> QED BY <1>1, <1>3, <1>4, <1>5

\* ... and neither do such calls.
LEMMA QuietCalls ==
  ASSUME NEW q, AnySeq(q)
  PROVE  /\ SameCalled(q, q)
         /\ \A row : AnySeq(row) /\ (\A e \in In(row) : e.op \notin Asks \/ Foreign(e, e.op)) =>
               SameCalled(q, q \o row)
         /\ \A e : e.op \notin Asks => SameCalled(q, Append(q, e))
         /\ q # << >> /\ (Head(q).op \in Asks => Head(q).n = 0) => SameCalled(q, Tail(q))
  <1>1. SameCalled(q, q)
    BY DEF SameCalled
  <1>2. \A e : e.op \notin Asks \/ Foreign(e, e.op) => \A n \in Nat \ {0} : ~Of(CalledN(n), e)
    BY NumberIs DEF Foreign
  <1>3. ASSUME NEW row, AnySeq(row), \A e \in In(row) : e.op \notin Asks \/ Foreign(e, e.op)
        PROVE  SameCalled(q, q \o row)
    <2> DEFINE r == q \o row
    <2>1. /\ In(r) = In(q) \cup In(row)
          /\ \A c : Some(r, c) <=> Some(q, c) \/ Some(row, c)
          /\ \A a, b : Precedes(q, a, b) /\ Precedes(row, a, b) /\ ~(Some(row, a) /\ Some(q, b)) =>
                           Precedes(r, a, b)
      BY <1>3, ConcatSome
    <2>2. \A n \in Nat \ {0} : ~Some(row, CalledN(n))
      BY <1>2, <1>3, InSome
    <2>3. \A a, b : ~Some(row, a) => Precedes(row, a, b)
      BY DEF Some, Precedes
    <2> HIDE DEF r
    <2>4. SameCalled(q, r)
      BY <1>3, <2>1, <2>2, <2>3 DEF SameCalled
    <2> QED BY <2>4 DEF r
  <1>4. ASSUME NEW e, e.op \notin Asks PROVE SameCalled(q, Append(q, e))
    <2>1. AnySeq(<<e>>) /\ In(<<e>>) = {e} /\ Append(q, e) = q \o <<e>>
      BY ShortSome DEF AnySeq
    <2> QED BY <1>3, <1>4, <2>1
  <1>5. ASSUME q # << >>, Head(q).op \in Asks => Head(q).n = 0 PROVE SameCalled(q, Tail(q))
    <2> DEFINE r == Tail(q)
               h == Head(q)
    <2>1. /\ In(q) = In(r) \cup {h}
          /\ \A c : Some(q, c) <=> Some(r, c) \/ Of(c, h)
          /\ \A a, b : Precedes(q, a, b) => Precedes(r, a, b)
      BY <1>5, TailSome
    <2>2. \A n \in Nat \ {0} : ~Of(CalledN(n), h)
      BY <1>5, NumberIs
    <2> HIDE DEF r
    <2>3. SameCalled(q, r)
      BY <2>1, <2>2 DEF SameCalled
    <2> QED BY <2>3 DEF r
  <1> QED BY <1>1, <1>3, <1>4, <1>5

\* A step that moves no command, call or answer of the client in use.
LEMMA AnswersKept ==
  ASSUME AnswersInv, SameAsks(msgs, msgs'), SameCalled(engq, engq'), UNCHANGED <<pending, api>>,
         Requested' = Requested, Here' = Here
  PROVE  /\ Shape' /\ Owned' /\ Spots' /\ (Gone' <=> Gone) /\ Numbers' = Numbers
         /\ \A n \in Numbers : (InMsgs(n)' <=> InMsgs(n)) /\ (Held(n)' <=> Held(n))
  <1>0. Numbers \subseteq Nat \ {0} /\ Shape /\ Owned /\ Spots
        /\ (Len(Requested) = 2 => Requested[1].n \in Numbers /\ Requested[2].n \in Numbers)
    BY NumbersAre DEF AnswersInv
  <1>1. Shape' /\ Numbers' = Numbers /\ \A op, n : Wanted(op, n)' <=> Wanted(op, n)
    BY <1>0 DEF Shape, Numbers, Wanted
  <1>2. /\ \A m, op : Mine(m, op)' <=> Mine(m, op)
        /\ \A m, op : Foreign(m, op)' <=> Foreign(m, op)
    BY <1>1 DEF Mine, Foreign
  <1>3. /\ \A n \in Numbers : InMsgs(n)' <=> InMsgs(n)
        /\ \A n \in Numbers : Held(n)' <=> Held(n)
        /\ \A n \in Numbers : Called(n)' <=> Called(n)
        /\ \A n \in Numbers : Answered(n)' <=> Answered(n)
    BY <1>0 DEF SameAsks, SameCalled, InMsgs, Held, Called, Answered
  <1>4. Gone' <=> Gone
    BY <1>1, <1>3 DEF Gone
  <1>5. Owned'
    <2>1. ASSUME NEW m \in In(msgs'), m.type \in Asks PROVE Mine(m, m.type)'
      BY <1>0, <1>2, <2>1 DEF SameAsks, Harmless, Owned, Asks, Answers
    <2>2. ASSUME NEW m \in In(msgs'), NEW op \in Asks, m.type = AnswerType(op)
          PROVE  (Foreign(m, op) \/ Mine(m, op))'
      <3>1. CASE m \in In(msgs)
        BY <1>0, <1>2, <2>2, <3>1 DEF Owned
      <3>2. CASE Harmless(m)
        BY <1>2, <2>2, <3>2 DEF Harmless, AnswerType, Asks, Answers
      <3> QED BY <3>1, <3>2 DEF SameAsks
    <2>3. ASSUME NEW m \in In(pending') PROVE Mine(m, m.type)'
      BY <1>0, <1>2, <2>3 DEF Owned
    <2>4. ASSUME NEW e \in In(engq'), e.op \in Asks PROVE (Foreign(e, e.op) \/ Mine(e, e.op))'
      BY <1>0, <1>2, <2>4 DEF SameCalled, Owned
    <2>5. ASSUME NEW m \in In(msgs'), m.type = "removeClient" PROVE m.client < api'
      BY <1>0, <2>5 DEF SameAsks, Harmless, Owned
    <2> QED BY <2>1, <2>2, <2>3, <2>4, <2>5 DEF Owned
  <1>6. ASSUME NEW n \in Numbers PROVE Spot(n)'
    BY <1>0, <1>3, <1>6 DEF Spots, Spot, SameAsks, SameCalled
  <1>7. ASSUME NEW g \in Numbers, NEW t \in Numbers, Ahead(g, t) PROVE Ahead(g, t)'
    <2>1. Held(g)' /\ InMsgs(t)' => Of(AskedN(t), Head(msgs'))
      BY <1>0, <1>3, <1>7 DEF Ahead, SameAsks, InMsgs
    <2> QED BY <1>0, <1>3, <1>7, <2>1 DEF Ahead, SameAsks, SameCalled
  <1>8. Spots'
    BY <1>0, <1>1, <1>6, <1>7 DEF Spots
  <1> QED BY <1>1, <1>3, <1>4, <1>5, <1>8

\* Messages that are about no request come and go.
LEMMA MsgsKept ==
  ASSUME NEW q, AnySeq(q)
  PROVE  /\ \A row : AnySeq(row) /\ (\A m \in In(row) : Harmless(m) /\ m.type # "addClient") =>
               /\ SameAsks(q, q \o row)
               /\ Some(q, EngineUp) => Some(q \o row, EngineUp)
               /\ Some(q, Adding(api)) => Some(q \o row, Adding(api))
               /\ Precedes(q, Adding(api), Asking) => Precedes(q \o row, Adding(api), Asking)
         /\ q # << >> /\ Head(q).type \notin Asks \cup {"engineUp"}
            /\ (Head(q).type \in Answers => Head(q).n = 0) =>
               /\ SameAsks(q, Tail(q))
               /\ Some(q, EngineUp) => Some(Tail(q), EngineUp)
               /\ Some(q, Adding(api)) =>
                     \/ Some(Tail(q), Adding(api))
                     \/ Head(q).type = "addClient" /\ Head(q).client = api
               /\ Precedes(q, Adding(api), Asking) => Precedes(Tail(q), Adding(api), Asking)
  <1>1. ASSUME NEW row, AnySeq(row), \A m \in In(row) : Harmless(m) /\ m.type # "addClient"
        PROVE  /\ SameAsks(q, q \o row)
               /\ Some(q, EngineUp) => Some(q \o row, EngineUp)
               /\ Some(q, Adding(api)) => Some(q \o row, Adding(api))
               /\ Precedes(q, Adding(api), Asking) => Precedes(q \o row, Adding(api), Asking)
    <2> DEFINE r == q \o row
    <2>1. SameAsks(q, r)
      BY <1>1, QuietMsgs
    <2>2. /\ \A c : Some(r, c) <=> Some(q, c) \/ Some(row, c)
          /\ \A a, b : Precedes(q, a, b) /\ Precedes(row, a, b) /\ ~(Some(row, a) /\ Some(q, b)) =>
                           Precedes(r, a, b)
      BY <1>1, ConcatSome
    <2>3. ~Some(row, Adding(api))
      BY <1>1, InSome, NumberIs
    <2>4. Precedes(row, Adding(api), Asking)
      BY <2>3 DEF Precedes, Some
    <2> HIDE DEF r
    <2>5. /\ Some(q, EngineUp) => Some(r, EngineUp)
          /\ Some(q, Adding(api)) => Some(r, Adding(api))
          /\ Precedes(q, Adding(api), Asking) => Precedes(r, Adding(api), Asking)
      BY <2>2, <2>3, <2>4
    <2> QED BY <2>1, <2>5 DEF r
  <1>2. ASSUME q # << >>, Head(q).type \notin Asks \cup {"engineUp"},
               Head(q).type \in Answers => Head(q).n = 0
        PROVE  /\ SameAsks(q, Tail(q))
               /\ Some(q, EngineUp) => Some(Tail(q), EngineUp)
               /\ Some(q, Adding(api)) =>
                     \/ Some(Tail(q), Adding(api))
                     \/ Head(q).type = "addClient" /\ Head(q).client = api
               /\ Precedes(q, Adding(api), Asking) => Precedes(Tail(q), Adding(api), Asking)
    <2> DEFINE r == Tail(q)
               h == Head(q)
    <2>1. SameAsks(q, r)
      BY <1>2, QuietMsgs
    <2>2. /\ \A c : Some(q, c) <=> Some(r, c) \/ Of(c, h)
          /\ \A a, b : Precedes(q, a, b) => Precedes(r, a, b)
      BY <1>2, TailSome
    <2>3. ~Of(EngineUp, h)
      BY <1>2, OfIs
    <2>4. Of(Adding(api), h) => h.type = "addClient" /\ h.client = api
      BY NumberIs
    <2> HIDE DEF r, h
    <2>5. /\ Some(q, EngineUp) => Some(r, EngineUp)
          /\ Some(q, Adding(api)) =>
                Some(r, Adding(api)) \/ (h.type = "addClient" /\ h.client = api)
          /\ Precedes(q, Adding(api), Asking) => Precedes(r, Adding(api), Asking)
      BY <2>2, <2>3, <2>4
    <2> QED BY <2>1, <2>5 DEF r, h
  <1> QED BY <1>1, <1>2

\* A step that is about no request.
LEMMA QuietStep ==
  ASSUME AnswersInv, TypeInv', SameAsks(msgs, msgs'), SameCalled(engq, engq'),
         UNCHANGED <<pending, capsKnown, api, taken>>,
         \A c \in Clients : /\ front'[c].requests = front[c].requests
                            /\ front'[c].session = front[c].session,
         Some(engq, OpenCall) \/ Some(msgs, EngineUp) =>
             Some(engq', OpenCall) \/ Some(msgs', EngineUp),
         api \in known => api \in known',
         api \notin known' /\ Some(msgs, Adding(api)) => Some(msgs', Adding(api)),
         Precedes(msgs, Adding(api), Asking) => Precedes(msgs', Adding(api), Asking),
         Here \in DOMAIN sessions' <=> Here \in DOMAIN sessions,
         Here \in DOMAIN sessions => sessions'[Here].client = sessions[Here].client
  PROVE  AnswersInv'
  <1>0. api \in Clients
    BY AnswersFacts
  <1>1. Requested' = Requested /\ Here' = Here
    BY <1>0 DEF Requested, Here
  <1>2. /\ Shape' /\ Owned' /\ Spots' /\ (Gone' <=> Gone) /\ Numbers' = Numbers
        /\ \A n \in Numbers : (InMsgs(n)' <=> InMsgs(n)) /\ (Held(n)' <=> Held(n))
    BY <1>1, AnswersKept
  <1>3. Others'
    BY DEF AnswersInv, Others
  <1>4. Caps'
    BY <1>2 DEF AnswersInv, Caps
  <1>5. KnownApi'
    BY <1>2 DEF AnswersInv, KnownApi
  <1>6. There'
    BY <1>1, <1>2 DEF AnswersInv, There
  <1>7. Taken'
    BY DEF AnswersInv, Taken, Commands
  <1> QED BY <1>2, <1>3, <1>4, <1>5, <1>6, <1>7 DEF AnswersInv

\* A client comes or goes, or there are locations.
LEMMA AnswersClients ==
  ASSUME AnswersInv, TypeInv',
         ProcAddClient \/ ProcRemoveClient \/ ProcLocations \/ \E c \in Clients : EmptyReport(c)
  PROVE  AnswersInv'
  <1>0. /\ AnySeq(msgs) /\ AnySeq(engq) /\ api \in Clients /\ Clients \subseteq Nat
        /\ front \in [Clients -> Fronts(used.sessions, Len(taken))]
        /\ Owned /\ There /\ TypeInv
    BY AnswersFacts DEF AnswersInv
  <1> DEFINE h == Head(msgs)
  <1>1. SameCalled(engq, engq)
    BY <1>0, QuietCalls
  <1>2. ASSUME NEW type, Receive(type), type \in {"addClient", "removeClient", "locations"}
        PROVE  /\ h \in In(msgs) /\ h.type = type
               /\ SameAsks(msgs, msgs')
               /\ Some(msgs, EngineUp) => Some(msgs', EngineUp)
               /\ Some(msgs, Adding(api)) =>
                     Some(msgs', Adding(api)) \/ (type = "addClient" /\ h.client = api)
               /\ Precedes(msgs, Adding(api), Asking) => Precedes(msgs', Adding(api), Asking)
    <2>1. msgs # << >> /\ msgs' = Tail(msgs) /\ h.type = type /\ h \in In(msgs)
      BY <1>0, <1>2, ReceiveSome
    <2>2. h.type \notin Asks \cup {"engineUp"} /\ h.type \notin Answers
      BY <1>2, <2>1 DEF Asks, Answers
    <2> QED BY <1>0, <2>1, <2>2, MsgsKept
  <1>3. CASE ProcAddClient
    <2>1. /\ Receive("addClient") /\ known' = known \cup {h.client}
          /\ UNCHANGED <<engq, pending, capsKnown, sessions, api, front, taken>>
      BY <1>3 DEF ProcAddClient
    <2>2. /\ SameAsks(msgs, msgs')
          /\ Some(msgs, EngineUp) => Some(msgs', EngineUp)
          /\ Some(msgs, Adding(api)) => Some(msgs', Adding(api)) \/ h.client = api
          /\ Precedes(msgs, Adding(api), Asking) => Precedes(msgs', Adding(api), Asking)
      BY <1>2, <2>1
    <2>3. /\ Some(engq, OpenCall) \/ Some(msgs, EngineUp) =>
                Some(engq', OpenCall) \/ Some(msgs', EngineUp)
          /\ api \in known => api \in known'
          /\ api \notin known' /\ Some(msgs, Adding(api)) => Some(msgs', Adding(api))
      BY <2>1, <2>2
    <2> QED BY <1>1, <2>1, <2>2, <2>3, QuietStep
  <1>4. CASE ProcRemoveClient
    <2> DEFINE c == h.client
               mine == {s \in DOMAIN sessions : sessions[s].client = c}
               left == Restrict(sessions, DOMAIN sessions \ mine)
               calls == {Call("stop", [client |-> c, session |-> s, n |-> 0], sessions[s].mode) :
                            s \in mine}
               row == SetToSeq(calls)
    <2>1. /\ Receive("removeClient") /\ sessions' = left
          /\ known' = known \ {c} /\ engq' = engq \o row
          /\ UNCHANGED <<pending, capsKnown, api, front, taken>>
      BY <1>4 DEF ProcRemoveClient
    <2>2. /\ h \in In(msgs) /\ h.type = "removeClient"
          /\ SameAsks(msgs, msgs')
          /\ Some(msgs, EngineUp) => Some(msgs', EngineUp)
          /\ Some(msgs, Adding(api)) => Some(msgs', Adding(api))
          /\ Precedes(msgs, Adding(api), Asking) => Precedes(msgs', Adding(api), Asking)
      BY <1>2, <2>1
    <2>3. c < api /\ c # api
      <3>1. c < api
        BY <1>0, <2>2 DEF Owned
      <3>2. c \in Clients
        BY <2>2, AnswersFacts DEF MsgOK
      <3> QED BY <1>0, <3>1, <3>2
    <2>4. AnySeq(row) /\ In(row) = calls
      BY <1>0, StopRow
    <2>5. /\ DOMAIN left = DOMAIN sessions \ mine
          /\ \A s \in DOMAIN left : left[s] = sessions[s]
      BY DEF Restrict
    <2>6. \A s \in mine : s # Here /\ s \in DOMAIN sessions
      BY <1>0, <2>3 DEF There
    <2>7. \A e \in calls : Foreign(e, e.op)
      <3> SUFFICES ASSUME NEW s \in mine
                   PROVE  LET e == Call("stop", [client |-> c, session |-> s, n |-> 0],
                                        sessions[s].mode)
                          IN Foreign(e, e.op)
        OBVIOUS
      <3>1. s # Here /\ c < api
        BY <2>3, <2>6
      <3> HIDE DEF c, mine, left, calls, row
      <3> QED BY <3>1 DEF Foreign, Call
    <2>8. Here \in DOMAIN left <=> Here \in DOMAIN sessions
      BY <2>5, <2>6
    <2> HIDE DEF calls, left, mine, row
    <2>9. SameCalled(engq, engq') /\ (Some(engq, OpenCall) => Some(engq', OpenCall))
      BY <1>0, <2>1, <2>4, <2>7, QuietCalls, ConcatSome
    <2>10. /\ Here \in DOMAIN sessions' <=> Here \in DOMAIN sessions
           /\ Here \in DOMAIN sessions => sessions'[Here].client = sessions[Here].client
      BY <2>1, <2>5, <2>8
    <2>11. api \in known => api \in known'
      BY <2>1, <2>3
    <2>12. /\ Some(engq, OpenCall) \/ Some(msgs, EngineUp) =>
                 Some(engq', OpenCall) \/ Some(msgs', EngineUp)
           /\ api \notin known' /\ Some(msgs, Adding(api)) => Some(msgs', Adding(api))
      BY <2>2, <2>9
    <2> QED BY <2>1, <2>2, <2>9, <2>10, <2>11, <2>12, QuietStep
  <1>5. CASE ProcLocations
    <2>1. /\ Receive("locations")
          /\ UNCHANGED <<engq, pending, capsKnown, known, sessions, api, taken>>
          /\ front' = [c \in Clients |-> IF c \in known THEN OnBatchingCb(front[c]) ELSE front[c]]
      BY <1>5 DEF ProcLocations, adapter
    <2>2. \A c \in Clients : /\ front'[c].requests = front[c].requests
                             /\ front'[c].session = front[c].session
      BY <1>0, <2>1, ReportKind
    <2>3. /\ SameAsks(msgs, msgs')
          /\ Some(msgs, EngineUp) => Some(msgs', EngineUp)
          /\ Some(msgs, Adding(api)) => Some(msgs', Adding(api))
          /\ Precedes(msgs, Adding(api), Asking) => Precedes(msgs', Adding(api), Asking)
      BY <1>2, <2>1
    <2> QED BY <1>1, <2>1, <2>2, <2>3, QuietStep
  <1>6. ASSUME NEW c \in Clients, EmptyReport(c) PROVE AnswersInv'
    <2> DEFINE g == [front[c] EXCEPT !.thread = FALSE]
    <2>1. /\ front' = [front EXCEPT ![c] = OnBatchingCb(g)]
          /\ UNCHANGED <<msgs, engq, pending, capsKnown, known, sessions, api, taken>>
      BY <1>0, <1>6 DEF EmptyReport, adapter
    <2>2. /\ g \in Fronts(used.sessions, Len(taken))
          /\ g.requests = front[c].requests /\ g.session = front[c].session
      <3>1. PICK f : f = front[c]
        OBVIOUS
      <3>2. f \in Fronts(used.sessions, Len(taken))
        BY <1>0, <3>1
      <3>3. g = [f EXCEPT !.thread = FALSE]
        BY <3>1
      <3>4. [f EXCEPT !.thread = FALSE] \in Fronts(used.sessions, Len(taken))
        BY <3>2, FrontSet
      <3>5. [f EXCEPT !.thread = FALSE].requests = f.requests
        BY <3>2, FrontSet
      <3>6. [f EXCEPT !.thread = FALSE].session = f.session
        BY <3>2, FrontSet
      <3> QED BY <3>1, <3>3, <3>4, <3>5, <3>6
    <2> HIDE DEF g
    <2>3. OnBatchingCb(g).requests = front[c].requests /\ OnBatchingCb(g).session = front[c].session
      BY <2>2, ReportKind
    <2>4. \A d \in Clients : /\ front'[d].requests = front[d].requests
                             /\ front'[d].session = front[d].session
      BY <1>0, <2>1, <2>3
    <2>5. SameAsks(msgs, msgs')
      BY <1>0, <2>1, QuietMsgs
    <2> QED BY <1>1, <2>1, <2>4, <2>5, QuietStep
  <1> QED BY <1>3, <1>4, <1>5, <1>6

\* What an answered call leaves: the queue without it, and one with the locations
\* there are and the answer behind.
LEMMA AnswerSteps ==
  ASSUME AnswersInv, Accept \/ Refuse
  PROVE  \E ok \in BOOLEAN, loc \in {<< >>, <<[type |-> "locations"]>>} :
           LET e == Head(engq)
               r == msgs \o loc
           IN /\ engq # << >> /\ engq' = Tail(engq) /\ e \in In(engq)
              /\ e.op \in {"restart"} \cup Asks
              /\ AnySeq(r) /\ r = msgs \o loc
              /\ e.op = "restart" => msgs' = r
              /\ e.op # "restart" => msgs' = Append(r, AnswerTo(e, ok))
              /\ UNCHANGED <<pending, capsKnown, known, sessions, api, front, taken>>
  <1> DEFINE e == Head(engq)
  <1>0. /\ AnySeq(msgs) /\ AnySeq(engq)
        /\ \A d \in In(engq) : CallOK(d, used.sessions, Len(taken))
    BY AnswersFacts
  <1>1. PICK ok \in BOOLEAN, loc \in {<< >>, <<[type |-> "locations"]>>} :
          /\ engq # << >> /\ e.op # "open" /\ engq' = Tail(engq)
          /\ msgs' = (msgs \o loc) \o Answer(e, ok)
          /\ UNCHANGED <<pending, capsKnown, known, sessions, api, front, taken>>
    <2>1. CASE Accept
      BY <2>1 DEF Accept, adapter
    <2>2. CASE Refuse
      <3>1. msgs \o << >> = msgs
        BY <1>0 DEF AnySeq
      <3>2. /\ engq # << >> /\ e.op # "open" /\ engq' = Tail(engq)
            /\ msgs' = (msgs \o << >>) \o Answer(e, FALSE)
            /\ UNCHANGED <<pending, capsKnown, known, sessions, api, front, taken>>
        BY <2>2, <3>1 DEF Refuse, adapter
      <3> QED BY <3>2
    <2> QED BY <2>1, <2>2
  <1>2. e \in In(engq)
    BY <1>0, <1>1, TailSome
  <1>3. e.op \in {"restart"} \cup Asks
    BY <1>0, <1>1, <1>2 DEF CallOK
  <1> HIDE DEF e
  <1> DEFINE r == msgs \o loc
             m == AnswerTo(e, ok)
  <1>4. AnySeq(r)
    <2>1. loc = << >> \/ loc = <<[type |-> "locations"]>>
      OBVIOUS
    <2> QED BY <1>0, <1>3, <2>1, AnswerRow
  <1>5. Answer(e, ok) = IF e.op = "restart" THEN << >> ELSE <<m>>
    BY <1>3, AnswerIs
  <1>6. r = msgs \o loc
    OBVIOUS
  <1> HIDE DEF r, m
  <1>7. r \o << >> = r /\ r \o <<m>> = Append(r, m)
    BY <1>4 DEF AnySeq
  <1>8. /\ e.op = "restart" => msgs' = r
        /\ e.op # "restart" => msgs' = Append(r, m)
    BY <1>1, <1>5, <1>6, <1>7
  <1> QED BY <1>1, <1>2, <1>3, <1>4, <1>6, <1>8 DEF e, r, m

\* The locations are about no request.
LEMMA LocationsKept ==
  ASSUME AnswersInv, NEW loc \in {<< >>, <<[type |-> "locations"]>>}
  PROVE  LET r == msgs \o loc
         IN /\ AnySeq(r) /\ SameAsks(msgs, r)
            /\ Some(msgs, EngineUp) => Some(r, EngineUp)
            /\ Some(msgs, Adding(api)) => Some(r, Adding(api))
            /\ Precedes(msgs, Adding(api), Asking) => Precedes(r, Adding(api), Asking)
            /\ msgs # << >> => Head(r) = Head(msgs)
  <1> DEFINE x == [type |-> "locations"]
  <1>1. AnySeq(msgs)
    BY AnswersFacts
  <1>2. /\ AnySeq(<<x>>) /\ In(<<x>>) = {x}
        /\ AnySeq(<< >>) /\ In(<< >>) = {}
    BY ShortSome
  <1>3. Harmless(x) /\ x.type # "addClient"
    BY DEF Harmless, Asks, Answers
  <1> HIDE DEF x
  <1>4. AnySeq(loc) /\ \A m \in In(loc) : Harmless(m) /\ m.type # "addClient"
    BY <1>2, <1>3 DEF x
  <1>5. AnySeq(msgs \o loc) /\ (msgs # << >> => Head(msgs \o loc) = Head(msgs))
    BY <1>1, <1>4, ConcatSome, AdjacentMore
  <1> QED BY <1>1, <1>4, <1>5, MsgsKept

\* A call that is about no request of the client in use is answered.
LEMMA AnswersForeign ==
  ASSUME AnswersInv, TypeInv', Accept \/ Refuse,
         Head(engq).op = "restart" \/ Foreign(Head(engq), Head(engq).op)
  PROVE  AnswersInv'
  <1> DEFINE e == Head(engq)
  <1>0. AnySeq(msgs) /\ AnySeq(engq)
    BY AnswersFacts
  <1>1. PICK ok \in BOOLEAN, loc \in {<< >>, <<[type |-> "locations"]>>} :
           LET r == msgs \o loc
           IN /\ engq # << >> /\ engq' = Tail(engq) /\ e \in In(engq)
              /\ e.op \in {"restart"} \cup Asks
              /\ AnySeq(r) /\ r = msgs \o loc
              /\ e.op = "restart" => msgs' = r
              /\ e.op # "restart" => msgs' = Append(r, AnswerTo(e, ok))
              /\ UNCHANGED <<pending, capsKnown, known, sessions, api, front, taken>>
    BY AnswerSteps
  <1> DEFINE r == msgs \o loc
             m == AnswerTo(e, ok)
  <1>2. /\ engq # << >> /\ engq' = Tail(engq) /\ e.op \in {"restart"} \cup Asks
        /\ e.op = "restart" => msgs' = r
        /\ e.op # "restart" => msgs' = Append(r, m)
        /\ UNCHANGED <<pending, capsKnown, known, sessions, api, front, taken>>
    BY <1>1
  <1>3. /\ AnySeq(r) /\ SameAsks(msgs, r)
        /\ Some(msgs, EngineUp) => Some(r, EngineUp)
        /\ Some(msgs, Adding(api)) => Some(r, Adding(api))
        /\ Precedes(msgs, Adding(api), Asking) => Precedes(r, Adding(api), Asking)
    BY LocationsKept
  <1>4. SameCalled(engq, engq') /\ (Some(engq, OpenCall) => Some(engq', OpenCall))
    <2>1. e.op \in Asks => e.n = 0
      BY DEF Foreign, Asks
    <2>2. SameCalled(engq, Tail(engq))
      BY <1>0, <1>2, <2>1, QuietCalls
    <2>3. Some(engq, OpenCall) <=> Some(engq', OpenCall) \/ Of(OpenCall, e)
      BY <1>0, <1>2, TailSome
    <2>4. ~Of(OpenCall, e)
      BY <1>2, OfIs DEF Asks
    <2> QED BY <1>2, <2>2, <2>3, <2>4
  <1> HIDE DEF r
  <1>5. /\ SameAsks(msgs, msgs')
        /\ Some(msgs, EngineUp) => Some(msgs', EngineUp)
        /\ Some(msgs, Adding(api)) => Some(msgs', Adding(api))
        /\ Precedes(msgs, Adding(api), Asking) => Precedes(msgs', Adding(api), Asking)
    <2>1. CASE e.op = "restart"
      BY <1>2, <1>3, <2>1
    <2>2. CASE Foreign(e, e.op) /\ e.op # "restart"
      <3>1. m.type = "stopped" /\ m.n = 0 /\ m.client < api /\ m.session # Here
        BY <2>2 DEF Foreign, AnswerTo, AnswerType
      <3>2. Harmless(m)
        BY <3>1 DEF Harmless, Foreign
      <3>3. /\ \A n \in Nat \ {0} : ~Of(AskedN(n), m) /\ ~Of(AnsweredN(n), m)
            /\ ~Of(Adding(api), m) /\ ~Of(Asking, m)
        BY <3>1, NumberIs DEF Asks
      <3>4. msgs' = Append(r, m)
        BY <1>2, <2>2
      <3> HIDE DEF m, e
      <3>5. SameAsks(r, msgs')
        BY <1>3, <3>2, <3>4, QuietMsgs
      <3>6. /\ \A c : Some(msgs', c) <=> Some(r, c) \/ Of(c, m)
            /\ \A a, b : Precedes(r, a, b) /\ (Of(a, m) => ~Some(r, b)) => Precedes(msgs', a, b)
        BY <1>3, <3>4, AppendSome
      <3>7. SameAsks(msgs, msgs')
        BY <1>3, <3>5 DEF SameAsks
      <3> QED BY <1>3, <3>3, <3>6, <3>7
    <2> QED BY <2>1, <2>2
  <1> HIDE DEF e, m
  <1> QED BY <1>2, <1>4, <1>5, QuietStep

\* The modem opens, restarts, or has a full batch.
LEMMA AnswersModem ==
  ASSUME AnswersInv, TypeInv', Open \/ Crash \/ BatchFull
  PROVE  AnswersInv'
  <1>0. AnySeq(msgs) /\ AnySeq(engq)
    BY AnswersFacts
  <1>1. ASSUME NEW m, m.type \in {"engineUp", "locations"}, msgs' = Append(msgs, m)
        PROVE  /\ SameAsks(msgs, msgs')
               /\ Some(msgs, EngineUp) \/ m.type = "engineUp" => Some(msgs', EngineUp)
               /\ Some(msgs, Adding(api)) => Some(msgs', Adding(api))
               /\ Precedes(msgs, Adding(api), Asking) => Precedes(msgs', Adding(api), Asking)
    <2>1. Harmless(m) /\ m.type # "addClient"
      BY <1>1 DEF Harmless, Asks, Answers
    <2>2. AnySeq(<<m>>) /\ In(<<m>>) = {m} /\ Append(msgs, m) = msgs \o <<m>>
      BY <1>0, ShortSome DEF AnySeq
    <2>3. /\ SameAsks(msgs, msgs')
          /\ Some(msgs, EngineUp) => Some(msgs', EngineUp)
          /\ Some(msgs, Adding(api)) => Some(msgs', Adding(api))
          /\ Precedes(msgs, Adding(api), Asking) => Precedes(msgs', Adding(api), Asking)
      BY <1>0, <1>1, <2>1, <2>2, MsgsKept
    <2>4. m.type = "engineUp" => Some(msgs', EngineUp)
      BY <1>0, <1>1, AppendSome, OfIs
    <2> QED BY <2>3, <2>4
  <1>2. CASE Open
    <2> DEFINE m == [type |-> "engineUp"]
    <2>1. /\ engq # << >> /\ Head(engq).op = "open" /\ engq' = Tail(engq)
          /\ msgs' = Append(msgs, m)
          /\ UNCHANGED <<pending, capsKnown, known, sessions, api, front, taken>>
      BY <1>2 DEF Open, adapter
    <2>2. m.type = "engineUp"
      OBVIOUS
    <2> HIDE DEF m
    <2>3. SameCalled(engq, engq')
      BY <1>0, <2>1, QuietCalls DEF Asks
    <2>4. /\ SameAsks(msgs, msgs') /\ Some(msgs', EngineUp)
          /\ Some(msgs, Adding(api)) => Some(msgs', Adding(api))
          /\ Precedes(msgs, Adding(api), Asking) => Precedes(msgs', Adding(api), Asking)
      BY <1>1, <2>1, <2>2
    <2> QED BY <2>1, <2>3, <2>4, QuietStep
  <1>3. CASE Crash
    <2> DEFINE e == [op |-> "open"]
    <2>1. /\ engq' = Append(engq, e)
          /\ UNCHANGED <<msgs, pending, capsKnown, known, sessions, api, front, taken>>
      BY <1>3 DEF Crash, adapter
    <2>2. e.op = "open"
      OBVIOUS
    <2> HIDE DEF e
    <2>3. SameCalled(engq, engq') /\ Some(engq', OpenCall)
      BY <1>0, <2>1, <2>2, QuietCalls, AppendSome, OfIs DEF Asks
    <2>4. SameAsks(msgs, msgs')
      BY <1>0, <2>1, QuietMsgs
    <2> QED BY <2>1, <2>3, <2>4, QuietStep
  <1>4. CASE BatchFull
    <2> DEFINE m == [type |-> "locations"]
    <2>1. /\ msgs' = Append(msgs, m)
          /\ UNCHANGED <<engq, pending, capsKnown, known, sessions, api, front, taken>>
      BY <1>4 DEF BatchFull, adapter
    <2>2. m.type = "locations"
      OBVIOUS
    <2> HIDE DEF m
    <2>3. SameCalled(engq, engq')
      BY <1>0, <2>1, QuietCalls
    <2>4. /\ SameAsks(msgs, msgs')
          /\ Some(msgs, EngineUp) => Some(msgs', EngineUp)
          /\ Some(msgs, Adding(api)) => Some(msgs', Adding(api))
          /\ Precedes(msgs, Adding(api), Asking) => Precedes(msgs', Adding(api), Asking)
      BY <1>1, <2>1, <2>2
    <2> QED BY <2>1, <2>3, <2>4, QuietStep
  <1> QED BY <1>2, <1>3, <1>4

\* Behind one of class a, and nothing else, there comes one of class b.
LEMMA AdjacentAppend ==
  ASSUME NEW q, AnySeq(q), NEW m, NEW a, NEW b, \A x \in In(q) : Of(a, x), Precedes(q, a, a),
         Of(b, m), ~Of(a, m)
  PROVE  Adjacent(Append(q, m), a, b)
  <1> DEFINE r == Append(q, m)
  <1>1. /\ Len(q) \in Nat /\ Len(r) = Len(q) + 1
        /\ \A i \in 1..Len(q) : r[i] = q[i]
        /\ r[Len(q) + 1] = m
    BY AppendAt
  <1> HIDE DEF r
  <1>2. \A i \in 1..Len(q) : Of(a, q[i])
    BY DEF In
  <1>3. \A i \in 1..Len(q) : i = Len(q)
    <2> SUFFICES ASSUME NEW i \in 1..Len(q) PROVE i = Len(q)
      OBVIOUS
    <2>1. Len(q) \in 1..Len(q)
      BY <1>1
    <2>2. Len(q) <= i
      BY <1>2, <2>1 DEF Precedes
    <2> QED BY <1>1, <2>2
  <1>4. ASSUME NEW i \in 1..Len(r), Of(a, r[i]) PROVE i < Len(r) /\ Of(b, r[i + 1])
    <2>1. i \in 1..Len(q)
      BY <1>1, <1>4
    <2>2. i = Len(q)
      BY <1>3, <2>1
    <2> QED BY <1>1, <2>2
  <1>5. Adjacent(r, a, b)
    BY <1>4 DEF Adjacent
  <1> QED BY <1>5 DEF r

\* The adapter's thread has come to a command: it is one of the client in use, whom
\* the adapter knows, and the first of two comes first.
LEMMA HeadAsk ==
  ASSUME AnswersInv, NEW type \in Asks, Receive(type)
  PROVE  LET a == Head(msgs) IN
         /\ msgs # << >> /\ msgs' = Tail(msgs) /\ AnySeq(msgs')
         /\ a \in In(msgs) /\ In(msgs') \subseteq In(msgs)
         /\ a.type = type /\ Mine(a, type) /\ a.n \in Numbers /\ a.session # 0
         /\ api \in known /\ a.client = api
         /\ InMsgs(a.n) /\ ~Held(a.n) /\ ~Called(a.n) /\ ~Answered(a.n)
         /\ \A n : Of(AskedN(n), a) <=> n = a.n
         /\ \A n \in Numbers : InMsgs(n)' <=> InMsgs(n) /\ n # a.n
         /\ \A n : Answered(n)' <=> Answered(n)
         /\ Some(msgs', EngineUp) <=> Some(msgs, EngineUp)
         /\ \A x, y : Precedes(msgs, x, y) => Precedes(msgs', x, y)
         /\ \A x, y : Adjacent(msgs, x, y) => Adjacent(msgs', x, y)
         /\ \A g, t : Adjacent(msgs, AskedN(g), AskedN(t)) /\ a.n = g =>
                          Of(AskedN(t), Head(msgs'))
         /\ \A g, t : Adjacent(msgs, AskedN(g), AskedN(t)) /\ a.n = t => ~InMsgs(g)
  <1> DEFINE a == Head(msgs)
  <1>0. /\ AnySeq(msgs) /\ Owned /\ Spots /\ KnownApi
        /\ \A m \in In(msgs) : MsgOK(m, used.sessions, Len(taken))
    BY AnswersFacts DEF AnswersInv
  <1>1. /\ msgs # << >> /\ msgs' = Tail(msgs) /\ a.type = type /\ AnySeq(msgs')
        /\ In(msgs) = In(msgs') \cup {a}
        /\ \A c : Some(msgs, c) <=> Some(msgs', c) \/ Of(c, a)
        /\ \A x, y : Precedes(msgs, x, y) => Precedes(msgs', x, y)
        /\ \A x, y : Precedes(msgs, x, y) /\ Of(y, a) => ~Some(msgs', x)
    BY <1>0, ReceiveSome
  <1>2. /\ \A x, y : Adjacent(msgs, x, y) => Adjacent(msgs', x, y)
        /\ \A x, y : Adjacent(msgs, x, y) /\ Of(x, a) => Of(y, Head(msgs'))
        /\ \A x, y : Adjacent(msgs, x, y) /\ Of(y, a) /\ Precedes(msgs, y, y)
                         => \A i \in 1..Len(msgs) : ~Of(x, msgs[i])
    BY <1>0, <1>1, AdjacentMore
  <1> HIDE DEF a
  <1>3. a \in In(msgs) /\ In(msgs') \subseteq In(msgs)
    BY <1>1
  <1>4. Mine(a, type) /\ a.client = api /\ a.n \in Numbers /\ a.session # 0
    <2>1. Mine(a, type)
      BY <1>0, <1>1, <1>3 DEF Owned
    <2>2. a.session \in 1..used.sessions
      BY <1>0, <1>1, <1>3 DEF MsgOK
    <2> QED BY <2>1, <2>2, AnswersFacts, NumbersAre DEF Mine
  <1>5. \A n : Of(AskedN(n), a) <=> n = a.n
    BY <1>1, NumberIs
  <1>6. InMsgs(a.n) /\ ~Held(a.n) /\ ~Called(a.n) /\ ~Answered(a.n)
    <2>1. InMsgs(a.n)
      BY <1>1, <1>5 DEF InMsgs
    <2> QED BY <1>0, <1>4, <2>1 DEF Spots, Spot
  <1>7. ~Some(msgs', AskedN(a.n))
    BY <1>0, <1>1, <1>4, <1>5 DEF Spots, Spot
  <1>8. \A n \in Numbers : InMsgs(n)' <=> InMsgs(n) /\ n # a.n
    BY <1>1, <1>5, <1>7 DEF InMsgs
  <1>9. \A n : Answered(n)' <=> Answered(n)
    <2>1. \A n : ~Of(AnsweredN(n), a)
      BY <1>1, NumberIs DEF Asks, Answers
    <2> QED BY <1>1, <2>1 DEF Answered
  <1>10. Some(msgs', EngineUp) <=> Some(msgs, EngineUp)
    <2>1. ~Of(EngineUp, a)
      BY <1>1, OfIs DEF Asks
    <2> QED BY <1>1, <2>1
  <1>11. api \in known
    <2> SUFFICES ASSUME api \notin known PROVE FALSE
      OBVIOUS
    <2>1. Of(Asking, a) /\ ~Of(Adding(api), a)
      BY <1>1, NumberIs DEF Asks
    <2> QED BY <1>0, <1>1, <2>1 DEF KnownApi
  <1>12. \A g, t : Adjacent(msgs, AskedN(g), AskedN(t)) /\ a.n = g => Of(AskedN(t), Head(msgs'))
    BY <1>2, <1>5
  <1>13. \A g, t : Adjacent(msgs, AskedN(g), AskedN(t)) /\ a.n = t => ~InMsgs(g)
    <2> SUFFICES ASSUME NEW g, NEW t, Adjacent(msgs, AskedN(g), AskedN(t)), a.n = t
                 PROVE  ~InMsgs(g)
      OBVIOUS
    <2>1. Precedes(msgs, AskedN(t), AskedN(t)) /\ Of(AskedN(t), a)
      BY <1>0, <1>4, <1>5 DEF Spots, Spot
    <2> QED BY <1>2, <2>1 DEF InMsgs, Some
  <1>14. /\ msgs # << >> /\ msgs' = Tail(msgs) /\ a.type = type /\ AnySeq(msgs')
         /\ \A x, y : Precedes(msgs, x, y) => Precedes(msgs', x, y)
         /\ \A x, y : Adjacent(msgs, x, y) => Adjacent(msgs', x, y)
    BY <1>1, <1>2
  <1> QED BY <1>3, <1>4, <1>5, <1>6, <1>8, <1>9, <1>10, <1>11, <1>12, <1>13, <1>14 DEF a

\* A step that leaves the requests and the session of the client in use as they are.
LEMMA SameRequests ==
  ASSUME Requested' = Requested, Here' = Here, UNCHANGED api
  PROVE  /\ Numbers' = Numbers /\ (Shape' <=> Shape)
         /\ \A op, n : Wanted(op, n)' <=> Wanted(op, n)
         /\ \A m, op : Mine(m, op)' <=> Mine(m, op)
         /\ \A m, op : Foreign(m, op)' <=> Foreign(m, op)
  BY DEF Numbers, Shape, Wanted, Mine, Foreign

\* A command is held.
LEMMA AnswersHold ==
  ASSUME AnswersInv, TypeInv', NEW type \in Asks, Hold(type)
  PROVE  AnswersInv'
  <1> DEFINE a == Head(msgs)
  <1>0. /\ AnySeq(pending) /\ Shape /\ Others /\ Owned /\ Spots /\ Caps /\ There /\ Taken
        /\ \A m \in In(pending) : m.type \in Asks
        /\ Numbers \subseteq Nat \ {0}
    BY AnswersFacts, NumbersAre DEF AnswersInv
  <1>1. /\ Receive(type) /\ ~capsKnown /\ pending' = Append(pending, a)
        /\ UNCHANGED <<engq, capsKnown, known, sessions, api, front, taken>>
    BY DEF Hold
  <1>2. /\ msgs # << >> /\ msgs' = Tail(msgs) /\ AnySeq(msgs')
        /\ a \in In(msgs) /\ In(msgs') \subseteq In(msgs)
        /\ a.type = type /\ Mine(a, type) /\ a.n \in Numbers
        /\ api \in known
        /\ InMsgs(a.n) /\ ~Held(a.n) /\ ~Called(a.n) /\ ~Answered(a.n)
        /\ \A n : Of(AskedN(n), a) <=> n = a.n
        /\ \A n \in Numbers : InMsgs(n)' <=> InMsgs(n) /\ n # a.n
        /\ \A n : Answered(n)' <=> Answered(n)
        /\ Some(msgs', EngineUp) <=> Some(msgs, EngineUp)
        /\ \A x, y : Precedes(msgs, x, y) => Precedes(msgs', x, y)
        /\ \A x, y : Adjacent(msgs, x, y) => Adjacent(msgs', x, y)
        /\ \A g, t : Adjacent(msgs, AskedN(g), AskedN(t)) /\ a.n = g =>
                         Of(AskedN(t), Head(msgs'))
        /\ \A g, t : Adjacent(msgs, AskedN(g), AskedN(t)) /\ a.n = t => ~InMsgs(g)
    BY <1>1, HeadAsk
  <1> HIDE DEF a
  <1>3. /\ AnySeq(pending') /\ In(pending') = In(pending) \cup {a}
        /\ \A c : Some(pending', c) <=> Some(pending, c) \/ Of(c, a)
        /\ \A x, y : Precedes(pending, x, y) /\ (Of(x, a) => ~Some(pending, y)) =>
                         Precedes(pending', x, y)
    BY <1>0, <1>1, AppendSome
  <1>4. /\ Numbers' = Numbers /\ Shape' /\ Requested' = Requested
        /\ \A op, n : Wanted(op, n)' <=> Wanted(op, n)
        /\ \A m, op : Mine(m, op)' <=> Mine(m, op)
        /\ \A m, op : Foreign(m, op)' <=> Foreign(m, op)
    <2>1. Requested' = Requested /\ Here' = Here /\ UNCHANGED api
      BY <1>1 DEF Requested, Here
    <2> QED BY <1>0, <2>1, SameRequests
  <1>5. /\ \A n : Held(n)' <=> Held(n) \/ n = a.n
        /\ \A n : Called(n)' <=> Called(n)
    BY <1>1, <1>2, <1>3 DEF Held, Called
  <1>6. Owned'
    BY <1>0, <1>1, <1>2, <1>3, <1>4 DEF Owned
  <1>7. ASSUME NEW n \in Numbers PROVE Spot(n)'
    <2>1. Spot(n)
      BY <1>0, <1>7 DEF Spots
    <2>2. /\ Precedes(msgs', AskedN(n), AskedN(n)) /\ Precedes(msgs', AnsweredN(n), AnsweredN(n))
          /\ Precedes(engq', CalledN(n), CalledN(n))
      BY <1>1, <1>2, <2>1 DEF Spot
    <2>3. Precedes(pending', AskedN(n), AskedN(n))
      BY <1>2, <1>3, <2>1 DEF Spot, Held
    <2> QED BY <1>2, <1>5, <1>7, <2>1, <2>2, <2>3 DEF Spot
  <1>8. ASSUME NEW g, NEW t, Numbers = {g, t}, g # t, Ahead(g, t) PROVE Ahead(g, t)'
    <2>0. /\ g \in Numbers /\ t \in Numbers /\ (a.n = g \/ a.n = t) /\ Spot(g) /\ Spot(t)
          /\ (InMsgs(g) \/ Held(g))
      BY <1>0, <1>1, <1>2, <1>8 DEF Spots, Caps
    <2>1. Held(t)' => Held(g)' /\ Adjacent(pending', AskedN(g), AskedN(t))
      <3>1. CASE a.n = g
        BY <1>2, <1>5, <1>8, <3>1 DEF Ahead
      <3>2. CASE a.n = t
        <4>1. Held(g) /\ ~Held(t)
          BY <1>2, <1>8, <2>0, <3>2 DEF Ahead
        <4>2. \A x \in In(pending) : Of(AskedN(g), x)
          <5> SUFFICES ASSUME NEW x \in In(pending) PROVE Of(AskedN(g), x)
            OBVIOUS
          <5>1. x.n \in Numbers /\ x.type \in Asks
            BY <1>0, NumbersAre DEF Owned, Mine
          <5>2. x.n # t
            BY <4>1, <5>1, InSome, NumberIs DEF Held
          <5> QED BY <1>8, <5>1, <5>2, NumberIs
        <4>3. Precedes(pending, AskedN(g), AskedN(g)) /\ Of(AskedN(t), a) /\ ~Of(AskedN(g), a)
          BY <1>2, <1>8, <2>0, <3>2 DEF Spot
        <4>4. Adjacent(pending', AskedN(g), AskedN(t))
          BY <1>0, <1>1, <4>2, <4>3, AdjacentAppend
        <4> QED BY <1>5, <4>1, <4>4
      <3> QED BY <2>0, <3>1, <3>2
    <2>2. Held(g)' /\ InMsgs(t)' => Of(AskedN(t), Head(msgs'))
      BY <1>2, <1>8, <2>0 DEF Ahead
    <2>3. /\ Adjacent(msgs', AskedN(g), AskedN(t)) /\ Precedes(engq', CalledN(g), CalledN(t))
          /\ Precedes(msgs', AnsweredN(g), AnsweredN(t))
      BY <1>1, <1>2, <1>8 DEF Ahead
    <2> QED BY <1>2, <1>5, <1>8, <2>1, <2>2, <2>3 DEF Ahead
  <1>9. Spots'
    BY <1>0, <1>4, <1>7, <1>8, NumbersAre DEF Spots
  <1>10. Caps'
    BY <1>0, <1>1, <1>2, <1>4, <1>5 DEF Caps
  <1>11. KnownApi'
    BY <1>1, <1>2 DEF KnownApi
  <1>12. There'
    <2>1. Gone' <=> Gone
      BY <1>2, <1>4, <1>5 DEF Gone
    <2>2. Here' = Here
      BY <1>1 DEF Here
    <2> QED BY <1>0, <1>1, <2>1, <2>2 DEF There
  <1>13. Others' /\ Taken'
    BY <1>0, <1>1 DEF Others, Taken, Commands
  <1> QED BY <1>4, <1>6, <1>9, <1>10, <1>11, <1>12, <1>13 DEF AnswersInv

\* A command is carried out: there is a call for the modem.
LEMMA AnswersCalled ==
  ASSUME AnswersInv, TypeInv', NEW type \in Asks, Receive(type), capsKnown,
         NEW e, engq' = Append(engq, e), e.op = type, e.n = Head(msgs).n,
         e.client = Head(msgs).client, e.session = Head(msgs).session,
         UNCHANGED <<pending, capsKnown, known, api, front, taken>>,
         There'
  PROVE  AnswersInv'
  <1> DEFINE a == Head(msgs)
  <1>0. /\ AnySeq(engq) /\ Shape /\ Others /\ Owned /\ Spots /\ Caps /\ There /\ Taken
        /\ Numbers \subseteq Nat \ {0}
    BY AnswersFacts, NumbersAre DEF AnswersInv
  <1>1. e.op = type /\ e.n = a.n /\ e.client = a.client /\ e.session = a.session
    OBVIOUS
  <1>2. /\ AnySeq(msgs')
        /\ a \in In(msgs) /\ In(msgs') \subseteq In(msgs)
        /\ a.type = type /\ Mine(a, type) /\ a.n \in Numbers
        /\ api \in known
        /\ InMsgs(a.n) /\ ~Held(a.n) /\ ~Called(a.n) /\ ~Answered(a.n)
        /\ \A n : Of(AskedN(n), a) <=> n = a.n
        /\ \A n \in Numbers : InMsgs(n)' <=> InMsgs(n) /\ n # a.n
        /\ \A n : Answered(n)' <=> Answered(n)
        /\ \A x, y : Precedes(msgs, x, y) => Precedes(msgs', x, y)
        /\ \A x, y : Adjacent(msgs, x, y) => Adjacent(msgs', x, y)
        /\ \A g, t : Adjacent(msgs, AskedN(g), AskedN(t)) /\ a.n = t => ~InMsgs(g)
    BY HeadAsk
  <1> HIDE DEF a
  <1>3. /\ In(engq') = In(engq) \cup {e}
        /\ \A c : Some(engq', c) <=> Some(engq, c) \/ Of(c, e)
        /\ \A x, y : Precedes(engq, x, y) /\ (Of(x, e) => ~Some(engq, y)) => Precedes(engq', x, y)
    BY <1>0, AppendSome
  <1>4. /\ Numbers' = Numbers /\ Shape' /\ Requested' = Requested
        /\ \A m, op : Mine(m, op)' <=> Mine(m, op)
        /\ \A m, op : Foreign(m, op)' <=> Foreign(m, op)
    <2>1. Requested' = Requested /\ Here' = Here /\ UNCHANGED api
      BY DEF Requested, Here
    <2> QED BY <1>0, <2>1, SameRequests
  <1>5. /\ \A n : Of(CalledN(n), e) <=> n = a.n
        /\ \A n : Called(n)' <=> Called(n) \/ n = a.n
        /\ \A n : ~Held(n) /\ ~Held(n)'
    <2>1. \A n : Of(CalledN(n), e) <=> n = a.n
      BY <1>1, NumberIs
    <2>2. \A n : ~Held(n) /\ ~Held(n)'
      BY <1>0, ShortSome DEF Caps, Held
    <2> QED BY <1>3, <2>1, <2>2 DEF Called
  <1>6. Owned'
    <2>1. Mine(e, e.op)'
      BY <1>1, <1>2, <1>4 DEF Mine
    <2> QED BY <1>0, <1>2, <1>3, <1>4, <2>1 DEF Owned
  <1>7. ASSUME NEW n \in Numbers PROVE Spot(n)'
    <2>1. Spot(n)
      BY <1>0, <1>7 DEF Spots
    <2>2. /\ Precedes(msgs', AskedN(n), AskedN(n)) /\ Precedes(msgs', AnsweredN(n), AnsweredN(n))
          /\ Precedes(pending', AskedN(n), AskedN(n))
      BY <1>2, <2>1 DEF Spot
    <2>3. Precedes(engq', CalledN(n), CalledN(n))
      BY <1>2, <1>3, <1>5, <2>1 DEF Spot, Called
    <2> QED BY <1>2, <1>5, <1>7, <2>1, <2>2, <2>3 DEF Spot
  <1>8. ASSUME NEW g, NEW t, Numbers = {g, t}, g # t, Ahead(g, t) PROVE Ahead(g, t)'
    <2>0. g \in Numbers /\ t \in Numbers /\ (a.n = g \/ a.n = t) => Spot(g) /\ Spot(t)
      BY <1>0, <1>2, <1>8 DEF Spots
    <2>1. Adjacent(msgs', AskedN(g), AskedN(t)) /\ Precedes(msgs', AnsweredN(g), AnsweredN(t))
      BY <1>2, <1>8 DEF Ahead
    <2>2. Precedes(engq', CalledN(g), CalledN(t))
      <3>1. a.n = g => ~Called(t)
        BY <1>2, <1>8 DEF Ahead
      <3> QED BY <1>3, <1>5, <1>8, <3>1 DEF Ahead, Called
    <2>3. Called(t)' => Called(g)' \/ Answered(g)'
      <3>1. a.n = t => Called(g) \/ Answered(g)
        BY <1>2, <1>5, <1>8, <2>0 DEF Ahead, Spot
      <3> QED BY <1>2, <1>5, <1>8, <3>1 DEF Ahead
    <2>4. Answered(t)' => Answered(g)'
      BY <1>2, <1>8 DEF Ahead
    <2> QED BY <1>5, <2>1, <2>2, <2>3, <2>4 DEF Ahead
  <1>9. Spots'
    BY <1>0, <1>4, <1>7, <1>8, NumbersAre DEF Spots
  <1>10. Caps' /\ KnownApi'
    BY <1>0, <1>2 DEF Caps, KnownApi
  <1>11. Others' /\ Taken'
    BY <1>0 DEF Others, Taken, Commands
  <1> QED BY <1>4, <1>6, <1>9, <1>10, <1>11 DEF AnswersInv

\* A stop and a request for the locations find the session; they do not when it is
\* gone, but then the stop has been called already.
LEMMA SessionThere ==
  ASSUME AnswersInv, NEW type \in {"stop", "get"}, Receive(type), capsKnown
  PROVE  /\ ~Gone /\ Head(msgs).session = Here /\ Here \in DOMAIN sessions
         /\ Head(msgs).client \in known
  <1> DEFINE a == Head(msgs)
  <1>0. Spots /\ There /\ Caps
    BY DEF AnswersInv
  <1>1. /\ a.type = type /\ Mine(a, type) /\ a.n \in Numbers /\ a.session # 0
        /\ api \in known /\ a.client = api
        /\ InMsgs(a.n) /\ ~Held(a.n) /\ ~Called(a.n) /\ ~Answered(a.n)
    BY HeadAsk DEF Asks
  <1> HIDE DEF a
  <1>2. Wanted(type, a.n) /\ a.session = Here
    BY <1>1 DEF Mine
  <1>3. ~Gone
    <2>1. \A n : ~Wanted("start", n)
      BY <1>2, NumbersAre
    <2>2. ASSUME NEW n \in Numbers, Wanted("stop", n), Called(n) \/ Answered(n) PROVE FALSE
      <3>1. n # a.n
        BY <1>1, <2>2
      <3>2. Len(Requested) = 2
        <4>1. Len(Requested) # 1
          <5>1. Len(Requested) = 1 => \A k, j \in 1..Len(Requested) : k = j
            OBVIOUS
          <5> QED BY <1>2, <2>2, <3>1, <5>1 DEF Wanted
        <4>2. Len(Requested) # 0
          BY <2>2 DEF Wanted
        <4> QED BY <4>1, <4>2, NumbersAre
      <3>3. /\ Numbers = {Requested[1].n, Requested[2].n}
            /\ Wanted("get", Requested[1].n) /\ Wanted("stop", Requested[2].n)
            /\ Ahead(Requested[1].n, Requested[2].n)
        BY <1>0, <3>2, NumbersAre DEF Spots
      <3>4. n = Requested[2].n
        BY <2>2, <3>3, NumbersAre
      <3>5. a.n = Requested[1].n
        BY <1>1, <3>1, <3>3, <3>4
      <3> QED BY <1>1, <2>2, <3>3, <3>4, <3>5 DEF Ahead
    <2> QED BY <2>1, <2>2 DEF Gone
  <1> QED BY <1>0, <1>1, <1>2, <1>3 DEF There, a

\* The adapter's thread carries out a command.
LEMMA AnswersAsked ==
  ASSUME Supported, AnswersInv, TypeInv', ProcStart \/ ProcStop \/ ProcGet
  PROVE  AnswersInv'
  <1> DEFINE a == Head(msgs)
  <1>0. There /\ api \in Clients /\ Caps
    BY AnswersFacts DEF AnswersInv
  <1>1. CASE ProcStart
    <2> DEFINE e == Call("start", a, a.mode)
    <2>1. Receive("start") /\ capsKnown
      BY <1>1 DEF ProcStart
    <2>2. /\ api \in known /\ a.client = api /\ a.session # 0 /\ Mine(a, "start") /\ a.n \in Numbers
          /\ InMsgs(a.n)
      BY <2>1, HeadAsk DEF Asks
    <2>3. /\ sessions' = Extend(sessions, a.session, Session(a.client, a.mode))
          /\ engq' = Append(engq, e)
          /\ UNCHANGED <<pending, capsKnown, known, api, front, taken>>
      BY <1>1, <2>2 DEF ProcStart
    <2>4. e.op = "start" /\ e.n = a.n /\ e.client = a.client /\ e.session = a.session
      BY DEF Call
    <2>5. Here' = Here /\ a.session = Here
      BY <2>2, <2>3 DEF Here, Mine
    <2>6. Here \in DOMAIN sessions' /\ sessions'[Here].client = api
      BY <2>2, <2>3, <2>5 DEF Extend, Session
    <2>7. There'
      BY <2>3, <2>5, <2>6 DEF There
    <2> HIDE DEF e
    <2>8. "start" \in Asks
      BY DEF Asks
    <2> QED BY <2>1, <2>3, <2>4, <2>7, <2>8, AnswersCalled
  <1>2. CASE ProcStop
    <2> DEFINE e == Call("stop", a, sessions[a.session].mode)
    <2>1. Receive("stop") /\ capsKnown
      BY <1>2 DEF ProcStop
    <2>2. /\ Mine(a, "stop") /\ a.n \in Numbers
      BY <2>1, HeadAsk DEF Asks
    <2>3. a.session = Here /\ Here \in DOMAIN sessions
      BY <2>1, SessionThere
    <2>4. /\ sessions' = Without(sessions, a.session)
          /\ engq' = Append(engq, e)
          /\ UNCHANGED <<pending, capsKnown, known, api, front, taken>>
      BY <1>2, <2>3 DEF ProcStop
    <2>5. e.op = "stop" /\ e.n = a.n /\ e.client = a.client /\ e.session = a.session
      BY DEF Call
    <2> HIDE DEF e
    <2>6. Gone'
      <3>1. Of(CalledN(a.n), e)
        BY <2>5, NumberIs DEF Asks
      <3>2. Some(engq', CalledN(a.n))
        BY <2>4, <3>1, AnswersFacts, AppendSome
      <3>3. Requested' = Requested
        BY <2>4 DEF Requested
      <3>4. PICK n : n = a.n
        OBVIOUS
      <3>5. n \in Numbers' /\ Wanted("stop", n)' /\ Called(n)'
        BY <2>2, <3>2, <3>3, <3>4 DEF Mine, Numbers, Wanted, Called
      <3> QED BY <3>5 DEF Gone
    <2>7. Here' = Here /\ Here \notin DOMAIN sessions'
      BY <2>3, <2>4 DEF Here, Without, Restrict
    <2>8. There'
      BY <2>6, <2>7 DEF There
    <2>9. "stop" \in Asks
      BY DEF Asks
    <2> QED BY <2>1, <2>4, <2>5, <2>8, <2>9, AnswersCalled
  <1>3. CASE ProcGet
    <2> DEFINE e == Call("get", a, "none")
    <2>1. Receive("get") /\ capsKnown
      BY <1>3 DEF ProcGet
    <2>2. ~Gone /\ a.session = Here /\ Here \in DOMAIN sessions /\ a.client \in known
      BY <2>1, SessionThere
    <2>3. /\ engq' = Append(engq, e)
          /\ UNCHANGED <<pending, capsKnown, known, sessions, api, front, taken>>
      BY <1>3, <2>2 DEF ProcGet, adapter
    <2>4. e.op = "get" /\ e.n = a.n /\ e.client = a.client /\ e.session = a.session
      BY DEF Call
    <2>5. There'
      BY <1>0, <2>2, <2>3 DEF There, Here
    <2> HIDE DEF e
    <2>6. "get" \in Asks
      BY DEF Asks
    <2> QED BY <2>1, <2>3, <2>4, <2>5, <2>6, AnswersCalled
  <1> QED BY <1>1, <1>2, <1>3

\* The call of a request is answered.
LEMMA AnswersOwn ==
  ASSUME AnswersInv, TypeInv', Accept \/ Refuse, Mine(Head(engq), Head(engq).op),
         Head(engq).op \in Asks
  PROVE  AnswersInv'
  <1> DEFINE e == Head(engq)
  <1>0. /\ AnySeq(engq) /\ Shape /\ Others /\ Owned /\ Spots /\ Caps /\ KnownApi /\ There /\ Taken
        /\ Numbers \subseteq Nat \ {0} /\ api \in Clients
    BY AnswersFacts, NumbersAre DEF AnswersInv
  <1>1. PICK ok \in BOOLEAN, loc \in {<< >>, <<[type |-> "locations"]>>} :
           LET r == msgs \o loc
           IN /\ engq # << >> /\ engq' = Tail(engq) /\ e \in In(engq)
              /\ e.op \in {"restart"} \cup Asks
              /\ AnySeq(r) /\ r = msgs \o loc
              /\ e.op = "restart" => msgs' = r
              /\ e.op # "restart" => msgs' = Append(r, AnswerTo(e, ok))
              /\ UNCHANGED <<pending, capsKnown, known, sessions, api, front, taken>>
    BY AnswerSteps
  <1> DEFINE r == msgs \o loc
             m == AnswerTo(e, ok)
  <1>2. /\ engq # << >> /\ engq' = Tail(engq) /\ e.op \in Asks /\ Mine(e, e.op)
        /\ msgs' = Append(r, m)
        /\ UNCHANGED <<pending, capsKnown, known, sessions, api, front, taken>>
    BY <1>1 DEF Asks
  <1>3. AnySeq(r) /\ SameAsks(msgs, r)
    BY LocationsKept
  <1>4. m.type = AnswerType(e.op) /\ m.n = e.n /\ m.client = e.client /\ m.session = e.session
    BY DEF AnswerTo
  <1> HIDE DEF r, m, e
  <1>5. e.n \in Numbers /\ e.n \in Nat \ {0} /\ m.type \in Answers
    BY <1>0, <1>2, <1>4, NumbersAre DEF Mine, AnswerType, Answers
  <1>6. /\ \A n : Of(CalledN(n), e) <=> n = e.n
        /\ \A n : Of(AnsweredN(n), m) <=> n = e.n
        /\ \A n : ~Of(AskedN(n), m)
    BY <1>2, <1>4, <1>5, NumberIs DEF Asks, Answers
  <1>7. /\ In(engq) = In(engq') \cup {e}
        /\ \A c : Some(engq, c) <=> Some(engq', c) \/ Of(c, e)
        /\ \A x, y : Precedes(engq, x, y) => Precedes(engq', x, y)
        /\ \A x, y : Precedes(engq, x, y) /\ Of(y, e) => ~Some(engq', x)
    BY <1>0, <1>2, TailSome DEF e
  <1>8. /\ In(msgs') = In(r) \cup {m}
        /\ \A c : Some(msgs', c) <=> Some(r, c) \/ Of(c, m)
        /\ \A x, y : Precedes(r, x, y) /\ (Of(x, m) => ~Some(r, y)) => Precedes(msgs', x, y)
        /\ \A x, y : Adjacent(r, x, y) /\ ~Of(x, m) => Adjacent(msgs', x, y)
    BY <1>2, <1>3, AppendSome, AdjacentMore
  <1>9. Called(e.n) /\ ~Answered(e.n) /\ ~InMsgs(e.n) /\ ~Held(e.n)
    <2>1. Called(e.n)
      BY <1>6, <1>7 DEF Called
    <2> QED BY <1>0, <1>5, <2>1 DEF Spots, Spot
  <1>10. capsKnown /\ api \in known /\ pending = << >>
    BY <1>0, <1>5, <1>9 DEF Caps, KnownApi
  <1>11. /\ Numbers' = Numbers /\ Shape' /\ Requested' = Requested /\ Here' = Here
         /\ \A op, n : Wanted(op, n)' <=> Wanted(op, n)
         /\ \A x, op : Mine(x, op)' <=> Mine(x, op)
         /\ \A x, op : Foreign(x, op)' <=> Foreign(x, op)
    <2>1. Requested' = Requested /\ Here' = Here /\ UNCHANGED api
      BY <1>2 DEF Requested, Here
    <2> QED BY <1>0, <2>1, SameRequests
  <1>12. /\ \A n : ~Held(n) /\ ~Held(n)'
         /\ \A n \in Numbers : InMsgs(n)' <=> InMsgs(n)
         /\ \A n \in Numbers : Answered(n)' <=> Answered(n) \/ n = e.n
         /\ \A n \in Numbers : Called(n)' <=> Called(n) /\ n # e.n
    <2>1. \A n : ~Held(n) /\ ~Held(n)'
      BY <1>2, <1>10, ShortSome DEF Held
    <2>2. \A n \in Numbers : InMsgs(n)' <=> InMsgs(n)
      BY <1>0, <1>3, <1>6, <1>8 DEF SameAsks, InMsgs
    <2>3. \A n \in Numbers : Answered(n)' <=> Answered(n) \/ n = e.n
      BY <1>0, <1>3, <1>6, <1>8 DEF SameAsks, Answered
    <2>4. ~Some(engq', CalledN(e.n))
      BY <1>0, <1>5, <1>6, <1>7 DEF Spots, Spot
    <2>5. \A n \in Numbers : Called(n)' <=> Called(n) /\ n # e.n
      BY <1>6, <1>7, <2>4 DEF Called
    <2> QED BY <2>1, <2>2, <2>3, <2>5
  <1>13. Owned'
    <2>1. \A x \in In(msgs') : x \in In(msgs) \/ Harmless(x) \/ x = m
      BY <1>3, <1>8 DEF SameAsks
    <2>2. ASSUME NEW x \in In(msgs'), x.type \in Asks PROVE Mine(x, x.type)'
      BY <1>0, <1>5, <1>11, <2>1, <2>2 DEF Owned, Harmless, Asks, Answers
    <2>3. ASSUME NEW x \in In(msgs'), NEW op \in Asks, x.type = AnswerType(op)
          PROVE  (Foreign(x, op) \/ Mine(x, op))'
      <3>1. CASE x \in In(msgs)
        BY <1>0, <1>11, <2>3, <3>1 DEF Owned
      <3>2. CASE Harmless(x)
        BY <1>11, <2>3, <3>2 DEF Harmless, AnswerType, Asks, Answers
      <3>3. CASE x = m
        <4>1. op = e.op
          BY <1>2, <1>4, <2>3, <3>3 DEF AnswerType, Asks
        <4>2. Mine(m, op)
          BY <1>2, <1>4, <4>1 DEF Mine
        <4> QED BY <1>11, <3>3, <4>2
      <3> QED BY <2>1, <3>1, <3>2, <3>3
    <2>4. ASSUME NEW x \in In(pending') PROVE Mine(x, x.type)'
      BY <1>0, <1>2, <1>11, <2>4 DEF Owned
    <2>5. ASSUME NEW d \in In(engq'), d.op \in Asks PROVE (Foreign(d, d.op) \/ Mine(d, d.op))'
      BY <1>0, <1>7, <1>11, <2>5 DEF Owned
    <2>6. ASSUME NEW x \in In(msgs'), x.type = "removeClient" PROVE x.client < api'
      BY <1>0, <1>2, <1>5, <2>1, <2>6 DEF Owned, Harmless, Answers
    <2> QED BY <2>2, <2>3, <2>4, <2>5, <2>6 DEF Owned
  <1>14. ASSUME NEW n \in Numbers PROVE Spot(n)'
    <2>1. Spot(n) /\ n \in Nat \ {0}
      BY <1>0, <1>14 DEF Spots
    <2>2. Precedes(r, AskedN(n), AskedN(n)) /\ Precedes(r, AnsweredN(n), AnsweredN(n))
      BY <1>3, <2>1 DEF Spot, SameAsks
    <2>3. ~Some(r, AnsweredN(e.n))
      BY <1>3, <1>5, <1>9 DEF SameAsks, Answered
    <2>4. Precedes(msgs', AskedN(n), AskedN(n)) /\ Precedes(msgs', AnsweredN(n), AnsweredN(n))
      BY <1>6, <1>8, <2>2, <2>3
    <2>5. Precedes(pending', AskedN(n), AskedN(n)) /\ Precedes(engq', CalledN(n), CalledN(n))
      BY <1>2, <1>7, <2>1 DEF Spot
    <2> QED BY <1>9, <1>12, <1>14, <2>1, <2>4, <2>5 DEF Spot
  <1>15. ASSUME NEW g, NEW t, Numbers = {g, t}, g # t, Ahead(g, t) PROVE Ahead(g, t)'
    <2>0. g \in Numbers /\ t \in Numbers /\ g \in Nat \ {0} /\ t \in Nat \ {0}
      BY <1>0, <1>15
    <2>1. Adjacent(msgs', AskedN(g), AskedN(t))
      BY <1>3, <1>6, <1>8, <1>15, <2>0 DEF Ahead, SameAsks
    <2>2. Precedes(msgs', AnsweredN(g), AnsweredN(t))
      <3>1. Precedes(r, AnsweredN(g), AnsweredN(t))
        BY <1>3, <1>15, <2>0 DEF Ahead, SameAsks
      <3>2. e.n = g => ~Answered(t)
        BY <1>9, <1>15 DEF Ahead
      <3>3. e.n = g => ~Some(r, AnsweredN(t))
        BY <1>3, <2>0, <3>2 DEF SameAsks, Answered
      <3> QED BY <1>6, <1>8, <3>1, <3>3
    <2>3. Precedes(engq', CalledN(g), CalledN(t))
      BY <1>7, <1>15 DEF Ahead
    <2>4. Called(t)' => Called(g)' \/ Answered(g)'
      BY <1>12, <1>15, <2>0 DEF Ahead
    <2>5. Answered(t)' => Answered(g)'
      <3>1. e.n = t => Answered(g)
        <4> SUFFICES ASSUME e.n = t PROVE Answered(g)
          OBVIOUS
        <4>1. ~Some(engq', CalledN(g))
          BY <1>6, <1>7, <1>15 DEF Ahead
        <4>2. ~Called(g)
          BY <1>6, <1>7, <1>15, <4>1 DEF Called
        <4> QED BY <1>9, <1>15, <4>2 DEF Ahead
      <3> QED BY <1>12, <1>15, <2>0, <3>1 DEF Ahead
    <2> QED BY <1>12, <2>1, <2>2, <2>3, <2>4, <2>5 DEF Ahead
  <1>16. Spots'
    BY <1>0, <1>11, <1>14, <1>15, NumbersAre DEF Spots
  <1>17. Caps' /\ KnownApi'
    BY <1>2, <1>10 DEF Caps, KnownApi
  <1>18. There'
    <2>1. Gone' <=> Gone
      <3>1. \A n \in Numbers : Called(n)' \/ Answered(n)' <=> Called(n) \/ Answered(n)
        BY <1>9, <1>12
      <3> QED BY <1>11, <1>12, <3>1 DEF Gone
    <2> QED BY <1>0, <1>2, <1>11, <2>1 DEF There
  <1>19. Others' /\ Taken'
    BY <1>0, <1>2 DEF Others, Taken, Commands
  <1> QED BY <1>11, <1>13, <1>16, <1>17, <1>18, <1>19 DEF AnswersInv

\* An answer to a call that was about no request.
LEMMA ForeignAnswered ==
  ASSUME AnswersInv, TypeInv', ProcStarted \/ ProcStopped \/ ProcGot,
         Foreign(Head(msgs), "stop"), Head(msgs).type = "stopped"
  PROVE  AnswersInv'
  <1> DEFINE a == Head(msgs)
  <1>0. /\ AnySeq(msgs) /\ AnySeq(engq) /\ Others /\ api \in Clients /\ Clients \subseteq Nat
        /\ \A m \in In(msgs) : MsgOK(m, used.sessions, Len(taken))
    BY AnswersFacts DEF AnswersInv
  <1>1. ProcStopped /\ Receive("stopped")
    BY DEF ProcStarted, ProcGot, ProcStopped, Receive
  <1>2. /\ msgs # << >> /\ msgs' = Tail(msgs) /\ a.type = "stopped" /\ a \in In(msgs)
    BY <1>0, <1>1, ReceiveSome
  <1>3. a.n = 0 /\ a.client < api /\ a.session # Here /\ a.client \in Clients
    BY <1>0, <1>2 DEF Foreign, MsgOK, Answers
  <1>4. /\ sessions' = (IF a.ok THEN sessions ELSE Extend(sessions, a.session, Restored(a)))
        /\ Respond(a, a.ok)
        /\ UNCHANGED <<engq, pending, capsKnown, known, api>>
    BY <1>1 DEF ProcStopped
  <1> HIDE DEF a
  <1>5. front[a.client].requests = << >>
    <2>1. PICK c : c = a.client
      OBVIOUS
    <2>2. c \in Nat /\ api \in Nat /\ c < api
      BY <1>0, <1>3, <2>1
    <2>3. c # api
      BY <2>2
    <2> QED BY <1>0, <1>3, <2>1, <2>3 DEF Others
  <1>6. UNCHANGED <<taken, front>>
    BY <1>4, <1>5 DEF Respond
  <1>7. /\ Here \in DOMAIN sessions' <=> Here \in DOMAIN sessions
        /\ Here \in DOMAIN sessions => sessions'[Here].client = sessions[Here].client
    BY <1>3, <1>4 DEF Extend
  <1>8. a.type \notin Asks \cup {"engineUp", "addClient"}
    BY <1>2 DEF Asks
  <1>9. /\ SameAsks(msgs, msgs')
        /\ Some(msgs, EngineUp) => Some(msgs', EngineUp)
        /\ Some(msgs, Adding(api)) => Some(msgs', Adding(api))
        /\ Precedes(msgs, Adding(api), Asking) => Precedes(msgs', Adding(api), Asking)
    BY <1>0, <1>2, <1>3, <1>8, MsgsKept DEF a
  <1>10. SameCalled(engq, engq')
    BY <1>0, <1>4, QuietCalls
  <1> QED BY <1>4, <1>6, <1>7, <1>9, <1>10, QuietStep

\* The adapter's thread has come to the answer to a request: it is the oldest, and
\* the answer is taken for it.
LEMMA HeadAnswer ==
  ASSUME AnswersInv, NEW op \in Asks, Receive(AnswerType(op)), Mine(Head(msgs), op)
  PROVE  LET a == Head(msgs) IN
         /\ msgs' = Tail(msgs)
         /\ a.n \in Numbers /\ a.session = Here /\ a.client = api
         /\ Requested # << >> /\ Requested[1].n = a.n /\ Requested[1].op = op
         /\ capsKnown /\ api \in known
         /\ Answered(a.n) /\ ~InMsgs(a.n) /\ ~Held(a.n) /\ ~Called(a.n)
         /\ In(msgs') \subseteq In(msgs)
         /\ \A n : Of(AnsweredN(n), a) <=> n = a.n
         /\ \A n \in Numbers : Answered(n)' <=> Answered(n) /\ n # a.n
         /\ \A n : InMsgs(n)' <=> InMsgs(n)
         /\ \A x, y : Precedes(msgs, x, y) => Precedes(msgs', x, y)
  <1> DEFINE a == Head(msgs)
  <1>0. AnySeq(msgs) /\ Spots /\ Caps /\ KnownApi
    BY AnswersFacts DEF AnswersInv
  <1>1. /\ msgs # << >> /\ msgs' = Tail(msgs) /\ a.type = AnswerType(op)
        /\ In(msgs) = In(msgs') \cup {a}
        /\ \A c : Some(msgs, c) <=> Some(msgs', c) \/ Of(c, a)
        /\ \A x, y : Precedes(msgs, x, y) => Precedes(msgs', x, y)
        /\ \A x, y : Precedes(msgs, x, y) /\ Of(y, a) => ~Some(msgs', x)
    BY <1>0, ReceiveSome
  <1> HIDE DEF a
  <1>2. a.client = api /\ a.session = Here /\ Wanted(op, a.n) /\ a.n \in Numbers
    BY NumbersAre DEF Mine, a
  <1>3. /\ \A n : Of(AnsweredN(n), a) <=> n = a.n
        /\ \A n : ~Of(AskedN(n), a)
    BY <1>1, NumberIs DEF Asks, Answers, AnswerType
  <1>4. Answered(a.n) /\ ~InMsgs(a.n) /\ ~Held(a.n) /\ ~Called(a.n)
    <2>1. Answered(a.n)
      BY <1>1, <1>3 DEF Answered
    <2> QED BY <1>0, <1>2, <2>1 DEF Spots, Spot
  <1>5. capsKnown /\ api \in known
    BY <1>0, <1>2, <1>4 DEF Caps, KnownApi
  <1>6. ~Some(msgs', AnsweredN(a.n))
    BY <1>0, <1>1, <1>2, <1>3 DEF Spots, Spot
  <1>7. /\ \A n \in Numbers : Answered(n)' <=> Answered(n) /\ n # a.n
        /\ \A n : InMsgs(n)' <=> InMsgs(n)
    BY <1>1, <1>3, <1>6 DEF Answered, InMsgs
  <1>8. Len(Requested) \in {1, 2}
    <2>1. Len(Requested) # 0
      BY <1>2 DEF Wanted
    <2> QED BY <2>1, NumbersAre
  <1>9. Requested # << >> /\ 1 \in 1..Len(Requested)
    BY <1>8
  <1>10. Requested[1].n = a.n /\ Requested[1].op = op
    <2>1. CASE Len(Requested) = 1
      <3>1. 1..Len(Requested) = {1}
        BY <2>1
      <3> QED BY <1>2, <3>1 DEF Wanted
    <2>2. CASE Len(Requested) = 2
      <3> DEFINE g == Requested[1].n
                 t == Requested[2].n
      <3>1. Numbers = {g, t} /\ g # t /\ Wanted("get", g) /\ Ahead(g, t)
        BY <1>0, <2>2, NumbersAre DEF Spots
      <3> HIDE DEF g, t
      <3>2. a.n # t
        <4> SUFFICES ASSUME a.n = t PROVE FALSE
          OBVIOUS
        <4>1. ~Some(msgs', AnsweredN(g))
          BY <1>1, <1>3, <3>1 DEF Ahead
        <4>2. ~Answered(g)
          BY <1>1, <1>3, <3>1, <4>1 DEF Answered
        <4> QED BY <1>4, <3>1, <4>2 DEF Ahead
      <3>3. a.n = g
        BY <1>2, <3>1, <3>2
      <3>4. Requested[1].op = "get"
        BY <2>2 DEF AnswersInv, Shape
      <3>5. op = "get"
        BY <1>2, <3>1, <3>3, NumbersAre
      <3> QED BY <3>3, <3>4, <3>5 DEF g
    <2> QED BY <1>8, <2>1, <2>2
  <1>11. In(msgs') \subseteq In(msgs)
    BY <1>1
  <1> QED BY <1>1, <1>2, <1>3, <1>4, <1>5, <1>7, <1>9, <1>10, <1>11 DEF a

\* What the answer changes: the request is no more, and the session neither if the
\* answer ends it, in which case no other request is left.
LEMMA RequestGone ==
  ASSUME AnswersInv, NEW op \in Asks, NEW a, NEW ok, UNCHANGED api, Respond(a, ok),
         a.client = api, api \in known, a.session = Here, Requested # << >>,
         Requested[1].n = a.n, Requested[1].op = op, a.n \in Numbers
  PROVE  LET ends == IF ok THEN op = "stop" ELSE op = "start" IN
         /\ taken' = [taken EXCEPT ![a.n] = a.n]
         /\ Requested' = Tail(Requested) /\ Here' = (IF ends THEN 0 ELSE Here)
         /\ \A c \in Clients : c # api => /\ front'[c].requests = front[c].requests
                                          /\ front'[c].session = front[c].session
         /\ Len(Requested') \in {0, 1}
         /\ \A od, n : Wanted(od, n)' <=> Wanted(od, n) /\ n # a.n
         /\ Numbers' = Numbers \ {a.n}
         /\ ends => Numbers' = {}
  <1> DEFINE F == front[api]
             ends == IF ok THEN op = "stop" ELSE op = "start"
             x == IF ends THEN 0 ELSE F.session
             g == [F EXCEPT !.requests = Tail(@), !.session = x]
  <1>0. /\ front \in [Clients -> Fronts(used.sessions, Len(taken))] /\ api \in Clients
        /\ F \in Fronts(used.sessions, Len(taken))
        /\ Requested \in Seq([op : Asks, n : 1..Len(taken)])
    BY AnswersFacts
  <1>1. Head(Requested) = Requested[1]
    BY DEF Requested
  <1>2. taken' = [taken EXCEPT ![a.n] = a.n] /\ front' = [front EXCEPT ![api] = g]
    BY <1>0, <1>1 DEF Respond, Requested, Here
  <1>3. g.requests = Tail(Requested) /\ g.session = x
    BY <1>0 DEF Fronts, Requested
  <1> HIDE DEF g
  <1>4. Requested' = Tail(Requested) /\ Here' = (IF ends THEN 0 ELSE Here)
    BY <1>0, <1>2, <1>3 DEF Requested, Here
  <1>5. \A c \in Clients : c # api => front'[c] = front[c]
    BY <1>0, <1>2
  <1>6. /\ Len(Requested) \in {1, 2} /\ Len(Requested') = Len(Requested) - 1
        /\ \A i \in 1..Len(Requested') : Requested'[i] = Requested[i + 1]
    <2>1. Len(Requested) \in {0, 1, 2}
      BY NumbersAre
    <2>2. /\ Len(Requested) \in Nat \ {0} /\ Len(Tail(Requested)) \in Nat
          /\ Len(Requested) = Len(Tail(Requested)) + 1
          /\ \A i \in 1..Len(Tail(Requested)) : Tail(Requested)[i] = Requested[i + 1]
      <3>1. AnySeq(Requested)
        BY <1>0 DEF AnySeq
      <3> QED BY <3>1, TailAt
    <2> QED BY <1>4, <2>1, <2>2
  <1> HIDE DEF F, x
  <1>7. CASE Len(Requested) = 1
    <2>1. 1..Len(Requested) = {1} /\ 1..Len(Requested') = {} /\ Len(Requested') \in {0, 1}
      BY <1>6, <1>7
    <2>2. \A od, n : ~Wanted(od, n)' /\ (Wanted(od, n) => n = a.n)
      BY <2>1 DEF Wanted
    <2>3. Numbers' = {} /\ Numbers = {a.n}
      BY <2>1 DEF Numbers
    <2> QED BY <1>2, <1>4, <1>5, <2>1, <2>2, <2>3
  <1>8. CASE Len(Requested) = 2
    <2>1. 1..Len(Requested') = {1} /\ Requested'[1] = Requested[2] /\ Len(Requested') \in {0, 1}
      BY <1>6, <1>8
    <2>2. /\ 1..Len(Requested) = {1, 2} /\ Requested[1].op = "get"
          /\ Requested[1].n # Requested[2].n
      BY <1>8 DEF AnswersInv, Shape
    <2>3. \A od, n : Wanted(od, n)' <=> Wanted(od, n) /\ n # a.n
      BY <2>1, <2>2 DEF Wanted
    <2>4. Numbers' = Numbers \ {a.n}
      BY <2>1, <2>2 DEF Numbers
    <2>5. ~ends
      BY <2>2
    <2> QED BY <1>2, <1>4, <1>5, <2>1, <2>3, <2>4, <2>5
  <1> QED BY <1>6, <1>7, <1>8

\* The answer to a request.
LEMMA OwnAnswered ==
  ASSUME AnswersInv, TypeInv', NEW op \in Asks, Receive(AnswerType(op)), Mine(Head(msgs), op),
         ProcStarted \/ ProcStopped \/ ProcGot
  PROVE  AnswersInv'
  <1> DEFINE a == Head(msgs)
             ends == IF a.ok THEN op = "stop" ELSE op = "start"
  <1>0. /\ AnySeq(msgs) /\ Others /\ Owned /\ Spots /\ Caps /\ There /\ Taken
        /\ \A m \in In(msgs) : MsgOK(m, used.sessions, Len(taken))
        /\ \A d \in In(engq) : CallOK(d, used.sessions, Len(taken))
        /\ DOMAIN sessions' \subseteq 1..used'.sessions
        /\ Numbers \subseteq Nat \ {0} /\ Len(taken) \in Nat /\ Here \in 0..used.sessions
        /\ used.sessions \in Nat /\ api \in Clients
    BY AnswersFacts, NumbersAre DEF AnswersInv, TypeInv, AdapterOK
  <1>1. /\ msgs' = Tail(msgs)
        /\ a.n \in Numbers /\ a.session = Here /\ a.client = api
        /\ Requested # << >> /\ Requested[1].n = a.n /\ Requested[1].op = op
        /\ capsKnown /\ api \in known
        /\ Answered(a.n) /\ ~InMsgs(a.n) /\ ~Held(a.n) /\ ~Called(a.n)
        /\ In(msgs') \subseteq In(msgs)
        /\ \A n : Of(AnsweredN(n), a) <=> n = a.n
        /\ \A n \in Numbers : Answered(n)' <=> Answered(n) /\ n # a.n
        /\ \A n : InMsgs(n)' <=> InMsgs(n)
        /\ \A x, y : Precedes(msgs, x, y) => Precedes(msgs', x, y)
    BY HeadAnswer
  <1>2. /\ Respond(a, a.ok) /\ UNCHANGED <<engq, pending, capsKnown, known, api, used>>
        /\ op = "stop" => sessions' = (IF a.ok THEN sessions
                                       ELSE Extend(sessions, a.session, Restored(a)))
        /\ op = "get" => sessions' = sessions
        /\ op = "start" /\ a.ok => sessions' = sessions
    <2>1. a.type = AnswerType(op)
      BY DEF Receive
    <2>2. CASE ProcStarted
      <3>1. op = "start"
        BY <2>1, <2>2 DEF ProcStarted, Receive, AnswerType, Asks
      <3> QED BY <2>2, <3>1 DEF ProcStarted
    <2>3. CASE ProcStopped
      <3>1. op = "stop"
        BY <2>1, <2>3 DEF ProcStopped, Receive, AnswerType, Asks
      <3> QED BY <2>3, <3>1 DEF ProcStopped
    <2>4. CASE ProcGot
      <3>1. op = "get"
        BY <2>1, <2>4 DEF ProcGot, Receive, AnswerType, Asks
      <3> QED BY <2>4, <3>1 DEF ProcGot, adapter
    <2> QED BY <2>2, <2>3, <2>4
  <1> HIDE DEF a
  <1>3. /\ taken' = [taken EXCEPT ![a.n] = a.n]
        /\ Here' = (IF ends THEN 0 ELSE Here)
        /\ \A c \in Clients : c # api => /\ front'[c].requests = front[c].requests
                                         /\ front'[c].session = front[c].session
        /\ Len(Requested') \in {0, 1}
        /\ \A od, n : Wanted(od, n)' <=> Wanted(od, n) /\ n # a.n
        /\ Numbers' = Numbers \ {a.n}
        /\ ends => Numbers' = {}
    BY <1>1, <1>2, RequestGone
  <1> HIDE DEF ends
  <1>4. /\ \A n : Held(n)' <=> Held(n)
        /\ \A n : Called(n)' <=> Called(n)
    BY <1>2 DEF Held, Called
  <1>5. \A n \in Numbers' : \A od : ~Wanted(od, n)' => ~Wanted(od, n)
    BY <1>3
  <1>6. ASSUME NEW m, NEW od \in Asks, Mine(m, od), m.n # a.n PROVE Mine(m, od)'
    <2>1. m.n \in Numbers
      BY <1>6, NumbersAre DEF Mine
    <2>2. ~ends
      BY <1>3, <1>6, <2>1
    <2>3. Here' = Here
      BY <1>3, <2>2
    <2> QED BY <1>2, <1>3, <1>6, <2>3 DEF Mine
  <1>7. ASSUME NEW m, NEW od, Foreign(m, od), m.session \in 1..used.sessions PROVE Foreign(m, od)'
    <2>1. m.session # Here'
      BY <1>0, <1>3, <1>7 DEF Foreign
    <2> QED BY <1>2, <1>7, <2>1 DEF Foreign
  <1>8. Owned'
    <2>1. ASSUME NEW m \in In(msgs'), m.type \in Asks PROVE Mine(m, m.type)'
      <3>1. Mine(m, m.type) /\ m \in In(msgs)
        BY <1>0, <1>1, <2>1 DEF Owned
      <3>2. m.n # a.n
        BY <1>1, <2>1, <3>1, InSome, NumberIs DEF InMsgs
      <3> QED BY <1>6, <2>1, <3>1, <3>2
    <2>2. ASSUME NEW m \in In(msgs'), NEW od \in Asks, m.type = AnswerType(od)
          PROVE  (Foreign(m, od) \/ Mine(m, od))'
      <3>1. m \in In(msgs) /\ (Foreign(m, od) \/ Mine(m, od)) /\ m.session \in 1..used.sessions
            /\ m.type \in Answers
        BY <1>0, <1>1, <2>2 DEF Owned, MsgOK, AnswerType, Answers
      <3>2. m.n # a.n
        <4>1. ~Some(msgs', AnsweredN(a.n))
          BY <1>1 DEF Answered
        <4> QED BY <2>2, <3>1, <4>1, InSome, NumberIs
      <3> QED BY <1>6, <1>7, <3>1, <3>2
    <2>3. ASSUME NEW m \in In(pending') PROVE Mine(m, m.type)'
      <3>1. Mine(m, m.type) /\ m \in In(pending) /\ m.type \in Asks
        BY <1>0, <1>2, <2>3, AnswersFacts DEF Owned
      <3>2. m.n # a.n
        BY <1>1, <3>1, InSome, NumberIs DEF Held
      <3> QED BY <1>6, <3>1, <3>2
    <2>4. ASSUME NEW e \in In(engq'), e.op \in Asks PROVE (Foreign(e, e.op) \/ Mine(e, e.op))'
      <3>1. e \in In(engq) /\ (Foreign(e, e.op) \/ Mine(e, e.op)) /\ e.session \in 1..used.sessions
        BY <1>0, <1>2, <2>4 DEF Owned, CallOK, Asks
      <3>2. e.n # a.n
        BY <1>1, <2>4, <3>1, InSome, NumberIs DEF Called
      <3> QED BY <1>6, <1>7, <2>4, <3>1, <3>2
    <2>5. ASSUME NEW m \in In(msgs'), m.type = "removeClient" PROVE m.client < api'
      BY <1>0, <1>1, <1>2, <2>5 DEF Owned
    <2> QED BY <2>1, <2>2, <2>3, <2>4, <2>5 DEF Owned
  <1>9. ASSUME NEW n \in Numbers, n # a.n PROVE Spot(n)'
    <2>1. Spot(n)
      BY <1>0 DEF Spots
    <2>2. /\ Precedes(msgs', AskedN(n), AskedN(n)) /\ Precedes(msgs', AnsweredN(n), AnsweredN(n))
          /\ Precedes(pending', AskedN(n), AskedN(n)) /\ Precedes(engq', CalledN(n), CalledN(n))
      BY <1>1, <1>2, <2>1 DEF Spot
    <2> QED BY <1>1, <1>4, <1>9, <2>1, <2>2 DEF Spot
  <1>10. Spots' /\ Shape'
    <2>1. \A l \in {0, 1} : l # 2 /\ l <= 2
      OBVIOUS
    <2>2. Len(Requested') # 2 /\ Len(Requested') <= 2
      BY <1>3, <2>1
    <2> QED BY <1>3, <1>9, <2>1, <2>2 DEF Spots, Shape
  <1>11. Caps' /\ KnownApi'
    BY <1>0, <1>1, <1>2 DEF Caps, KnownApi
  <1>12. There'
    <2>1. CASE ends
      <3>1. Here' = 0 /\ 0 \notin DOMAIN sessions'
        BY <1>0, <1>2, <1>3, <2>1
      <3> QED BY <3>1 DEF There
    <2>2. CASE ~ends /\ op = "stop"
      <3>1. Here' = Here /\ sessions' = Extend(sessions, a.session, Restored(a))
        BY <1>2, <1>3, <2>2 DEF ends
      <3>2. Here \in DOMAIN sessions' /\ sessions'[Here].client = api
        BY <1>1, <3>1 DEF Extend, Restored, Session
      <3> QED BY <1>2, <3>1, <3>2 DEF There
    <2>3. CASE ~ends /\ op # "stop"
      <3>1. Here' = Here /\ sessions' = sessions
        BY <1>2, <1>3, <2>3 DEF ends, Asks
      <3>2. Gone => Gone'
        <4> SUFFICES ASSUME NEW n \in Numbers,
                            \/ Wanted("start", n) /\ (InMsgs(n) \/ Held(n))
                            \/ Wanted("stop", n) /\ (Called(n) \/ Answered(n))
                     PROVE  Gone'
          BY DEF Gone
        <4>1. n # a.n
          <5>1. Wanted(op, a.n)
            <6>1. 1 \in 1..Len(Requested)
              <7>1. Len(Requested) # 0
                BY <1>1, AnswersFacts
              <7> QED BY <7>1, NumbersAre
            <6> QED BY <1>1, <6>1 DEF Wanted
          <5>2. Wanted("stop", n) => n # a.n
            BY <2>3, <5>1, NumbersAre
          <5> QED BY <1>1, <5>2
        <4>2. n \in Numbers'
          BY <1>3, <4>1
        <4> QED BY <1>1, <1>3, <1>4, <4>1, <4>2 DEF Gone
      <3> QED BY <1>0, <1>2, <3>1, <3>2 DEF There
    <2> QED BY <2>1, <2>2, <2>3
  <1>13. Others'
    <2>1. \A c \in Clients : c > api => c # api
      <3>1. Clients \subseteq Nat
        BY AnswersFacts
      <3> QED BY <1>0, <3>1
    <2> QED BY <1>0, <1>2, <1>3, <2>1 DEF Others
  <1>14. Taken'
    BY <1>0, <1>3 DEF Taken, Commands
  <1> QED BY <1>8, <1>10, <1>11, <1>12, <1>13, <1>14 DEF AnswersInv

\* The adapter's thread takes an answer.
LEMMA AnswersAnswered ==
  ASSUME AnswersInv, TypeInv', ProcStarted \/ ProcStopped \/ ProcGot
  PROVE  AnswersInv'
  <1>0. AnySeq(msgs) /\ Owned
    BY AnswersFacts DEF AnswersInv
  <1>1. PICK op \in Asks : Receive(AnswerType(op))
    BY DEF ProcStarted, ProcStopped, ProcGot, AnswerType, Asks
  <1>2. Head(msgs) \in In(msgs) /\ Head(msgs).type = AnswerType(op)
    BY <1>0, <1>1, ReceiveSome
  <1>3. Foreign(Head(msgs), op) \/ Mine(Head(msgs), op)
    BY <1>0, <1>2 DEF Owned
  <1>4. CASE Mine(Head(msgs), op)
    BY <1>1, <1>4, OwnAnswered
  <1>5. CASE Foreign(Head(msgs), op)
    <2>1. op = "stop" /\ Head(msgs).type = "stopped"
      BY <1>2, <1>5 DEF Foreign, AnswerType
    <2> QED BY <1>5, <2>1, ForeignAnswered
  <1> QED BY <1>3, <1>4, <1>5

\* The adapter's thread is told that the engine is up: what is held comes again.
LEMMA AnswersEngineUp ==
  ASSUME AnswersInv, TypeInv', ProcEngineUp
  PROVE  AnswersInv'
  <1> DEFINE calls == {Restart(s) : s \in DOMAIN sessions}
             row == SetToSeq(calls)
             r == Tail(msgs)
  <1>0. /\ AnySeq(msgs) /\ AnySeq(engq) /\ AnySeq(pending) /\ TypeInv
        /\ Shape /\ Others /\ Owned /\ Spots /\ Caps /\ KnownApi /\ There /\ Taken
        /\ Numbers \subseteq Nat \ {0} /\ \A m \in In(pending) : m.type \in Asks
    BY AnswersFacts, NumbersAre DEF AnswersInv
  <1>1. /\ Receive("engineUp") /\ capsKnown' = TRUE /\ pending' = << >>
        /\ engq' = engq \o row /\ msgs' = r \o pending
        /\ UNCHANGED <<known, sessions, api, front, taken>>
    BY DEF ProcEngineUp
  <1>2. /\ msgs # << >> /\ Head(msgs).type = "engineUp" /\ AnySeq(r)
        /\ In(msgs) = In(r) \cup {Head(msgs)}
        /\ \A c : Some(msgs, c) <=> Some(r, c) \/ Of(c, Head(msgs))
        /\ \A x, y : Precedes(msgs, x, y) => Precedes(r, x, y)
    BY <1>0, <1>1, TailSome DEF Receive
  <1>3. SameAsks(msgs, r)
    BY <1>0, <1>2, QuietMsgs DEF Asks, Answers
  <1>4. SameCalled(engq, engq')
    <2>1. AnySeq(row) /\ In(row) = calls
      BY <1>0, RestartRow
    <2>2. \A e \in calls : e.op \notin Asks
      BY DEF Restart, Call, Asks
    <2> HIDE DEF row, calls
    <2> QED BY <1>0, <1>1, <2>1, <2>2, QuietCalls
  <1> HIDE DEF row, r
  <1>5. /\ In(msgs') = In(r) \cup In(pending)
        /\ \A c : Some(msgs', c) <=> Some(r, c) \/ Some(pending, c)
        /\ \A a, b : Precedes(r, a, b) /\ Precedes(pending, a, b)
                     /\ ~(Some(pending, a) /\ Some(r, b)) => Precedes(msgs', a, b)
        /\ \A a, b : Adjacent(r, a, b) /\ Adjacent(pending, a, b) => Adjacent(msgs', a, b)
    BY <1>0, <1>1, <1>2, ConcatSome, AdjacentMore
  <1>6. /\ Numbers' = Numbers /\ Shape' /\ Requested' = Requested /\ Here' = Here
        /\ \A op, n : Wanted(op, n)' <=> Wanted(op, n)
        /\ \A m, op : Mine(m, op)' <=> Mine(m, op)
        /\ \A m, op : Foreign(m, op)' <=> Foreign(m, op)
    <2>1. Requested' = Requested /\ Here' = Here /\ UNCHANGED api
      BY <1>1 DEF Requested, Here
    <2> QED BY <1>0, <2>1, SameRequests
  <1>7. /\ \A n : ~Some(pending, AnsweredN(n)) /\ ~Some(pending, Adding(n))
        /\ \A a, b : ~Some(pending, a) => Precedes(pending, a, b) /\ Adjacent(pending, a, b)
    <2>1. \A n : ~Some(pending, AnsweredN(n)) /\ ~Some(pending, Adding(n))
      BY <1>0, InSome, NumberIs DEF Asks, Answers
    <2> QED BY <2>1 DEF Some, Precedes, Adjacent
  <1>8. /\ \A n \in Numbers : InMsgs(n)' <=> InMsgs(n) \/ Held(n)
        /\ \A n : ~Held(n)'
        /\ \A n \in Numbers : Called(n)' <=> Called(n)
        /\ \A n \in Numbers : Answered(n)' <=> Answered(n)
    <2>1. \A n \in Numbers : InMsgs(n)' <=> InMsgs(n) \/ Held(n)
      BY <1>0, <1>3, <1>5 DEF SameAsks, InMsgs, Held
    <2>2. \A n : ~Held(n)'
      BY <1>1, ShortSome DEF Held
    <2>3. \A n \in Numbers : Called(n)' <=> Called(n)
      BY <1>0, <1>4 DEF SameCalled, Called
    <2>4. \A n \in Numbers : Answered(n)' <=> Answered(n)
      BY <1>0, <1>3, <1>5, <1>7 DEF SameAsks, Answered
    <2> QED BY <2>1, <2>2, <2>3, <2>4
  <1>9. Owned'
    <2>1. \A m \in In(msgs') : m \in In(msgs) \/ m \in In(pending)
      BY <1>2, <1>5
    <2>2. ASSUME NEW m \in In(msgs'), m.type \in Asks PROVE Mine(m, m.type)'
      BY <1>0, <1>6, <2>1, <2>2 DEF Owned
    <2>3. ASSUME NEW m \in In(msgs'), NEW op \in Asks, m.type = AnswerType(op)
          PROVE  (Foreign(m, op) \/ Mine(m, op))'
      <3>1. m \in In(msgs)
        BY <1>0, <2>1, <2>3 DEF AnswerType, Asks
      <3> QED BY <1>0, <1>6, <2>3, <3>1 DEF Owned
    <2>4. ASSUME NEW m \in In(pending') PROVE Mine(m, m.type)'
      BY <1>1, <2>4, ShortSome
    <2>5. ASSUME NEW e \in In(engq'), e.op \in Asks PROVE (Foreign(e, e.op) \/ Mine(e, e.op))'
      BY <1>0, <1>4, <1>6, <2>5 DEF Owned, SameCalled
    <2>6. ASSUME NEW m \in In(msgs'), m.type = "removeClient" PROVE m.client < api'
      <3>1. m \in In(msgs)
        BY <1>0, <2>1, <2>6 DEF Asks
      <3> QED BY <1>0, <1>1, <2>6, <3>1 DEF Owned
    <2> QED BY <2>2, <2>3, <2>4, <2>5, <2>6 DEF Owned
  <1>10. ASSUME NEW n \in Numbers PROVE Spot(n)'
    <2>1. Spot(n) /\ n \in Nat \ {0}
      BY <1>0, <1>10 DEF Spots
    <2>2. Precedes(r, AskedN(n), AskedN(n)) /\ Precedes(r, AnsweredN(n), AnsweredN(n))
      BY <1>2, <2>1 DEF Spot
    <2>3. ~(Some(pending, AskedN(n)) /\ Some(r, AskedN(n)))
      BY <1>2, <2>1 DEF Spot, InMsgs, Held
    <2>4. Precedes(msgs', AskedN(n), AskedN(n))
      BY <1>5, <2>1, <2>2, <2>3 DEF Spot
    <2>5. Precedes(msgs', AnsweredN(n), AnsweredN(n))
      BY <1>5, <1>7, <2>2
    <2>6. Precedes(pending', AskedN(n), AskedN(n)) /\ Precedes(engq', CalledN(n), CalledN(n))
      BY <1>1, <1>4, <2>1, ShortSome DEF Spot, SameCalled
    <2> QED BY <1>8, <1>10, <2>1, <2>4, <2>5, <2>6 DEF Spot
  <1>11. ASSUME NEW g, NEW t, Numbers = {g, t}, g # t, Ahead(g, t) PROVE Ahead(g, t)'
    <2>0. g \in Numbers /\ t \in Numbers /\ g \in Nat \ {0} /\ t \in Nat \ {0}
      BY <1>0, <1>11
    <2>1. Adjacent(r, AskedN(g), AskedN(t))
      BY <1>3, <1>11, <2>0 DEF Ahead, SameAsks
    <2>2. Adjacent(pending, AskedN(g), AskedN(t))
      <3>1. CASE Held(t)
        BY <1>11, <3>1 DEF Ahead
      <3>2. CASE ~Held(t)
        <4>1. ~Held(g)
          <5> SUFFICES ASSUME Held(g) PROVE FALSE
            OBVIOUS
          <5>1. ~capsKnown
            BY <1>0, ShortSome DEF Caps, Held
          <5>2. InMsgs(t)
            BY <1>0, <2>0, <3>2, <5>1 DEF Caps
          <5>3. Of(AskedN(t), Head(msgs))
            BY <1>11, <5>2 DEF Ahead
          <5> QED BY <1>2, <5>3, NumberIs DEF Asks
        <4> QED BY <1>7, <4>1 DEF Held
      <3> QED BY <3>1, <3>2
    <2>3. Adjacent(msgs', AskedN(g), AskedN(t))
      BY <1>5, <2>1, <2>2
    <2>4. Precedes(msgs', AnsweredN(g), AnsweredN(t))
      BY <1>2, <1>5, <1>7, <1>11 DEF Ahead
    <2>5. Precedes(engq', CalledN(g), CalledN(t))
      BY <1>4, <1>11, <2>0 DEF Ahead, SameCalled
    <2>6. /\ Called(t)' => Called(g)' \/ Answered(g)'
          /\ Answered(t)' => Answered(g)'
      BY <1>8, <1>11, <2>0 DEF Ahead
    <2> QED BY <1>8, <2>3, <2>4, <2>5, <2>6 DEF Ahead
  <1>12. Spots'
    BY <1>0, <1>6, <1>10, <1>11, NumbersAre DEF Spots
  <1>13. Caps'
    BY <1>1 DEF Caps
  <1>14. KnownApi'
    <2> SUFFICES ASSUME api \notin known PROVE KnownApi'
      BY <1>1 DEF KnownApi
    <2>1. Some(r, Adding(api)) /\ Precedes(r, Adding(api), Asking)
      BY <1>0, <1>2, NumberIs DEF KnownApi
    <2>2. Some(msgs', Adding(api)) /\ Precedes(msgs', Adding(api), Asking)
      BY <1>5, <1>7, <2>1
    <2>3. \A n \in Numbers' : InMsgs(n)'
      BY <1>0, <1>6, <1>8 DEF KnownApi
    <2> QED BY <1>1, <2>2, <2>3 DEF KnownApi
  <1>15. There'
    <2>1. Gone' <=> Gone
      BY <1>6, <1>8 DEF Gone
    <2> QED BY <1>0, <1>1, <1>6, <2>1 DEF There
  <1>16. Others' /\ Taken'
    BY <1>0, <1>1 DEF Others, Taken, Commands
  <1> QED BY <1>6, <1>9, <1>12, <1>13, <1>14, <1>15, <1>16 DEF AnswersInv

\* A client without requests has nothing under way.
LEMMA NothingAsked ==
  ASSUME AnswersInv, Requested = << >>
  PROVE  /\ Numbers = {} /\ ~Gone
         /\ \A m \in In(msgs) : m.type \notin Asks
         /\ \A m \in In(msgs) : \A op \in Asks : m.type = AnswerType(op) => Foreign(m, op)
         /\ \A m \in In(msgs) : m.type \in Answers => m.n = 0 /\ m.session # 0
         /\ \A e \in In(engq) : e.op \in Asks => Foreign(e, e.op) /\ e.session # 0
         /\ pending = << >>
         /\ \A n : ~Some(msgs, AskedN(n)) /\ ~Some(msgs, Asking)
         /\ \A n \in Nat \ {0} : ~Some(msgs, AnsweredN(n)) /\ ~Some(engq, CalledN(n))
  <1>0. /\ Owned /\ AnySeq(pending)
        /\ \A m \in In(msgs) : MsgOK(m, used.sessions, Len(taken))
        /\ \A d \in In(engq) : CallOK(d, used.sessions, Len(taken))
    BY AnswersFacts DEF AnswersInv
  <1>1. Numbers = {} /\ \A op, n : ~Wanted(op, n)
    BY DEF Numbers, Wanted
  <1>2. \A m, op : ~Mine(m, op)
    BY <1>1 DEF Mine
  <1>3. \A m \in In(msgs) : m.type \notin Asks
    BY <1>0, <1>2 DEF Owned
  <1>4. \A m \in In(msgs) : \A op \in Asks : m.type = AnswerType(op) => Foreign(m, op)
    BY <1>0, <1>2 DEF Owned
  <1>5. \A m \in In(msgs) : m.type \in Answers => m.n = 0 /\ m.session # 0
    <2> SUFFICES ASSUME NEW m \in In(msgs), m.type \in Answers PROVE m.n = 0 /\ m.session # 0
      OBVIOUS
    <2>1. \E op \in Asks : m.type = AnswerType(op)
      BY DEF Asks, Answers, AnswerType
    <2>2. m.session \in 1..used.sessions
      BY <1>0 DEF MsgOK
    <2> QED BY <1>4, <2>1, <2>2 DEF Foreign
  <1>6. \A e \in In(engq) : e.op \in Asks => Foreign(e, e.op) /\ e.session # 0
    <2> SUFFICES ASSUME NEW e \in In(engq), e.op \in Asks PROVE Foreign(e, e.op) /\ e.session # 0
      OBVIOUS
    <2>1. e.session \in 1..used.sessions
      BY <1>0 DEF CallOK, Asks
    <2> QED BY <1>0, <1>2, <2>1 DEF Owned
  <1>7. pending = << >>
    <2>1. In(pending) = {}
      BY <1>0, <1>2 DEF Owned
    <2>2. pending # << >> => Head(pending) \in In(pending)
      BY <1>0, TailSome
    <2> QED BY <2>1, <2>2
  <1>8. \A n : ~Some(msgs, AskedN(n)) /\ ~Some(msgs, Asking)
    BY <1>3, InSome, NumberIs
  <1>9. \A n \in Nat \ {0} : ~Some(msgs, AnsweredN(n)) /\ ~Some(engq, CalledN(n))
    BY <1>5, <1>6, InSome, NumberIs DEF Foreign
  <1>10. ~Gone
    BY <1>1 DEF Gone
  <1> QED BY <1>1, <1>3, <1>4, <1>5, <1>6, <1>7, <1>8, <1>9, <1>10

\* init makes another client.
LEMMA AnswersInitialize ==
  ASSUME AnswersInv, TypeInv', Requested = << >>, Initialize
  PROVE  AnswersInv'
  <1> DEFINE m1 == [type |-> "removeClient", client |-> api]
             m2 == [type |-> "addClient", client |-> api + 1]
             row == <<m1, m2>>
  <1>0. /\ AnySeq(msgs) /\ Others /\ Owned /\ Caps /\ Taken
        /\ \A m \in In(msgs) : MsgOK(m, used.sessions, Len(taken))
        /\ \A d \in In(engq) : CallOK(d, used.sessions, Len(taken))
        /\ front \in [Clients -> Fronts(used.sessions, Len(taken))]
        /\ api \in Clients /\ Clients \subseteq Nat /\ DOMAIN sessions \subseteq 1..used.sessions
    BY AnswersFacts DEF AnswersInv
  <1>1. /\ api' = api + 1 /\ front' = [front EXCEPT ![api].requests = << >>]
        /\ msgs' = msgs \o row
        /\ UNCHANGED <<engq, pending, capsKnown, known, sessions, taken>>
    BY DEF Initialize, adapter
  <1>2. api + 1 \in Clients /\ api \in Nat /\ api + 1 # api
    <2>1. api' \in Clients
      BY DEF TypeInv, FrontOK
    <2> QED BY <1>0, <1>1, <2>1
  <1>3. /\ \A m \in In(msgs) : m.type \notin Asks
        /\ \A m \in In(msgs) : \A op \in Asks : m.type = AnswerType(op) => Foreign(m, op)
        /\ \A m \in In(msgs) : m.type \in Answers => m.n = 0 /\ m.session # 0
        /\ \A e \in In(engq) : e.op \in Asks => Foreign(e, e.op) /\ e.session # 0
        /\ pending = << >>
    BY NothingAsked
  <1>4. /\ AnySeq(row) /\ In(row) = {m1, m2} /\ \A c : Some(row, c) <=> Of(c, m1) \/ Of(c, m2)
    <2>1. PICK q : q = <<m1>>
      OBVIOUS
    <2>2. row = Append(q, m2)
      BY <2>1
    <2> HIDE DEF m1, m2, row
    <2>3. AnySeq(q) /\ In(q) = {m1} /\ \A c : Some(q, c) <=> Of(c, m1)
      BY <2>1, ShortSome
    <2> QED BY <2>2, <2>3, AppendSome
  <1>5. /\ m1.type = "removeClient" /\ m1.client = api
        /\ m2.type = "addClient" /\ m2.client = api + 1
    OBVIOUS
  <1> HIDE DEF m1, m2, row
  <1>6. /\ In(msgs') = In(msgs) \cup {m1, m2}
        /\ \A c : Some(msgs', c) <=> Some(msgs, c) \/ Of(c, m1) \/ Of(c, m2)
    BY <1>0, <1>1, <1>4, ConcatSome
  <1>7. /\ Requested' = << >> /\ Here' = 0
    <2>1. front'[api + 1] = front[api + 1]
      BY <1>0, <1>1, <1>2
    <2>2. api + 1 > api
      BY <1>2
    <2> QED BY <1>0, <1>1, <1>2, <2>1, <2>2 DEF Requested, Here, Others
  <1>8. Numbers' = {} /\ Len(Requested') = 0
    BY <1>7 DEF Numbers
  <1>9. \A x, op : Foreign(x, op) /\ x.session # 0 /\ x.client \in Clients => Foreign(x, op)'
    <2> SUFFICES ASSUME NEW x, NEW op, Foreign(x, op), x.session # 0, x.client \in Clients
                 PROVE  Foreign(x, op)'
      OBVIOUS
    <2>1. x.client < api' /\ x.session # Here'
      <3>1. x.client < api => x.client < api + 1
        BY <1>0, <1>2
      <3> QED BY <1>1, <1>7, <3>1 DEF Foreign
    <2> QED BY <2>1 DEF Foreign
  <1>10. Shape' /\ Spots'
    BY <1>8 DEF Shape, Spots
  <1>11. Others'
    <2>1. ASSUME NEW c \in Clients, c # api + 1 PROVE front'[c].requests = << >>
      <3>1. CASE c = api
        BY <1>0, <1>1, <3>1 DEF Fronts
      <3>2. CASE c # api
        BY <1>0, <1>1, <3>2 DEF Others
      <3> QED BY <3>1, <3>2
    <2>2. ASSUME NEW c \in Clients, c > api + 1 PROVE front'[c].session = 0
      <3>1. c > api /\ c # api
        BY <1>0, <1>2, <2>2
      <3> QED BY <1>0, <1>1, <3>1 DEF Others
    <2> QED BY <1>1, <2>1, <2>2 DEF Others
  <1>12. Owned'
    <2>1. ASSUME NEW x \in In(msgs'), x.type \in Asks PROVE Mine(x, x.type)'
      BY <1>3, <1>5, <1>6, <2>1 DEF Asks
    <2>2. ASSUME NEW x \in In(msgs'), NEW op \in Asks, x.type = AnswerType(op)
          PROVE  (Foreign(x, op) \/ Mine(x, op))'
      <3>1. x \in In(msgs) /\ x.type \in Answers
        BY <1>5, <1>6, <2>2 DEF AnswerType, Answers
      <3>2. x.client \in Clients
        BY <1>0, <3>1 DEF MsgOK
      <3> QED BY <1>3, <1>9, <2>2, <3>1, <3>2
    <2>3. ASSUME NEW x \in In(pending') PROVE Mine(x, x.type)'
      BY <1>1, <1>3, <2>3, ShortSome
    <2>4. ASSUME NEW e \in In(engq'), e.op \in Asks PROVE (Foreign(e, e.op) \/ Mine(e, e.op))'
      <3>1. e.client \in Clients
        BY <1>0, <1>1, <2>4 DEF CallOK, Asks
      <3> QED BY <1>1, <1>3, <1>9, <2>4, <3>1
    <2>5. ASSUME NEW x \in In(msgs'), x.type = "removeClient" PROVE x.client < api'
      <3>1. \A y \in Clients : y < api => y < api + 1
        BY <1>0, <1>2
      <3>2. api < api + 1
        BY <1>2
      <3>3. CASE x \in In(msgs)
        <4>1. x.client \in Clients /\ x.client < api
          BY <1>0, <2>5, <3>3 DEF MsgOK, Owned
        <4> QED BY <1>1, <3>1, <4>1
      <3>4. CASE x = m1 \/ x = m2
        BY <1>1, <1>5, <2>5, <3>2, <3>4
      <3> QED BY <1>6, <3>3, <3>4
    <2> QED BY <2>1, <2>2, <2>3, <2>4, <2>5 DEF Owned
  <1>13. Caps'
    BY <1>0, <1>1, <1>3, <1>6, <1>8 DEF Caps
  <1>14. KnownApi'
    <2>1. Some(msgs', Adding(api + 1))
      BY <1>5, <1>6, NumberIs
    <2>2. ~Some(msgs', Asking)
      BY <1>3, <1>5, <1>6, InSome, NumberIs DEF Asks
    <2>3. Precedes(msgs', Adding(api + 1), Asking)
      BY <2>2 DEF Precedes, Some
    <2> QED BY <1>1, <1>8, <2>1, <2>3 DEF KnownApi
  <1>15. There'
    <2>1. 0 \notin DOMAIN sessions'
      BY <1>0, <1>1
    <2> QED BY <1>7, <2>1 DEF There
  <1>16. Taken'
    BY <1>0, <1>1 DEF Taken, Commands
  <1> QED BY <1>10, <1>11, <1>12, <1>13, <1>14, <1>15, <1>16 DEF AnswersInv

\* The rows of commands there are.
Rows == {<< >>, <<"start">>, <<"get">>, <<"get", "stop">>}

\* What a call of the framework may ask.
LEMMA RowKind ==
  ASSUME NEW ops \in Rows
  PROVE  /\ ops \in Seq(Asks) /\ Len(ops) \in {0, 1, 2}
         /\ Len(ops) = 2 => ops[1] = "get" /\ ops[2] = "stop"
  <1>1. CASE ops = << >>
    BY <1>1
  <1>2. CASE ops = <<"start">>
    BY <1>2 DEF Asks
  <1>3. CASE ops = <<"get">>
    BY <1>3 DEF Asks
  <1>4. CASE ops = <<"get", "stop">>
    BY <1>4 DEF Asks
  <1> QED BY <1>1, <1>2, <1>3, <1>4 DEF Rows

\* The client in use asks for something.
LEMMA AnswersAsk ==
  ASSUME AnswersInv, TypeInv', Requested = << >>, NEW ops \in Rows, NEW mode, Ask(api, ops, mode),
         UNCHANGED <<engq, pending, capsKnown, known, sessions, api>>,
         Requested' = Requests(ops),
         \A c \in Clients : c # api => /\ front'[c].requests = front[c].requests
                                       /\ front'[c].session = front[c].session,
         \/ Here' = Here /\ (\A i \in 1..Len(ops) : ops[i] # "start")
         \/ Here' \notin 0..used.sessions /\ ops = <<"start">>
  PROVE  AnswersInv'
  <1> DEFINE k == Len(taken)
             l == Len(ops)
  <1>0. /\ AnySeq(msgs) /\ Others /\ Owned /\ Caps /\ KnownApi /\ There /\ Taken
        /\ k \in Nat /\ api \in Clients /\ Clients \subseteq Nat
        /\ DOMAIN sessions \subseteq 1..used.sessions
        /\ \A m \in In(msgs) : MsgOK(m, used.sessions, Len(taken))
        /\ \A d \in In(engq) : CallOK(d, used.sessions, Len(taken))
    BY AnswersFacts DEF AnswersInv
  <1>1. /\ \A m \in In(msgs) : m.type \notin Asks
        /\ \A m \in In(msgs) : \A op \in Asks : m.type = AnswerType(op) => Foreign(m, op)
        /\ \A e \in In(engq) : e.op \in Asks => Foreign(e, e.op)
        /\ pending = << >> /\ ~Gone
        /\ \A n : ~Some(msgs, AskedN(n)) /\ ~Some(msgs, Asking)
        /\ \A n \in Nat \ {0} : ~Some(msgs, AnsweredN(n)) /\ ~Some(engq, CalledN(n))
    BY NothingAsked
  <1>2. ops \in Seq(Asks) /\ l \in {0, 1, 2} /\ AnySeq(ops) /\ AnySeq(taken)
        /\ (l = 2 => ops[1] = "get" /\ ops[2] = "stop")
    <2>1. taken \in Seq(0..k)
      BY DEF AnswersInv, TypeInv, FrontOK
    <2> QED BY <2>1, RowKind DEF AnySeq
  <1>3. PICK row :
          /\ AnySeq(row) /\ msgs' = msgs \o row
          /\ Len(row) = Len(ops)
          /\ \A i \in 1..Len(ops) :
               row[i] = [type |-> ops[i], client |-> api, session |-> front'[api].session,
                         n |-> Len(taken) + i, mode |-> mode]
          /\ Len(taken) \in Nat /\ Len(taken') = Len(taken) + Len(ops)
          /\ \A i \in 1..Len(taken) : taken'[i] = taken[i]
          /\ \A i \in 1..Len(ops) : taken'[Len(taken) + i] = 0
    BY <1>2, AskRow
  <1>4. /\ Len(Requested') = l
        /\ \A i \in 1..l : Requested'[i] = [op |-> ops[i], n |-> k + i]
    BY <1>0, <1>2, RequestsKind
  <1> HIDE DEF k, l
  <1>5. /\ Len(row) = l /\ l \in Nat
        /\ \A i \in 1..l : /\ row[i].type = ops[i] /\ row[i].client = api
                           /\ row[i].session = Here' /\ row[i].n = k + i
                           /\ ops[i] \in Asks /\ k + i \in Nat \ {0}
    <2>1. \A i \in 1..l : ops[i] \in Asks
      BY <1>2, ElementOfSeq DEF l
    <2>2. \A i \in 1..l : k + i \in Nat \ {0}
      BY <1>0
    <2>3. l \in Nat
      BY <1>2
    <2>4. Here' = front'[api].session
      BY DEF Here
    <2>5. Len(row) = l
      BY <1>3 DEF l
    <2>6. ASSUME NEW i \in 1..l
          PROVE  /\ row[i].type = ops[i] /\ row[i].client = api
                 /\ row[i].session = front'[api].session /\ row[i].n = k + i
      <3>1. PICK j, s : j = k + i /\ s = front'[api].session
        OBVIOUS
      <3>2. row[i] = [type |-> ops[i], client |-> api, session |-> s, n |-> j, mode |-> mode]
        BY <1>3, <3>1 DEF k, l
      <3> QED BY <3>1, <3>2
    <2> QED BY <2>1, <2>2, <2>3, <2>4, <2>5, <2>6
  <1>6. /\ In(msgs') = In(msgs) \cup In(row)
        /\ \A c : Some(msgs', c) <=> Some(msgs, c) \/ Some(row, c)
        /\ \A a, b : Precedes(msgs, a, b) /\ Precedes(row, a, b)
                     /\ ~(Some(row, a) /\ Some(msgs, b)) => Precedes(msgs', a, b)
        /\ \A a, b : Adjacent(msgs, a, b) /\ Adjacent(row, a, b) => Adjacent(msgs', a, b)
    BY <1>0, <1>3, ConcatSome, AdjacentMore
  <1>7. /\ \A i \in 1..l : \A n : Of(AskedN(n), row[i]) <=> n = k + i
        /\ \A i \in 1..l : \A n : ~Of(AnsweredN(n), row[i])
        /\ \A i \in 1..l : \A c : ~Of(Adding(c), row[i])
    BY <1>5, NumberIs DEF Asks, Answers
  <1>8. /\ \A i \in 1..l : Some(row, AskedN(k + i))
        /\ \A n : ~Some(row, AnsweredN(n)) /\ ~Some(row, Adding(n))
        /\ \A n : Precedes(row, AskedN(n), AskedN(n))
    <2>1. \A n : Precedes(row, AskedN(n), AskedN(n))
      <3> SUFFICES ASSUME NEW n, NEW i \in 1..l, NEW j \in 1..l,
                          Of(AskedN(n), row[i]), Of(AskedN(n), row[j])
                   PROVE  i <= j
        BY <1>5 DEF Precedes
      <3>1. k + i = k + j
        BY <1>7
      <3> QED BY <1>0, <1>5, <3>1
    <2> QED BY <1>5, <1>7, <2>1 DEF Some
  <1>9. /\ Numbers' = {k + i : i \in 1..l}
        /\ \A op, n : Wanted(op, n)' <=> \E i \in 1..l : op = ops[i] /\ n = k + i
    <2>1. \A i \in 1..l : Requested'[i].op = ops[i] /\ Requested'[i].n = k + i
      BY <1>4
    <2> QED BY <1>4, <2>1 DEF Numbers, Wanted
  <1>10. ASSUME NEW n \in Numbers'
         PROVE  /\ n \in Nat \ {0} /\ InMsgs(n)' /\ ~Held(n)' /\ ~Called(n)' /\ ~Answered(n)'
                /\ Spot(n)'
    <2>1. n \in Nat \ {0} /\ Some(row, AskedN(n))
      BY <1>5, <1>8, <1>9
    <2>2. InMsgs(n)' /\ ~Held(n)' /\ ~Called(n)' /\ ~Answered(n)'
      BY <1>1, <1>6, <1>8, <2>1, ShortSome DEF InMsgs, Held, Called, Answered
    <2>3. Precedes(msgs', AskedN(n), AskedN(n))
      <3>1. Precedes(msgs, AskedN(n), AskedN(n)) /\ ~Some(msgs, AskedN(n))
        BY <1>1 DEF Precedes, Some
      <3> QED BY <1>6, <1>8, <3>1
    <2>4. /\ Precedes(msgs', AnsweredN(n), AnsweredN(n)) /\ Precedes(pending', AskedN(n), AskedN(n))
          /\ Precedes(engq', CalledN(n), CalledN(n))
      BY <2>2 DEF Precedes, Some, Held, Called, Answered
    <2> QED BY <2>1, <2>2, <2>3, <2>4 DEF Spot
  <1>11. Shape'
    <2>1. \A j \in {0, 1, 2} : j <= 2
      OBVIOUS
    <2>2. Len(Requested') <= 2
      BY <1>2, <1>4, <2>1 DEF l
    <2>3. l = 2 => /\ Requested'[1].op = "get" /\ Requested'[2].op = "stop"
                   /\ Requested'[1].n = k + 1 /\ Requested'[2].n = k + 2
      BY <1>2, <1>4 DEF l
    <2>4. k + 1 # k + 2
      BY <1>0 DEF k
    <2> QED BY <1>4, <2>2, <2>3, <2>4 DEF Shape
  <1>12. ASSUME l = 2, NEW g, NEW t, g = k + 1, t = k + 2 PROVE Ahead(g, t)'
    <2>1. 1 \in 1..l /\ 2 \in 1..l /\ g # t /\ 1..l = {1, 2}
      BY <1>0, <1>12 DEF k
    <2>2. Adjacent(row, AskedN(g), AskedN(t))
      <3> SUFFICES ASSUME NEW i \in 1..Len(row), Of(AskedN(g), row[i])
                   PROVE  i < Len(row) /\ Of(AskedN(t), row[i + 1])
        BY DEF Adjacent
      <3>1. i = 1
        BY <1>5, <1>7, <1>12, <2>1
      <3>2. Of(AskedN(t), row[2])
        BY <1>7, <1>12, <2>1
      <3> QED BY <1>5, <1>12, <3>1, <3>2
    <2>3. Adjacent(msgs', AskedN(g), AskedN(t))
      <3>1. Adjacent(msgs, AskedN(g), AskedN(t))
        BY <1>1 DEF Adjacent, Some
      <3> QED BY <1>6, <2>2, <3>1
    <2>4. g \in Numbers' /\ t \in Numbers'
      BY <1>9, <1>12, <2>1
    <2>5. Precedes(engq', CalledN(g), CalledN(t)) /\ Precedes(msgs', AnsweredN(g), AnsweredN(t))
      BY <1>10, <2>4 DEF Precedes, Some, Called, Answered
    <2> QED BY <1>10, <2>3, <2>4, <2>5 DEF Ahead
  <1>13. Spots'
    <2>1. ASSUME Len(Requested') = 2 PROVE Ahead(Requested[1].n, Requested[2].n)'
      <3>1. l = 2 /\ Requested'[1].n = k + 1 /\ Requested'[2].n = k + 2
        BY <1>2, <1>4, <2>1
      <3>2. PICK g, t : g = k + 1 /\ t = k + 2
        OBVIOUS
      <3>3. Ahead(g, t)'
        BY <1>12, <3>1, <3>2
      <3> QED BY <3>1, <3>2, <3>3
    <2> QED BY <1>10, <2>1 DEF Spots
  <1>14. Others'
    <2>1. \A c \in Clients : c > api => c # api
      BY <1>0
    <2> QED BY <1>0, <2>1 DEF Others
  <1>15. \A x, op : Foreign(x, op) /\ x.session \in 1..used.sessions => Foreign(x, op)'
    <2> SUFFICES ASSUME NEW x, NEW op, Foreign(x, op), x.session \in 1..used.sessions
                 PROVE  Foreign(x, op)'
      OBVIOUS
    <2>1. x.session \in 0..used.sessions
      BY AnswersFacts
    <2>2. x.session # Here'
      BY <2>1 DEF Foreign
    <2> QED BY <2>2 DEF Foreign
  <1>16. Owned'
    <2>1. ASSUME NEW x \in In(row) PROVE x.type \in Asks /\ Mine(x, x.type)'
      <3>1. PICK i \in 1..l : x = row[i]
        BY <1>5 DEF In
      <3>2. Wanted(x.type, x.n)'
        BY <1>5, <1>9, <3>1
      <3> QED BY <1>5, <3>1, <3>2 DEF Mine
    <2>2. ASSUME NEW x \in In(msgs'), x.type \in Asks PROVE Mine(x, x.type)'
      BY <1>1, <1>6, <2>1, <2>2
    <2>3. ASSUME NEW x \in In(msgs'), NEW op \in Asks, x.type = AnswerType(op)
          PROVE  (Foreign(x, op) \/ Mine(x, op))'
      <3>1. x \in In(msgs) /\ x.type \in Answers
        BY <1>6, <2>1, <2>3 DEF AnswerType, Asks, Answers
      <3>2. Foreign(x, op) /\ x.session \in 1..used.sessions
        BY <1>0, <1>1, <2>3, <3>1 DEF MsgOK
      <3> QED BY <1>15, <3>2
    <2>4. ASSUME NEW x \in In(pending') PROVE Mine(x, x.type)'
      BY <1>1, <2>4, ShortSome
    <2>5. ASSUME NEW e \in In(engq'), e.op \in Asks PROVE (Foreign(e, e.op) \/ Mine(e, e.op))'
      <3>1. Foreign(e, e.op) /\ e.session \in 1..used.sessions
        BY <1>0, <1>1, <2>5 DEF CallOK, Asks
      <3> QED BY <1>15, <3>1
    <2>6. ASSUME NEW x \in In(msgs'), x.type = "removeClient" PROVE x.client < api'
      <3>1. x \in In(msgs)
        BY <1>6, <2>1, <2>6 DEF Asks
      <3> QED BY <1>0, <2>6, <3>1 DEF Owned
    <2> QED BY <2>2, <2>3, <2>4, <2>5, <2>6 DEF Owned
  <1>17. Caps'
    BY <1>0, <1>6, <1>10 DEF Caps
  <1>18. KnownApi'
    <2>1. Precedes(row, Adding(api), Asking)
      BY <1>5, <1>7 DEF Precedes
    <2> QED BY <1>0, <1>6, <1>8, <1>10, <2>1 DEF KnownApi
  <1>19. There'
    <2>1. CASE Here' = Here /\ \A i \in 1..Len(ops) : ops[i] # "start"
      <3>1. ~Gone'
        BY <1>9, <1>10, <2>1 DEF Gone, l
      <3> QED BY <1>0, <1>1, <2>1, <3>1 DEF There
    <2>2. CASE Here' \notin 0..used.sessions /\ ops = <<"start">>
      <3>1. 1 \in 1..l /\ ops[1] = "start"
        BY <2>2 DEF l
      <3>2. PICK n : n = k + 1
        OBVIOUS
      <3>3. n \in Numbers' /\ Wanted("start", n)'
        BY <1>9, <3>1, <3>2
      <3>4. Gone'
        BY <1>10, <3>3 DEF Gone
      <3>5. Here' \notin DOMAIN sessions'
        <4>1. 1..used.sessions \subseteq 0..used.sessions
          BY AnswersFacts
        <4> QED BY <1>0, <2>2, <4>1
      <3> QED BY <3>4, <3>5 DEF There
    <2> QED BY <2>1, <2>2
  <1>20. Taken'
    <2> SUFFICES ASSUME NEW n \in 1..Len(taken') PROVE taken'[n] \in {0, n}
      BY DEF Taken, Commands
    <2>1. CASE n \in 1..Len(taken)
      BY <1>0, <1>3, <2>1 DEF Taken, Commands
    <2>2. CASE n \notin 1..Len(taken)
      <3>1. n - Len(taken) \in 1..Len(ops) /\ Len(taken) + (n - Len(taken)) = n
        BY <1>3, <1>5, <2>2 DEF l
      <3> QED BY <1>3, <3>1
    <2> QED BY <2>1, <2>2
  <1> QED BY <1>11, <1>13, <1>14, <1>16, <1>17, <1>18, <1>19, <1>20 DEF AnswersInv

\* The framework calls.
LEMMA AnswersFramework ==
  ASSUME Patient, AnswersInv, TypeInv', Framework
  PROVE  AnswersInv'
  <1> DEFINE F == front[api]
             N == used.sessions
             K == Len(taken)
  <1>0. /\ AnySeq(msgs) /\ AnySeq(engq)
        /\ front \in [Clients -> Fronts(N, K)] /\ api \in Clients
        /\ F \in Fronts(N, K) /\ N \in Nat /\ K \in Nat
        /\ used \in [sessions : Nat, faults : Nat, full : Nat]
    BY AnswersFacts DEF AnswersInv, TypeInv, FrontOK
  <1>1. Requested = << >> /\ F.requests = << >>
    BY DEF Framework, Initialize, Start, Stop, Flush, MayCall, Requested
  <1>2. \A ops \in Rows : Requests(ops) \in Seq([op : Asks, n : 1..(K + Len(ops))])
    <2> SUFFICES ASSUME NEW ops \in Rows
                 PROVE  Requests(ops) \in Seq([op : Asks, n : 1..(K + Len(ops))])
      OBVIOUS
    <2>1. ops \in Seq(Asks)
      BY RowKind
    <2> QED BY <1>0, <2>1, RequestsKind
  <1>3. \A ops \in Rows : << >> \o Requests(ops) = Requests(ops)
    <2> SUFFICES ASSUME NEW ops \in Rows PROVE << >> \o Requests(ops) = Requests(ops)
      OBVIOUS
    <2>1. PICK R : R = [op : Asks, n : 1..(K + Len(ops))]
      OBVIOUS
    <2>2. PICK q : q = Requests(ops)
      OBVIOUS
    <2>3. q \in Seq(R)
      BY <1>2, <2>1, <2>2
    <2>4. << >> \o q = q
      BY <2>3
    <2> QED BY <2>2, <2>4
  <1> HIDE DEF F, N, K
  \* A client g whose requests come behind those of F, which are none.
  <1>4. ASSUME NEW ops \in Rows, NEW mode, NEW g, g.requests = F.requests \o Requests(ops),
               front' = [front EXCEPT ![api] = g], Ask(api, ops, mode),
               UNCHANGED <<engq, pending, capsKnown, known, sessions, api>>,
               \/ g.session = F.session /\ (\A i \in 1..Len(ops) : ops[i] # "start")
               \/ g.session = N + 1 /\ ops = <<"start">>
        PROVE  AnswersInv'
    <2>1. front'[api] = g /\ \A c \in Clients : c # api => front'[c] = front[c]
      BY <1>0, <1>4
    <2>2. Requested' = Requests(ops)
      BY <1>1, <1>3, <1>4, <2>1 DEF Requested
    <2>3. \/ Here' = Here /\ (\A i \in 1..Len(ops) : ops[i] # "start")
          \/ Here' \notin 0..used.sessions /\ ops = <<"start">>
      <3>1. N + 1 \notin 0..N
        BY <1>0
      <3> QED BY <1>4, <2>1, <3>1 DEF Here, F, N
    <2> QED BY <1>1, <1>4, <2>1, <2>2, <2>3, AnswersAsk
  <1>5. /\ << >> \in Rows /\ <<"start">> \in Rows
        /\ <<"get">> \in Rows /\ <<"get", "stop">> \in Rows
        /\ \A i \in 1..Len(<< >>) : << >>[i] # "start"
        /\ \A i \in 1..Len(<<"get">>) : <<"get">>[i] # "start"
        /\ \A i \in 1..Len(<<"get", "stop">>) : <<"get", "stop">>[i] # "start"
    <2>1. \A i \in 1..Len(<<"get", "stop">>) : i = 1 \/ i = 2
      OBVIOUS
    <2>2. \A i \in 1..Len(<<"get", "stop">>) : <<"get", "stop">>[i] # "start"
      BY <2>1
    <2> QED BY <2>2 DEF Rows
  <1>6. CASE Initialize
    BY <1>1, <1>6, AnswersInitialize
  <1>7. ASSUME NEW mode, Start(mode), StartNew(mode) PROVE AnswersInv'
    <2> DEFINE s == N + 1
               g == [F EXCEPT !.state = "started", !.session = s,
                              !.requests = @ \o Requests(<<"start">>)]
    <2>1. /\ front' = [front EXCEPT ![api] = g] /\ Ask(api, <<"start">>, mode)
          /\ UNCHANGED <<engq, pending, capsKnown, known, sessions, api>>
      BY <1>0, <1>7 DEF Start, StartNew, adapter, F, N
    <2>2. PICK q : q = F.requests \o Requests(<<"start">>)
      OBVIOUS
    <2>3. g = [F EXCEPT !.state = "started", !.session = s, !.requests = q]
      BY <2>2
    <2>4. g.requests = q /\ g.session = s
      BY <1>0, <2>3 DEF Fronts
    <2> HIDE DEF g
    <2> QED BY <1>4, <1>5, <2>1, <2>2, <2>4
  <1>8. ASSUME NEW mode, Start(mode), StartAgain PROVE AnswersInv'
    <2> DEFINE g == [F EXCEPT !.state = "started"]
    <2>1. /\ front' = [front EXCEPT ![api] = g]
          /\ UNCHANGED <<msgs, engq, pending, capsKnown, known, sessions, api, taken>>
      BY <1>8 DEF Start, StartAgain, adapter, F
    <2>2. g.requests = F.requests /\ g.session = F.session
      BY <1>0 DEF Fronts
    <2> HIDE DEF g
    <2>3. \A c \in Clients : /\ front'[c].requests = front[c].requests
                             /\ front'[c].session = front[c].session
      BY <1>0, <2>1, <2>2 DEF F
    <2>4. SameAsks(msgs, msgs') /\ SameCalled(engq, engq')
      BY <1>0, <2>1, QuietMsgs, QuietCalls
    <2> QED BY <2>1, <2>3, <2>4, QuietStep
  <1>9. CASE Stop
    <2> DEFINE ops == IF F.session = 0 THEN << >> ELSE <<"get", "stop">>
               g == [F EXCEPT !.state = "stopping", !.requests = @ \o Requests(ops)]
    <2>1. /\ front' = [front EXCEPT ![api] = g] /\ Ask(api, ops, "none")
          /\ UNCHANGED <<engq, pending, capsKnown, known, sessions, api>>
      BY <1>0, <1>9 DEF Stop, adapter, F
    <2>2. PICK q : q = F.requests \o Requests(ops)
      OBVIOUS
    <2>3. g = [F EXCEPT !.state = "stopping", !.requests = q]
      BY <2>2
    <2>4. g.requests = q /\ g.session = F.session
      BY <1>0, <2>3 DEF Fronts
    <2>5. ops \in Rows /\ \A i \in 1..Len(ops) : ops[i] # "start"
      BY <1>5
    <2> HIDE DEF g, ops
    <2> QED BY <1>4, <2>1, <2>2, <2>4, <2>5
  <1>10. CASE Flush
    <2> DEFINE none == F.session = 0
               ops == IF none THEN << >> ELSE <<"get">>
               g == [F EXCEPT !.requests = @ \o Requests(ops), !.owed = TRUE,
                              !.thread = @ \/ none]
    <2>1. /\ front' = [front EXCEPT ![api] = g] /\ Ask(api, ops, "none")
          /\ UNCHANGED <<engq, pending, capsKnown, known, sessions, api>>
      BY <1>0, <1>10 DEF Flush, adapter, F
    <2>2. PICK q : q = F.requests \o Requests(ops)
      OBVIOUS
    <2>3. PICK b : b = (F.thread \/ none)
      OBVIOUS
    <2>4. g = [F EXCEPT !.requests = q, !.owed = TRUE, !.thread = b]
      BY <2>2, <2>3
    <2>5. g.requests = q /\ g.session = F.session
      BY <1>0, <2>4 DEF Fronts
    <2>6. ops \in Rows /\ \A i \in 1..Len(ops) : ops[i] # "start"
      BY <1>5
    <2> HIDE DEF g, ops
    <2> QED BY <1>4, <2>1, <2>2, <2>5, <2>6
  <1> QED BY <1>6, <1>7, <1>8, <1>9, <1>10 DEF Framework, Start

\* The answers: the initial state.
LEMMA AnswersInit == Init => AnswersInv
  <1> SUFFICES ASSUME Init PROVE AnswersInv
    OBVIOUS
  <1> USE DEF Init
  <1> DEFINE x == [type |-> "addClient", client |-> 1]
             e == [op |-> "open"]
  <1>1. TypeInv
    BY TypeInit
  <1>2. 1 \in Clients
    BY BatchingAssumption DEF Clients
  <1>3. /\ api = 1 /\ msgs = <<x>> /\ engq = <<e>> /\ pending = << >> /\ capsKnown = FALSE
        /\ \A c \in Clients : front[c].requests = << >> /\ front[c].session = 0
        /\ taken = << >> /\ sessions = << >>
    BY DEF NewClient
  <1>4. /\ In(msgs) = {x} /\ \A c : Some(msgs, c) <=> Of(c, x)
        /\ \A a, b : Precedes(msgs, a, b)
        /\ In(engq) = {e} /\ \A c : Some(engq, c) <=> Of(c, e)
        /\ In(pending) = {}
    BY <1>3, ShortSome
  <1>5. x.type = "addClient" /\ x.client = 1 /\ e.op = "open"
    OBVIOUS
  <1> HIDE DEF x, e, Init
  <1>6. Requested = << >> /\ Here = 0 /\ Numbers = {} /\ Len(Requested) = 0
    <2>1. Requested = << >> /\ Here = 0
      BY <1>2, <1>3 DEF Requested, Here
    <2> QED BY <2>1 DEF Numbers
  <1>7. Shape /\ Spots
    BY <1>6 DEF Shape, Spots
  <1>8. Others
    BY <1>3 DEF Others
  <1>9. Owned
    BY <1>4, <1>5 DEF Owned, Asks, AnswerType
  <1>10. Caps
    BY <1>3, <1>4, <1>5, <1>6, OfIs DEF Caps
  <1>11. KnownApi
    BY <1>3, <1>4, <1>5, <1>6, NumberIs DEF KnownApi
  <1>12. There
    <2>1. DOMAIN sessions = {}
      BY <1>3
    <2> QED BY <1>6, <2>1 DEF There
  <1>13. Taken
    BY <1>3 DEF Taken, Commands
  <1> QED BY <1>1, <1>7, <1>8, <1>9, <1>10, <1>11, <1>12, <1>13 DEF AnswersInv

\* The answers: every step.
LEMMA AnswersNext ==
  ASSUME Patient, Supported PROVE AnswersInv /\ [Next]_vars => AnswersInv'
  <1> SUFFICES ASSUME AnswersInv, [Next]_vars PROVE AnswersInv'
    OBVIOUS
  <1>1. TypeInv'
    BY TypeNext DEF AnswersInv
  <1>2. CASE UNCHANGED vars
    <2>1. SameAsks(msgs, msgs') /\ SameCalled(engq, engq')
      BY <1>2, AnswersFacts, QuietMsgs, QuietCalls DEF vars
    <2> QED BY <1>1, <1>2, <2>1, QuietStep DEF vars, adapter
  <1>3. CASE Framework
    BY <1>1, <1>3, AnswersFramework
  <1>4. CASE Proc
    <2>1. ASSUME NEW type \in {"start", "stop", "get"}, Hold(type) PROVE AnswersInv'
      BY <1>1, <2>1, AnswersHold DEF Asks
    <2> QED BY <1>1, <1>4, <2>1, AnswersClients, AnswersAsked, AnswersAnswered, AnswersEngineUp
         DEF Proc
  <1>5. CASE Accept \/ Refuse
    <2>1. Head(engq) \in In(engq) /\ Head(engq).op # "open"
      BY <1>5, AnswersFacts, TailSome DEF Accept, Refuse
    <2>2. /\ Head(engq).op \in {"restart"} \cup Asks
          /\ Head(engq).op \in Asks =>
                Foreign(Head(engq), Head(engq).op) \/ Mine(Head(engq), Head(engq).op)
      BY <2>1, AnswersFacts DEF CallOK, AnswersInv, Owned
    <2> QED BY <1>1, <1>5, <2>2, AnswersForeign, AnswersOwn
  <1>6. CASE Open \/ Crash \/ BatchFull
    BY <1>1, <1>6, AnswersModem
  <1>7. CASE \E c \in Clients : EmptyReport(c)
    BY <1>1, <1>7, AnswersClients
  <1> QED BY <1>2, <1>3, <1>4, <1>5, <1>6, <1>7 DEF Next, LocApi

\* If the modem batches and a client's requests are answered before its next call, every
\* answer is taken for the command it answers, and when everything has settled no
\* request of the client in use is left, whatever the modem refuses and however often
\* it restarts.
THEOREM AnswersMatched ==
  ASSUME Patient, Supported PROVE Spec => []AnswersMatch
  <1>1. AnswersInv => AnswersMatch
    <2> SUFFICES ASSUME AnswersInv PROVE AnswersMatch
      OBVIOUS
    <2>1. \A n \in Commands : taken[n] \in {0, n}
      BY DEF AnswersInv, Taken
    <2>2. ASSUME Idle PROVE front[api].requests = << >>
      <3>1. \A c : ~Some(msgs, c) /\ ~Some(engq, c)
        BY <2>2, ShortSome DEF Idle
      <3>2. pending = << >>
        BY <3>1 DEF AnswersInv, Caps
      <3>3. Numbers = {}
        BY <3>1, <3>2, ShortSome
           DEF AnswersInv, Spots, Spot, InMsgs, Held, Called, Answered
      <3>4. Len(Requested) = 0
        <4>1. 1..Len(Requested) = {}
          BY <3>3 DEF Numbers
        <4>2. \A k \in {1, 2} : 1 \in 1..k
          OBVIOUS
        <4> QED BY <4>1, <4>2, NumbersAre
      <3> QED BY <3>4, AnswersFacts, EmptySeq DEF Requested
    <2> QED BY <2>1, <2>2 DEF AnswersMatch
  <1> QED BY <1>1, AnswersInit, AnswersNext, PTL DEF Spec

-----------------------------------------------------------------------------
(* The client in use, the adapter and the modem agree about the sessions, if *)
(* one thing at most goes wrong: a call refused, or a restart of the modem.  *)

\* The start of session s has failed, as the adapter will be told.
FailedStart(s) == Class("failedOf", "started", s)

\* The modem is going to run session s, or to stop it.
Coming(s) == Some(engq, CallOf("start", s)) \/ Some(engq, CallOf("restart", s))
Ending(s) == Some(engq, CallOf("stop", s))

\* A call to stop a session is the last about it, and the adapter has it no more.
EndsLast(s) ==
    /\ Precedes(engq, CallOf("restart", s), CallOf("stop", s))
    /\ Precedes(engq, CallOf("stop", s), CallOf("stop", s))
    /\ Ending(s) => s \notin DOMAIN sessions

\* When it is answered the session is nowhere.
StopDone(s) ==
    /\ Precedes(msgs, Msg("stopped", s), Msg("stopped", s))
    /\ Some(msgs, Msg("stopped", s)) =>
          s \notin DOMAIN sessions /\ s \notin DOMAIN modem /\ ~Coming(s) /\ ~Ending(s)

\* A session that could not be started is not in the modem, and the adapter is told
\* before it could start it again.
StartFailed(s) ==
    /\ Precedes(msgs, FailedStart(s), EngineUp)
    /\ Some(msgs, FailedStart(s)) => s \notin DOMAIN modem /\ ~Coming(s)

\* A session is started once, and nothing but a restart can have started it before.
StartFirst(s) ==
    /\ Precedes(engq, CallOf("start", s), CallOf("start", s))
    /\ Some(engq, CallOf("start", s)) /\ used.faults = 0 => s \notin DOMAIN modem

\* What the modem runs or will run the adapter has or is stopping. What the adapter has
\* the modem runs or will run in its mode, unless the start failed or a restart of the
\* modem is to be told.
Followers(s) ==
    /\ s \notin DOMAIN sessions /\ (s \in DOMAIN modem \/ Coming(s)) => Ending(s)
    /\ s \in DOMAIN sessions =>
          \/ Recovering \/ Some(msgs, FailedStart(s)) \/ Coming(s)
          \/ s \in DOMAIN modem /\ modem[s] = sessions[s].mode
    /\ s \in DOMAIN sessions =>
          \A e \in In(engq) : Of(CallOf("restart", s), e) => e.mode = sessions[s].mode

Settles(s) == EndsLast(s) /\ StopDone(s) /\ StartFailed(s) /\ StartFirst(s) /\ Followers(s)

\* One thing goes wrong at most. The adapter is told of a restart at most once while the
\* modem is open, and not while it is not.
OneFault ==
    /\ used.faults \in {0, 1}
    /\ used.faults = 0 /\ capsKnown => up /\ ~Some(msgs, EngineUp)
    /\ used.faults = 0 /\ ~up => ~Some(msgs, EngineUp)
    /\ capsKnown /\ ~up => ~Some(msgs, EngineUp)
    /\ ~capsKnown /\ (~up \/ used.faults = 0) => Precedes(msgs, EngineUp, EngineUp)
    /\ \A e \in In(engq) : e.op = "restart" => up /\ used.faults = 1

\* The modem runs nothing while it is not open. Before the adapter is first told that it
\* is, nothing is called and nothing answered.
Opening ==
    /\ ~up => DOMAIN modem = {}
    /\ up => ~Some(engq, OpenCall)
    /\ Precedes(engq, OpenCall, OpenCall)
    /\ ~capsKnown => /\ DOMAIN sessions = {} /\ DOMAIN modem = {}
                     /\ \A e \in In(engq) : e.op = "open"
                     /\ \A m \in In(msgs) : m.type \notin {"started", "stopped"}

\* The session of the client in use is the only one of that client.
Owners ==
    \A s \in DOMAIN sessions :
        sessions[s].client <= api /\ (sessions[s].client = api => s = Here)

SettlesInv == (\A s \in Nat : Settles(s)) /\ OneFault /\ Opening
AgreeInv == FullInv /\ AnswersInv /\ SettlesInv /\ Owners

LEMMA FailedIs ==
  /\ \A s, m : Of(FailedStart(s), m) <=> m.type = "started" /\ m.session = s /\ ~m.ok
  BY DEF Of, Class, FailedStart

\* The same answers and the same calls, in the same order.
CalmMsgs(q, r) ==
    /\ \A s \in Nat : /\ Some(r, Msg("stopped", s)) <=> Some(q, Msg("stopped", s))
                      /\ Some(r, FailedStart(s)) <=> Some(q, FailedStart(s))
    /\ Some(r, EngineUp) <=> Some(q, EngineUp)
    /\ \A s \in Nat : /\ Precedes(q, Msg("stopped", s), Msg("stopped", s)) =>
                             Precedes(r, Msg("stopped", s), Msg("stopped", s))
                      /\ Precedes(q, FailedStart(s), EngineUp) =>
                             Precedes(r, FailedStart(s), EngineUp)
    /\ Precedes(q, EngineUp, EngineUp) => Precedes(r, EngineUp, EngineUp)
    /\ \A m \in In(r) : m.type \in {"started", "stopped"} => m \in In(q)

CalmCalls(q, r) ==
    /\ \A s \in Nat, t \in {"start", "restart", "stop"} :
          Some(r, CallOf(t, s)) <=> Some(q, CallOf(t, s))
    /\ Some(r, OpenCall) <=> Some(q, OpenCall)
    /\ \A s \in Nat, t, u \in {"start", "restart", "stop"} :
          Precedes(q, CallOf(t, s), CallOf(u, s)) => Precedes(r, CallOf(t, s), CallOf(u, s))
    /\ Precedes(q, OpenCall, OpenCall) => Precedes(r, OpenCall, OpenCall)
    /\ \A e \in In(r) : e.op # "get" => e \in In(q)

\* Messages of other kinds make no difference.
LEMMA MsgsCalm ==
  ASSUME NEW q, AnySeq(q)
  PROVE  /\ CalmMsgs(q, q)
         /\ \A row : AnySeq(row)
                     /\ (\A m \in In(row) : m.type \notin {"started", "stopped", "engineUp"}) =>
               CalmMsgs(q, q \o row)
         /\ q # << >> /\ Head(q).type \notin {"started", "stopped", "engineUp"} =>
               CalmMsgs(q, Tail(q))
  <1>1. ASSUME NEW row, AnySeq(row),
               \A m \in In(row) : m.type \notin {"started", "stopped", "engineUp"}
        PROVE  CalmMsgs(q, q \o row)
    <2>1. /\ \A s : ~Some(row, Msg("stopped", s)) /\ ~Some(row, FailedStart(s))
          /\ ~Some(row, EngineUp)
      BY <1>1, OfIs, FailedIs, InSome
    <2>2. /\ \A s : /\ Precedes(row, Msg("stopped", s), Msg("stopped", s))
                    /\ Precedes(row, FailedStart(s), EngineUp)
          /\ Precedes(row, EngineUp, EngineUp)
      BY <2>1 DEF Precedes, Some
    <2> DEFINE r == q \o row
    <2>3. /\ In(r) = In(q) \cup In(row)
          /\ \A c : Some(r, c) <=> Some(q, c) \/ Some(row, c)
          /\ \A a, b : Precedes(q, a, b) /\ Precedes(row, a, b) /\ ~(Some(row, a) /\ Some(q, b)) =>
                           Precedes(r, a, b)
      BY <1>1, ConcatSome
    <2> HIDE DEF r
    <2>4. CalmMsgs(q, r)
      BY <1>1, <2>1, <2>2, <2>3 DEF CalmMsgs
    <2> QED BY <2>4 DEF r
  <1>2. ASSUME q # << >>, Head(q).type \notin {"started", "stopped", "engineUp"}
        PROVE  CalmMsgs(q, Tail(q))
    <2> DEFINE r == Tail(q)
               h == Head(q)
    <2>1. /\ In(q) = In(r) \cup {h}
          /\ \A c : Some(q, c) <=> Some(r, c) \/ Of(c, h)
          /\ \A a, b : Precedes(q, a, b) => Precedes(r, a, b)
      BY <1>2, TailSome
    <2> HIDE DEF r, h
    <2>2. h.type \notin {"started", "stopped", "engineUp"}
      BY <1>2 DEF h
    <2>3. CalmMsgs(q, r)
      BY <2>1, <2>2, OfIs, FailedIs DEF CalmMsgs
    <2> QED BY <2>3 DEF r, h
  <1>3. CalmMsgs(q, q)
    BY DEF CalmMsgs
  <1> QED BY <1>1, <1>2, <1>3

\* Nor do calls for the locations.
LEMMA CallsCalm ==
  ASSUME NEW q, AnySeq(q)
  PROVE  /\ CalmCalls(q, q)
         /\ \A e : e.op = "get" => CalmCalls(q, Append(q, e))
         /\ q # << >> /\ Head(q).op = "get" => CalmCalls(q, Tail(q))
  <1>1. ASSUME NEW e, e.op = "get" PROVE CalmCalls(q, Append(q, e))
    <2> DEFINE r == Append(q, e)
    <2>1. /\ In(r) = In(q) \cup {e}
          /\ \A c : Some(r, c) <=> Some(q, c) \/ Of(c, e)
          /\ \A a, b : Precedes(q, a, b) /\ (Of(a, e) => ~Some(q, b)) => Precedes(r, a, b)
      BY AppendSome
    <2> HIDE DEF r
    <2>2. CalmCalls(q, r)
      BY <1>1, <2>1, OfIs DEF CalmCalls
    <2> QED BY <2>2 DEF r
  <1>2. ASSUME q # << >>, Head(q).op = "get" PROVE CalmCalls(q, Tail(q))
    <2> DEFINE r == Tail(q)
               h == Head(q)
    <2>1. /\ In(q) = In(r) \cup {h}
          /\ \A c : Some(q, c) <=> Some(r, c) \/ Of(c, h)
          /\ \A a, b : Precedes(q, a, b) => Precedes(r, a, b)
      BY <1>2, TailSome
    <2> HIDE DEF r, h
    <2>2. h.op = "get"
      BY <1>2 DEF h
    <2>3. CalmCalls(q, r)
      BY <2>1, <2>2, OfIs DEF CalmCalls
    <2> QED BY <2>3 DEF r, h
  <1>3. CalmCalls(q, q)
    BY DEF CalmCalls
  <1> QED BY <1>1, <1>2, <1>3

\* A step that leaves the sessions, the answers and the calls as they are.
LEMMA CalmStep ==
  ASSUME SettlesInv, CalmMsgs(msgs, msgs'), CalmCalls(engq, engq'),
         UNCHANGED <<capsKnown, sessions, modem, up>>, used'.faults = used.faults,
         ~capsKnown => \A e \in In(engq') : e.op = "open"
  PROVE  SettlesInv'
  <1>1. ASSUME NEW s \in Nat PROVE Settles(s)'
    <2>1. Settles(s)
      BY DEF SettlesInv
    <2>2. (Coming(s)' <=> Coming(s)) /\ (Ending(s)' <=> Ending(s))
      BY DEF CalmCalls, Coming, Ending
    <2>3. EndsLast(s)'
      BY <2>1, <2>2 DEF CalmCalls, Settles, EndsLast
    <2>4. StopDone(s)'
      BY <2>1, <2>2 DEF CalmMsgs, Settles, StopDone
    <2>5. StartFailed(s)'
      BY <2>1, <2>2 DEF CalmMsgs, Settles, StartFailed
    <2>6. StartFirst(s)'
      BY <2>1 DEF CalmCalls, Settles, StartFirst
    <2>7. \A e \in In(engq') : Of(CallOf("restart", s), e) => e \in In(engq)
      BY OfIs DEF CalmCalls
    <2>8. Followers(s)'
      BY <2>1, <2>2, <2>7 DEF CalmMsgs, Settles, Followers, Recovering
    <2> QED BY <2>3, <2>4, <2>5, <2>6, <2>8 DEF Settles
  <1>2. OneFault'
    <2>1. \A e \in In(engq') : e.op = "restart" => e \in In(engq)
      BY DEF CalmCalls
    <2> QED BY <2>1 DEF CalmMsgs, SettlesInv, OneFault
  <1>3. Opening'
    <2>1. \A m \in In(msgs') : m.type \in {"started", "stopped"} => m \in In(msgs)
      BY DEF CalmMsgs
    <2> QED BY <2>1 DEF CalmCalls, SettlesInv, Opening
  <1> QED BY <1>1, <1>2, <1>3 DEF SettlesInv

\* What the framework's calls put behind the other messages.
LEMMA FrameworkRow ==
  ASSUME TypeInv, Framework
  PROVE  \E row : /\ AnySeq(row) /\ msgs' = msgs \o row
                  /\ \A m \in In(row) : m.type \in Asks \cup {"addClient", "removeClient"}
  <1>0. AnySeq(msgs) /\ AnySeq(taken)
    BY DEF TypeInv, QueuesOK, FrontOK, AnySeq
  <1>1. ASSUME NEW ops \in Seq(Asks), NEW mode, Ask(api, ops, mode)
        PROVE  \E row : /\ AnySeq(row) /\ msgs' = msgs \o row
                        /\ \A m \in In(row) : m.type \in Asks
    <2>1. AnySeq(ops)
      BY DEF AnySeq
    <2>2. PICK row :
             /\ AnySeq(row) /\ msgs' = msgs \o row
             /\ Len(row) = Len(ops)
             /\ \A i \in 1..Len(ops) :
                  row[i] = [type |-> ops[i], client |-> api, session |-> front'[api].session,
                            n |-> Len(taken) + i, mode |-> mode]
             /\ Len(taken) \in Nat /\ Len(taken') = Len(taken) + Len(ops)
             /\ \A i \in 1..Len(taken) : taken'[i] = taken[i]
             /\ \A i \in 1..Len(ops) : taken'[Len(taken) + i] = 0
      BY <1>0, <1>1, <2>1, AskRow
    <2>3. ASSUME NEW i \in 1..Len(row) PROVE row[i].type \in Asks
      <3>1. ops[i] \in Asks
        BY <1>1, <2>2, ElementOfSeq
      <3>2. row[i] = [type |-> ops[i], client |-> api, session |-> front'[api].session,
                      n |-> Len(taken) + i, mode |-> mode]
        BY <2>2
      <3> QED BY <3>1, <3>2
    <2> QED BY <2>2, <2>3 DEF In
  <1>2. << >> \in Seq(Asks) /\ <<"start">> \in Seq(Asks) /\ <<"get">> \in Seq(Asks)
        /\ <<"get", "stop">> \in Seq(Asks)
    BY DEF Asks
  <1>3. CASE Initialize
    <2> DEFINE r == [type |-> "removeClient", client |-> api]
               a == [type |-> "addClient", client |-> api + 1]
               row == <<r, a>>
    <2>1. msgs' = msgs \o row /\ row = Append(<<r>>, a)
      BY <1>3 DEF Initialize
    <2>2. AnySeq(<<r>>) /\ In(<<r>>) = {r}
      BY ShortSome
    <2>3. AnySeq(row) /\ In(row) = {r, a}
      BY <2>1, <2>2, AppendSome
    <2>4. r.type = "removeClient" /\ a.type = "addClient"
      OBVIOUS
    <2> HIDE DEF row
    <2> QED BY <2>1, <2>3, <2>4
  <1>4. ASSUME NEW mode \in Modes, Start(mode)
        PROVE  \E row : /\ AnySeq(row) /\ msgs' = msgs \o row
                        /\ \A m \in In(row) : m.type \in Asks
    <2>1. CASE StartNew(mode)
      BY <1>1, <1>2, <2>1 DEF StartNew
    <2>2. CASE StartAgain
      <3>1. msgs' = msgs \o << >>
        BY <1>0, <2>2 DEF StartAgain, AnySeq
      <3> QED BY <3>1, ShortSome
    <2> QED BY <1>4, <2>1, <2>2 DEF Start
  <1>5. CASE Stop
    <2> DEFINE ops == IF front[api].session = 0 THEN << >> ELSE <<"get", "stop">>
    <2>1. Ask(api, ops, "none")
      BY <1>5 DEF Stop
    <2>2. ops \in Seq(Asks)
      BY <1>2
    <2> HIDE DEF ops
    <2> QED BY <1>1, <2>1, <2>2
  <1>6. CASE Flush
    <2> DEFINE ops == IF front[api].session = 0 THEN << >> ELSE <<"get">>
    <2>1. Ask(api, ops, "none")
      BY <1>6 DEF Flush
    <2>2. ops \in Seq(Asks)
      BY <1>2
    <2> HIDE DEF ops
    <2> QED BY <1>1, <2>1, <2>2
  <1> QED BY <1>3, <1>4, <1>5, <1>6 DEF Framework

\* The steps that are about none of it.
LEMMA SettlesCalm ==
  ASSUME AgreeInv,
         \/ Framework \/ (\E c \in Clients : EmptyReport(c)) \/ BatchFull
         \/ ProcAddClient \/ ProcGet \/ ProcGot \/ ProcLocations
         \/ \E type \in {"start", "stop", "get"} : Hold(type)
  PROVE  SettlesInv'
  <1>0. /\ AnySeq(msgs) /\ AnySeq(engq) /\ TypeInv /\ SettlesInv
        /\ ~capsKnown => \A e \in In(engq) : e.op = "open"
    BY FullFacts DEF AgreeInv, SettlesInv, Opening
  <1>1. CalmMsgs(msgs, msgs) /\ CalmCalls(engq, engq)
    BY <1>0, MsgsCalm, CallsCalm
  <1>2. CASE Framework
    <2>1. PICK row : /\ AnySeq(row) /\ msgs' = msgs \o row
                     /\ \A m \in In(row) : m.type \in Asks \cup {"addClient", "removeClient"}
      BY <1>0, <1>2, FrameworkRow
    <2>2. \A m \in In(row) : m.type \notin {"started", "stopped", "engineUp"}
      BY <2>1 DEF Asks
    <2>3. CalmMsgs(msgs, msgs')
      BY <1>0, <2>1, <2>2, MsgsCalm
    <2>4. UNCHANGED <<engq, adapter, modem, up>> /\ used'.faults = used.faults
      BY <1>0, <1>2 DEF Framework, Initialize, Start, StartNew, StartAgain, Stop, Flush,
                        TypeInv, FrontOK
    <2> QED BY <1>0, <1>1, <2>3, <2>4, CalmStep DEF adapter
  <1>3. CASE \E c \in Clients : EmptyReport(c)
    BY <1>0, <1>1, <1>3, CalmStep DEF EmptyReport, adapter
  <1>4. CASE BatchFull
    <2> DEFINE m == [type |-> "locations"]
    <2>1. msgs' = Append(msgs, m) /\ used'.faults = used.faults
          /\ UNCHANGED <<engq, adapter, modem, up>>
      BY <1>0, <1>4 DEF BatchFull, TypeInv, FrontOK
    <2>2. m.type = "locations"
      OBVIOUS
    <2> HIDE DEF m
    <2>3. AnySeq(<<m>>) /\ In(<<m>>) = {m} /\ Append(msgs, m) = msgs \o <<m>>
      BY <1>0, ShortSome DEF AnySeq
    <2>4. CalmMsgs(msgs, msgs')
      BY <1>0, <2>1, <2>2, <2>3, MsgsCalm
    <2> QED BY <1>0, <1>1, <2>1, <2>4, CalmStep DEF adapter
  <1>5. ASSUME NEW type, type \notin {"started", "stopped", "engineUp"}, Receive(type),
               CalmCalls(engq, engq'), UNCHANGED <<capsKnown, sessions, modem, up, used>>,
               ~capsKnown => engq' = engq
        PROVE  SettlesInv'
    <2>1. msgs # << >> /\ msgs' = Tail(msgs) /\ Head(msgs).type = type
      BY <1>0, <1>5, ReceiveSome
    <2>2. CalmMsgs(msgs, msgs')
      BY <1>0, <1>5, <2>1, MsgsCalm
    <2> QED BY <1>0, <1>5, <2>2, CalmStep
  <1>6. CASE ProcAddClient
    BY <1>1, <1>5, <1>6 DEF ProcAddClient
  <1>7. CASE ProcGet
    <2> DEFINE e == Call("get", Head(msgs), "none")
    <2>1. e.op = "get"
      BY DEF Call
    <2>2. capsKnown /\ Receive("get") /\ UNCHANGED <<adapter, modem, up, used>>
          /\ engq' \in {engq, Append(engq, e)}
      BY <1>7 DEF ProcGet
    <2> HIDE DEF e
    <2>3. CalmCalls(engq, engq')
      BY <1>0, <2>1, <2>2, CallsCalm
    <2> QED BY <1>5, <2>2, <2>3 DEF adapter
  <1>8. CASE ProcGot
    BY <1>1, <1>5, <1>8 DEF ProcGot, adapter
  <1>9. CASE ProcLocations
    BY <1>1, <1>5, <1>9 DEF ProcLocations, adapter
  <1>10. ASSUME NEW type \in {"start", "stop", "get"}, Hold(type) PROVE SettlesInv'
    BY <1>1, <1>5, <1>10 DEF Hold
  <1> QED BY <1>2, <1>3, <1>4, <1>6, <1>7, <1>8, <1>9, <1>10

\* A set put in a row: each of it once.
LEMMA RowOnce ==
  ASSUME NEW S, IsFiniteSet(S), NEW x, \A u, v \in S : Of(x, u) /\ Of(x, v) => u = v
  PROVE  Precedes(SetToSeq(S), x, x)
  <1> DEFINE n == Cardinality(S)
             g == SetToSeq(S)
  <1>1. n \in Nat /\ ExistsBijection(1..n, S)
    BY FS_CardinalityType
  <1>2. PICK f : f \in Bijection(1..n, S)
    BY <1>1 DEF ExistsBijection
  <1>3. f \in [1..n -> S] /\ IsInjective(f)
    BY <1>2 DEF Bijection, Injection
  <1>4. g \in [1..n -> S] /\ IsInjective(g)
    BY <1>3 DEF SetToSeq
  <1>5. Len(g) = n
    BY <1>1, <1>4, SeqDef, LenProperties
  <1>6. \A i, j \in 1..n : g[i] = g[j] => i = j
    BY <1>4 DEF IsInjective
  <1> HIDE DEF g, n
  <1>7. ASSUME NEW i \in 1..n, NEW j \in 1..n, Of(x, g[i]), Of(x, g[j]) PROVE i <= j
    <2>1. i = j
      BY <1>4, <1>6, <1>7
    <2> QED BY <1>1, <2>1
  <1> QED BY <1>5, <1>7 DEF Precedes, g

\* What AgreeInv says before every step.
LEMMA AgreeFacts ==
  ASSUME AgreeInv
  PROVE  /\ AnySeq(msgs) /\ AnySeq(engq) /\ AnySeq(pending) /\ TypeInv /\ BitFollows
         /\ OneFault /\ Opening /\ used.sessions \in Nat
         /\ \A s \in Nat : Settles(s) /\ Session1(s)
         /\ \A m \in In(msgs) : MsgOK(m, used.sessions, Len(taken))
         /\ \A e \in In(engq) : CallOK(e, used.sessions, Len(taken))
         /\ \A m \in In(pending) : m.type \in Asks
         /\ DOMAIN sessions \subseteq 1..used.sessions
  BY FullFacts DEF AgreeInv, SettlesInv

\* A failed start is the answer to one.
LEMMA FailedStarted ==
  ASSUME NEW q, NEW s, Some(q, FailedStart(s)) PROVE Some(q, Msg("started", s))
  BY OfIs, FailedIs DEF Some

\* A start is answered.
LEMMA SettlesStarted ==
  ASSUME AgreeInv, ProcStarted PROVE SettlesInv'
  <1> DEFINE a == Head(msgs)
  <1>0. /\ AnySeq(msgs) /\ OneFault /\ Opening /\ \A s \in Nat : Settles(s)
        /\ \A m \in In(msgs) : MsgOK(m, used.sessions, Len(taken))
        /\ used.sessions \in Nat
    BY AgreeFacts
  <1>1. /\ Receive("started") /\ UNCHANGED <<engq, capsKnown, modem, up, used>>
        /\ sessions' = (IF a.ok THEN sessions ELSE Without(sessions, a.session))
    BY DEF ProcStarted
  <1>2. /\ a.type = "started" /\ In(msgs) = In(msgs') \cup {a}
        /\ \A c : Some(msgs, c) <=> Some(msgs', c) \/ Of(c, a)
        /\ \A x, y : Precedes(msgs, x, y) => Precedes(msgs', x, y)
    BY <1>0, <1>1, ReceiveSome
  <1> HIDE DEF a
  <1>3. /\ \A s : ~Of(Msg("stopped", s), a)
        /\ ~Of(EngineUp, a)
        /\ \A s : Of(FailedStart(s), a) <=> s = a.session /\ ~a.ok
    BY <1>2, OfIs, FailedIs
  <1>4. /\ DOMAIN sessions' \subseteq DOMAIN sessions
        /\ \A s \in DOMAIN sessions : s \in DOMAIN sessions' <=> a.ok \/ s # a.session
        /\ \A s \in DOMAIN sessions' : sessions'[s] = sessions[s]
    BY <1>1 DEF Without, Restrict
  <1>5. ASSUME NEW s \in Nat PROVE Settles(s)'
    <2>1. Settles(s)
      BY <1>0
    <2>2. (Coming(s)' <=> Coming(s)) /\ (Ending(s)' <=> Ending(s))
      BY <1>1 DEF Coming, Ending
    <2>3. EndsLast(s)'
      BY <1>1, <1>4, <2>1, <2>2 DEF Settles, EndsLast
    <2>4. StopDone(s)'
      BY <1>1, <1>2, <1>4, <2>1, <2>2 DEF Settles, StopDone
    <2>5. StartFailed(s)'
      BY <1>1, <1>2, <2>1, <2>2 DEF Settles, StartFailed
    <2>6. StartFirst(s)'
      BY <1>1, <2>1 DEF Settles, StartFirst
    <2>7. Recovering' <=> Recovering
      BY <1>1, <1>2, <1>3 DEF Recovering
    <2>8. s \in DOMAIN sessions /\ s \notin DOMAIN sessions' =>
              s \notin DOMAIN modem /\ ~Coming(s)
      BY <1>2, <1>3, <1>4, <2>1 DEF Settles, StartFailed
    <2>9. s \in DOMAIN sessions' /\ Some(msgs, FailedStart(s)) => Some(msgs', FailedStart(s))
      BY <1>2, <1>3, <1>4
    <2>10. Followers(s)'
      BY <1>1, <1>4, <2>1, <2>2, <2>7, <2>8, <2>9 DEF Settles, Followers
    <2> QED BY <2>3, <2>4, <2>5, <2>6, <2>10 DEF Settles
  <1>6. OneFault'
    BY <1>0, <1>1, <1>2 DEF OneFault
  <1>7. Opening'
    BY <1>0, <1>1, <1>2, <1>4 DEF Opening
  <1> QED BY <1>5, <1>6, <1>7 DEF SettlesInv

\* A start is carried out: nothing is known of the session.
LEMMA SettlesStart ==
  ASSUME AgreeInv, ProcStart PROVE SettlesInv'
  <1> DEFINE a == Head(msgs)
             e == Call("start", a, a.mode)
  <1>0. /\ AnySeq(msgs) /\ AnySeq(engq) /\ OneFault /\ Opening /\ SettlesInv
        /\ \A s \in Nat : Settles(s) /\ Session1(s)
        /\ \A m \in In(msgs) : MsgOK(m, used.sessions, Len(taken))
        /\ used.sessions \in Nat
    BY AgreeFacts DEF AgreeInv
  <1>1. Receive("start") /\ capsKnown /\ UNCHANGED <<capsKnown, modem, up, used>>
    BY DEF ProcStart
  <1>2. /\ msgs # << >> /\ msgs' = Tail(msgs)
        /\ a.type = "start" /\ In(msgs) = In(msgs') \cup {a}
        /\ \A c : Some(msgs, c) <=> Some(msgs', c) \/ Of(c, a)
    BY <1>0, <1>1, ReceiveSome
  <1>3. CalmMsgs(msgs, msgs')
    BY <1>0, <1>2, MsgsCalm
  <1>4. \/ /\ engq' = Append(engq, e)
           /\ sessions' = Extend(sessions, a.session, Session(a.client, a.mode))
        \/ UNCHANGED <<sessions, engq>>
    BY DEF ProcStart
  <1>5. e.op = "start" /\ e.session = a.session
    BY DEF Call
  <1>6. a.session \in 1..used.sessions
    BY <1>0, <1>2 DEF MsgOK, Asks
  <1> HIDE DEF a, e
  <1>7. Waiting(a.session) /\ a.session \in Nat
    BY <1>0, <1>2, <1>6, OfIs DEF Waiting
  <1>8. ~Known(a.session)
    BY <1>0, <1>7 DEF Session1, Once
  <1>9. CASE UNCHANGED <<sessions, engq>>
    <2>1. CalmCalls(engq, engq')
      BY <1>0, <1>9, CallsCalm
    <2> QED BY <1>0, <1>1, <1>3, <1>9, <2>1, CalmStep
  <1>10. CASE /\ engq' = Append(engq, e)
              /\ sessions' = Extend(sessions, a.session, Session(a.client, a.mode))
    <2>1. /\ In(engq') = In(engq) \cup {e}
          /\ \A c : Some(engq', c) <=> Some(engq, c) \/ Of(c, e)
          /\ \A x, y : Precedes(engq, x, y) /\ (Of(x, e) => ~Some(engq, y)) => Precedes(engq', x, y)
      BY <1>0, <1>10, AppendSome
    <2>2. /\ \A s : Of(CallOf("start", s), e) <=> s = a.session
          /\ \A s : ~Of(CallOf("stop", s), e) /\ ~Of(CallOf("restart", s), e)
          /\ ~Of(OpenCall, e)
      BY <1>5, OfIs
    <2>3. /\ DOMAIN sessions' = DOMAIN sessions \cup {a.session}
          /\ \A s \in DOMAIN sessions : sessions'[s] = sessions[s]
      BY <1>8, <1>10 DEF Extend, Known
    <2>4. /\ ~Ending(a.session) /\ ~Some(msgs, Msg("stopped", a.session))
          /\ ~Some(msgs, Msg("started", a.session)) /\ ~Some(engq, CallOf("start", a.session))
          /\ a.session \notin DOMAIN sessions
      BY <1>8 DEF Known, Ending
    <2>5. a.session \notin DOMAIN modem /\ ~Coming(a.session)
      BY <1>0, <1>7, <2>4 DEF Settles, Followers
    <2>6. ~Some(msgs, FailedStart(a.session))
      BY <2>4, FailedStarted
    <2>7. ASSUME NEW s \in Nat PROVE Settles(s)'
      <3>1. Settles(s)
        BY <1>0
      <3>2. (Coming(s)' <=> Coming(s) \/ s = a.session) /\ (Ending(s)' <=> Ending(s))
        BY <2>1, <2>2 DEF Coming, Ending
      <3>3. EndsLast(s)'
        BY <2>1, <2>2, <2>3, <2>4, <3>1, <3>2 DEF Settles, EndsLast
      <3>4. StopDone(s)'
        BY <1>1, <1>3, <2>3, <2>4, <3>1, <3>2 DEF Settles, StopDone, CalmMsgs
      <3>5. StartFailed(s)'
        BY <1>1, <1>3, <2>6, <3>1, <3>2 DEF Settles, StartFailed, CalmMsgs
      <3>6. StartFirst(s)'
        BY <1>1, <2>1, <2>2, <2>4, <2>5, <3>1 DEF Settles, StartFirst
      <3>7. \A d \in In(engq') : Of(CallOf("restart", s), d) =>
                                     d \in In(engq) /\ s # a.session
        BY <2>1, <2>2, <2>5, InSome DEF Coming
      <3>8. Recovering' <=> Recovering
        BY <1>1, <1>3 DEF Recovering, CalmMsgs
      <3>9. Followers(s)'
        BY <1>1, <1>3, <2>3, <3>1, <3>2, <3>7, <3>8 DEF Settles, Followers, CalmMsgs
      <3> QED BY <3>3, <3>4, <3>5, <3>6, <3>9 DEF Settles
    <2>8. OneFault'
      BY <1>0, <1>1, <1>3, <1>5, <2>1 DEF OneFault, CalmMsgs
    <2>9. Opening'
      BY <1>0, <1>1, <2>1, <2>2 DEF Opening
    <2> QED BY <2>7, <2>8, <2>9 DEF SettlesInv
  <1> QED BY <1>4, <1>9, <1>10

\* Sessions are taken from the table, and each is to be stopped.
LEMMA SessionsStopped ==
  ASSUME AgreeInv, CalmMsgs(msgs, msgs'), UNCHANGED <<capsKnown, modem, up, used>>,
         NEW mine, mine \subseteq DOMAIN sessions,
         sessions' = Restrict(sessions, DOMAIN sessions \ mine),
         NEW row, AnySeq(row), engq' = engq \o row,
         \A e \in In(row) : e.op = "stop" /\ e.session \in mine,
         \A s \in Nat : /\ Some(row, CallOf("stop", s)) <=> s \in mine
                        /\ Precedes(row, CallOf("stop", s), CallOf("stop", s))
  PROVE  SettlesInv'
  <1>0. /\ AnySeq(msgs) /\ AnySeq(engq) /\ OneFault /\ Opening
        /\ \A s \in Nat : Settles(s) /\ Session1(s)
        /\ DOMAIN sessions \subseteq 1..used.sessions /\ used.sessions \in Nat
    BY AgreeFacts
  <1>1. /\ In(engq') = In(engq) \cup In(row)
        /\ \A x : Some(engq', x) <=> Some(engq, x) \/ Some(row, x)
        /\ \A a, b : Precedes(engq, a, b) /\ Precedes(row, a, b)
                     /\ ~(Some(row, a) /\ Some(engq, b)) => Precedes(engq', a, b)
    BY <1>0, ConcatSome
  <1>2. /\ \A s : ~Some(row, CallOf("start", s)) /\ ~Some(row, CallOf("restart", s))
        /\ ~Some(row, OpenCall)
    BY OfIs, InSome
  <1>3. /\ \A s : Precedes(row, CallOf("restart", s), CallOf("stop", s))
        /\ \A s : Precedes(row, CallOf("start", s), CallOf("start", s))
        /\ Precedes(row, OpenCall, OpenCall)
    BY <1>2 DEF Precedes, Some
  <1>4. /\ DOMAIN sessions' = DOMAIN sessions \ mine
        /\ \A s \in DOMAIN sessions' : sessions'[s] = sessions[s]
    BY DEF Restrict
  <1>5. ASSUME NEW s \in Nat PROVE Settles(s)'
    <2>1. Settles(s)
      BY <1>0
    <2>2. (Coming(s)' <=> Coming(s)) /\ (Ending(s)' <=> Ending(s) \/ s \in mine)
      BY <1>1, <1>2 DEF Coming, Ending
    <2>3. s \in mine => ~Ending(s) /\ ~Some(msgs, Msg("stopped", s))
      BY <2>1 DEF Settles, EndsLast, StopDone
    <2>4. EndsLast(s)'
      BY <1>1, <1>2, <1>3, <1>4, <2>1, <2>2, <2>3 DEF Settles, EndsLast, Ending
    <2>5. StopDone(s)'
      BY <1>4, <2>1, <2>2, <2>3 DEF Settles, StopDone, CalmMsgs
    <2>6. StartFailed(s)'
      BY <2>1, <2>2 DEF Settles, StartFailed, CalmMsgs
    <2>7. StartFirst(s)'
      BY <1>1, <1>2, <1>3, <2>1 DEF Settles, StartFirst
    <2>8. Recovering' <=> Recovering
      BY DEF Recovering, CalmMsgs
    <2>9. \A d \in In(engq') : Of(CallOf("restart", s), d) => d \in In(engq)
      BY <1>1, OfIs
    <2>10. Followers(s)'
      BY <1>4, <2>1, <2>2, <2>8, <2>9 DEF Settles, Followers, CalmMsgs
    <2> QED BY <2>4, <2>5, <2>6, <2>7, <2>10 DEF Settles
  <1>6. OneFault'
    BY <1>0, <1>1 DEF OneFault, CalmMsgs
  <1>7. Opening'
    <2>1. ~capsKnown => In(row) = {}
      <3> SUFFICES ASSUME ~capsKnown, NEW e \in In(row) PROVE FALSE
        OBVIOUS
      <3>1. mine = {}
        BY <1>0 DEF Opening
      <3> QED BY <3>1
    <2> QED BY <1>0, <1>1, <1>2, <1>3, <1>4, <2>1 DEF Opening, CalmMsgs
  <1> QED BY <1>5, <1>6, <1>7 DEF SettlesInv

\* A stop is carried out, for one session or for all of a client that goes.
LEMMA SettlesStop ==
  ASSUME AgreeInv, ProcStop \/ ProcRemoveClient PROVE SettlesInv'
  <1>0. /\ AnySeq(msgs) /\ AnySeq(engq) /\ SettlesInv /\ Opening /\ TypeInv
        /\ DOMAIN sessions \subseteq 1..used.sessions /\ used.sessions \in Nat
    BY AgreeFacts DEF AgreeInv
  <1>1. CASE ProcStop
    <2> DEFINE a == Head(msgs)
               e == Call("stop", a, sessions[a.session].mode)
    <2>1. Receive("stop") /\ UNCHANGED <<capsKnown, modem, up, used>> /\ capsKnown
      BY <1>1 DEF ProcStop
    <2>2. msgs # << >> /\ msgs' = Tail(msgs) /\ a.type = "stop"
      BY <1>0, <2>1, ReceiveSome
    <2>3. CalmMsgs(msgs, msgs')
      BY <1>0, <2>2, MsgsCalm
    <2>4. \/ /\ a.session \in DOMAIN sessions
             /\ sessions' = Restrict(sessions, DOMAIN sessions \ {a.session})
             /\ engq' = Append(engq, e)
          \/ UNCHANGED <<sessions, engq>>
      BY <1>1 DEF ProcStop, Without
    <2>5. e.op = "stop" /\ e.session = a.session
      BY DEF Call
    <2> HIDE DEF a, e
    <2>6. CASE UNCHANGED <<sessions, engq>>
      <3>1. CalmCalls(engq, engq')
        BY <1>0, <2>6, CallsCalm
      <3> QED BY <1>0, <2>1, <2>3, <2>6, <3>1, CalmStep
    <2>7. CASE /\ a.session \in DOMAIN sessions
               /\ sessions' = Restrict(sessions, DOMAIN sessions \ {a.session})
               /\ engq' = Append(engq, e)
      <3>1. AnySeq(<<e>>) /\ In(<<e>>) = {e} /\ engq' = engq \o <<e>>
            /\ (\A c : Some(<<e>>, c) <=> Of(c, e)) /\ \A x, y : Precedes(<<e>>, x, y)
        BY <1>0, <2>7, ShortSome DEF AnySeq
      <3>2. \A s \in Nat : Some(<<e>>, CallOf("stop", s)) <=> s \in {a.session}
        BY <2>5, <3>1, OfIs
      <3> DEFINE row == <<e>>
                 mine == {a.session}
      <3>3. /\ AnySeq(row) /\ engq' = engq \o row
            /\ \A d \in In(row) : d.op = "stop" /\ d.session \in mine
            /\ \A s \in Nat : /\ Some(row, CallOf("stop", s)) <=> s \in mine
                              /\ Precedes(row, CallOf("stop", s), CallOf("stop", s))
            /\ mine \subseteq DOMAIN sessions
            /\ sessions' = Restrict(sessions, DOMAIN sessions \ mine)
        BY <2>5, <2>7, <3>1, <3>2
      <3> HIDE DEF row, mine
      <3> QED BY <2>1, <2>3, <3>3, SessionsStopped
    <2> QED BY <2>4, <2>6, <2>7
  <1>2. CASE ProcRemoveClient
    <2> DEFINE c == Head(msgs).client
               mine == {s \in DOMAIN sessions : sessions[s].client = c}
               left == Restrict(sessions, DOMAIN sessions \ mine)
               calls == {Call("stop", [client |-> c, session |-> s, n |-> 0], sessions[s].mode) :
                            s \in mine}
               row == SetToSeq(calls)
               f == [s \in mine |-> Call("stop", [client |-> c, session |-> s, n |-> 0],
                                         sessions[s].mode)]
    <2>1. /\ Receive("removeClient") /\ sessions' = left /\ engq' = engq \o row
          /\ UNCHANGED <<capsKnown, modem, up, used>>
      BY <1>2 DEF ProcRemoveClient
    <2>2. msgs # << >> /\ msgs' = Tail(msgs) /\ Head(msgs).type = "removeClient"
      BY <1>0, <2>1, ReceiveSome
    <2>3. CalmMsgs(msgs, msgs')
      BY <1>0, <2>2, MsgsCalm
    <2>4. AnySeq(row) /\ In(row) = calls
      BY <1>0, StopRow
    <2>5. /\ \A e \in calls : e.op = "stop" /\ e.session \in mine
          /\ \A s \in mine : \E e \in calls : e.op = "stop" /\ e.session = s
          /\ \A u, v \in calls : u.session = v.session => u = v
      <3>1. \A s \in mine : f[s].op = "stop" /\ f[s].session = s
        BY DEF Call
      <3>2. calls = {f[s] : s \in mine}
        OBVIOUS
      <3> HIDE DEF f, calls, mine
      <3> QED BY <3>1, <3>2
    <2>6. IsFiniteSet(calls)
      <3>1. IsFiniteSet(1..used.sessions) /\ mine \subseteq 1..used.sessions
        BY <1>0, FS_Interval
      <3>2. IsFiniteSet(mine)
        BY <3>1, FS_Subset
      <3>3. calls = {f[s] : s \in mine} /\ DOMAIN f = mine
        OBVIOUS
      <3> HIDE DEF f, calls, mine
      <3>4. IsFiniteSet({f[s] : s \in mine})
        BY <3>2, <3>3, FiniteImage
      <3> QED BY <3>3, <3>4
    <2>7. mine \subseteq DOMAIN sessions
      OBVIOUS
    <2> HIDE DEF calls, mine, f
    <2>8. ASSUME NEW s \in Nat
          PROVE  /\ Some(row, CallOf("stop", s)) <=> s \in mine
                 /\ Precedes(row, CallOf("stop", s), CallOf("stop", s))
      <3>1. \A u, v \in calls : Of(CallOf("stop", s), u) /\ Of(CallOf("stop", s), v) => u = v
        BY <2>5, OfIs
      <3>2. Precedes(row, CallOf("stop", s), CallOf("stop", s))
        BY <2>6, <3>1, RowOnce
      <3>3. Some(row, CallOf("stop", s)) <=> \E e \in calls : Of(CallOf("stop", s), e)
        BY <2>4, InSome
      <3> QED BY <2>5, <3>2, <3>3, OfIs
    <2>9. /\ AnySeq(row) /\ engq' = engq \o row
          /\ \A e \in In(row) : e.op = "stop" /\ e.session \in mine
          /\ sessions' = Restrict(sessions, DOMAIN sessions \ mine)
      BY <2>1, <2>4, <2>5
    <2> HIDE DEF row
    <2> QED BY <2>1, <2>3, <2>7, <2>8, <2>9, SessionsStopped
  <1> QED BY <1>1, <1>2

\* A stop is answered. One that failed was refused while the modem was not open: the
\* session will be started again.
LEMMA SettlesStopped ==
  ASSUME AgreeInv, ProcStopped PROVE SettlesInv'
  <1> DEFINE a == Head(msgs)
  <1>0. /\ AnySeq(msgs) /\ OneFault /\ Opening /\ \A s \in Nat : Settles(s)
        /\ \A m \in In(msgs) : MsgOK(m, used.sessions, Len(taken))
        /\ used.sessions \in Nat /\ BitFollows
    BY AgreeFacts
  <1>1. /\ Receive("stopped") /\ UNCHANGED <<engq, capsKnown, modem, up, used>>
        /\ sessions' = (IF a.ok THEN sessions ELSE Extend(sessions, a.session, Restored(a)))
    BY DEF ProcStopped
  <1>2. /\ a.type = "stopped" /\ In(msgs) = In(msgs') \cup {a}
        /\ \A c : Some(msgs, c) <=> Some(msgs', c) \/ Of(c, a)
        /\ \A x, y : Precedes(msgs, x, y) => Precedes(msgs', x, y)
        /\ \A x, y : Precedes(msgs, x, y) /\ Of(y, a) => ~Some(msgs', x)
        /\ \A x, y : Followed(msgs, x, y) /\ Of(x, a) => Some(msgs', y)
    BY <1>0, <1>1, ReceiveSome
  <1>3. a.session \in 1..used.sessions
    BY <1>0, <1>2 DEF MsgOK, Answers
  <1> HIDE DEF a
  <1>4. /\ \A s : Of(Msg("stopped", s), a) <=> s = a.session
        /\ ~Of(EngineUp, a)
        /\ \A s : ~Of(FailedStart(s), a)
        /\ Of(FailedStop, a) <=> ~a.ok
    BY <1>2, OfIs, FailedIs
  <1>5. /\ DOMAIN sessions' = IF a.ok THEN DOMAIN sessions ELSE DOMAIN sessions \cup {a.session}
        /\ \A s \in DOMAIN sessions : s # a.session => sessions'[s] = sessions[s]
        /\ a.ok => sessions' = sessions
    BY <1>1 DEF Extend
  <1>6. capsKnown
    BY <1>0, <1>2 DEF Opening
  <1>7. ~a.ok => Recovering'
    BY <1>0, <1>1, <1>2, <1>4 DEF BitFollows, Recovering
  <1>8. /\ a.session \notin DOMAIN modem /\ ~Coming(a.session) /\ ~Ending(a.session)
        /\ ~Some(msgs', Msg("stopped", a.session))
    <2>1. StopDone(a.session)
      BY <1>0, <1>3 DEF Settles
    <2> QED BY <1>2, <1>4, <2>1 DEF StopDone
  <1>9. ASSUME NEW s \in Nat PROVE Settles(s)'
    <2>1. Settles(s)
      BY <1>0
    <2>2. (Coming(s)' <=> Coming(s)) /\ (Ending(s)' <=> Ending(s))
      BY <1>1 DEF Coming, Ending
    <2>3. EndsLast(s)'
      BY <1>1, <1>5, <1>8, <2>1, <2>2 DEF Settles, EndsLast
    <2>4. StopDone(s)'
      BY <1>1, <1>2, <1>5, <1>8, <2>1, <2>2 DEF Settles, StopDone
    <2>5. StartFailed(s)'
      BY <1>1, <1>2, <2>1, <2>2 DEF Settles, StartFailed
    <2>6. StartFirst(s)'
      BY <1>1, <2>1 DEF Settles, StartFirst
    <2>7. /\ Recovering' <=> Recovering
          /\ Some(msgs', FailedStart(s)) <=> Some(msgs, FailedStart(s))
      BY <1>1, <1>2, <1>4 DEF Recovering
    <2>8. Followers(s)'
      <3>1. CASE s = a.session /\ ~a.ok
        <4>1. \A d \in In(engq) : ~Of(CallOf("restart", s), d)
          BY <1>8, <3>1, InSome DEF Coming
        <4> QED BY <1>1, <1>5, <1>7, <3>1, <4>1 DEF Followers
      <3>2. CASE s # a.session \/ a.ok
        BY <1>1, <1>5, <2>1, <2>2, <2>7, <3>2 DEF Settles, Followers
      <3> QED BY <3>1, <3>2
    <2> QED BY <2>3, <2>4, <2>5, <2>6, <2>8 DEF Settles
  <1>10. OneFault'
    BY <1>0, <1>1, <1>2 DEF OneFault
  <1>11. Opening'
    BY <1>0, <1>1, <1>6 DEF Opening
  <1> QED BY <1>9, <1>10, <1>11 DEF SettlesInv

\* The adapter is told that the engine is up: every session it has is started again.
LEMMA SettlesEngineUp ==
  ASSUME AgreeInv, ProcEngineUp PROVE SettlesInv'
  <1> DEFINE calls == {Restart(s) : s \in DOMAIN sessions}
             row == SetToSeq(calls)
             r == Tail(msgs)
  <1>0. /\ AnySeq(msgs) /\ AnySeq(engq) /\ AnySeq(pending) /\ TypeInv
        /\ OneFault /\ Opening
        /\ \A s \in Nat : Settles(s) /\ Session1(s)
        /\ \A m \in In(pending) : m.type \in Asks
        /\ DOMAIN sessions \subseteq 1..used.sessions /\ used.sessions \in Nat
    BY AgreeFacts
  <1>1. /\ Receive("engineUp") /\ capsKnown' = TRUE
        /\ engq' = engq \o row /\ msgs' = r \o pending
        /\ UNCHANGED <<sessions, modem, up, used>>
    BY DEF ProcEngineUp
  <1>2. /\ msgs # << >> /\ Head(msgs).type = "engineUp" /\ AnySeq(r)
        /\ In(msgs) = In(r) \cup {Head(msgs)}
        /\ \A c : Some(msgs, c) <=> Some(r, c) \/ Of(c, Head(msgs))
        /\ \A x, y : Precedes(msgs, x, y) => Precedes(r, x, y)
        /\ \A x, y : Precedes(msgs, x, y) /\ Of(y, Head(msgs)) => ~Some(r, x)
    BY <1>0, <1>1, TailSome DEF Receive
  <1>3. AnySeq(row) /\ In(row) = calls
    BY <1>0, RestartRow
  <1>4. \A e \in calls : /\ e.op = "restart" /\ e.session \in DOMAIN sessions
                         /\ e.mode = sessions[e.session].mode
    BY DEF Restart, Call
  <1>5. \A s \in DOMAIN sessions : \E e \in calls : e.op = "restart" /\ e.session = s
    <2> DEFINE f == [s \in DOMAIN sessions |-> Restart(s)]
    <2>1. \A s \in DOMAIN sessions : f[s].op = "restart" /\ f[s].session = s
      BY DEF Restart, Call
    <2>2. \A s \in DOMAIN sessions : f[s] \in calls
      OBVIOUS
    <2> HIDE DEF f, calls
    <2> QED BY <2>1, <2>2
  <1> HIDE DEF row, r, calls
  <1>6. /\ In(engq') = In(engq) \cup In(row)
        /\ \A c : Some(engq', c) <=> Some(engq, c) \/ Some(row, c)
        /\ \A a, b : Precedes(engq, a, b) /\ Precedes(row, a, b)
                     /\ ~(Some(row, a) /\ Some(engq, b)) => Precedes(engq', a, b)
    BY <1>0, <1>1, <1>3, ConcatSome
  <1>7. /\ \A s : ~Some(row, CallOf("start", s)) /\ ~Some(row, CallOf("stop", s))
        /\ ~Some(row, OpenCall)
        /\ \A s : Some(row, CallOf("restart", s)) <=> s \in DOMAIN sessions
    BY <1>3, <1>4, <1>5, OfIs, InSome
  <1>8. /\ \A s : Precedes(row, CallOf("restart", s), CallOf("stop", s))
        /\ \A s : Precedes(row, CallOf("stop", s), CallOf("stop", s))
        /\ \A s : Precedes(row, CallOf("start", s), CallOf("start", s))
        /\ Precedes(row, OpenCall, OpenCall)
    BY <1>7 DEF Precedes, Some
  <1>9. CalmMsgs(r, msgs')
    <2>1. \A m \in In(pending) : m.type \notin {"started", "stopped", "engineUp"}
      BY <1>0 DEF Asks
    <2> QED BY <1>0, <1>1, <1>2, <2>1, MsgsCalm
  <1>10. Of(EngineUp, Head(msgs)) /\ Some(msgs, EngineUp)
    BY <1>2, OfIs
  <1>11. ASSUME NEW s \in Nat PROVE Settles(s)'
    <2>1. Settles(s)
      BY <1>0
    <2>2. (Coming(s)' <=> Coming(s) \/ s \in DOMAIN sessions) /\ (Ending(s)' <=> Ending(s))
      BY <1>6, <1>7 DEF Coming, Ending
    <2>3. EndsLast(s)'
      BY <1>1, <1>6, <1>7, <1>8, <2>1, <2>2 DEF Settles, EndsLast, Ending
    <2>4. StopDone(s)'
      <3>1. Some(msgs', Msg("stopped", s)) => Some(msgs, Msg("stopped", s))
        BY <1>2, <1>9 DEF CalmMsgs
      <3>2. Precedes(msgs', Msg("stopped", s), Msg("stopped", s))
        BY <1>2, <1>9, <2>1 DEF CalmMsgs, Settles, StopDone
      <3> QED BY <1>1, <2>1, <2>2, <3>1, <3>2 DEF Settles, StopDone
    <2>5. StartFailed(s)'
      <3>1. ~Some(r, FailedStart(s)) /\ Precedes(r, FailedStart(s), EngineUp)
        BY <1>2, <1>10, <2>1 DEF Settles, StartFailed
      <3> QED BY <1>9, <3>1 DEF StartFailed, CalmMsgs
    <2>6. StartFirst(s)'
      BY <1>1, <1>6, <1>7, <1>8, <2>1 DEF Settles, StartFirst
    <2>7. \A e \in In(engq') : Of(CallOf("restart", s), e) =>
              e \in In(engq) \/ e.mode = sessions[s].mode
      BY <1>3, <1>4, <1>6, OfIs
    <2>8. Followers(s)'
      BY <1>1, <2>1, <2>2, <2>7 DEF Settles, Followers
    <2> QED BY <2>3, <2>4, <2>5, <2>6, <2>8 DEF Settles
  <1>12. OneFault'
    <2>1. used.faults = 0 => up /\ ~capsKnown
      BY <1>0, <1>10 DEF OneFault
    <2>2. used.faults = 0 \/ ~up => ~Some(msgs', EngineUp)
      <3>1. used.faults = 0 \/ ~up => Precedes(msgs, EngineUp, EngineUp)
        BY <1>0, <1>10, <2>1 DEF OneFault
      <3>2. used.faults = 0 \/ ~up => ~Some(r, EngineUp)
        BY <1>2, <1>10, <3>1
      <3> QED BY <1>9, <3>2 DEF CalmMsgs
    <2>3. \A e \in In(engq') : e.op = "restart" => up /\ used.faults = 1
      <3>1. ASSUME NEW s \in DOMAIN sessions PROVE up /\ used.faults = 1
        <4>1. capsKnown
          BY <1>0 DEF Opening
        <4> QED BY <1>0, <1>10, <4>1 DEF OneFault
      <3> QED BY <1>0, <1>3, <1>4, <1>6, <3>1 DEF OneFault
    <2> QED BY <1>0, <1>1, <2>1, <2>2, <2>3 DEF OneFault
  <1>13. Opening'
    BY <1>0, <1>1, <1>6, <1>7, <1>8 DEF Opening
  <1> QED BY <1>11, <1>12, <1>13 DEF SettlesInv

\* The modem opens, or restarts.
LEMMA SettlesModem ==
  ASSUME AgreeInv, MaxFaults <= 1, Open \/ Crash PROVE SettlesInv'
  <1>0. /\ AnySeq(msgs) /\ AnySeq(engq) /\ OneFault /\ Opening /\ TypeInv
        /\ \A s \in Nat : Settles(s)
    BY AgreeFacts
  <1>1. CASE Open
    <2> DEFINE m == [type |-> "engineUp"]
    <2>1. /\ engq # << >> /\ Head(engq).op = "open" /\ engq' = Tail(engq) /\ up' = TRUE
          /\ msgs' = Append(msgs, m)
          /\ UNCHANGED <<capsKnown, sessions, modem, used>>
      BY <1>1 DEF Open, adapter
    <2>2. Of(EngineUp, m) /\ m.type = "engineUp"
          /\ \A s : ~Of(Msg("stopped", s), m) /\ ~Of(FailedStart(s), m)
      BY OfIs, FailedIs
    <2> HIDE DEF m
    <2>3. /\ In(msgs') = In(msgs) \cup {m}
          /\ \A c : Some(msgs', c) <=> Some(msgs, c) \/ Of(c, m)
          /\ \A a, b : Precedes(msgs, a, b) /\ (Of(a, m) => ~Some(msgs, b)) => Precedes(msgs', a, b)
      BY <1>0, <2>1, AppendSome
    <2>4. /\ In(engq) = In(engq') \cup {Head(engq)}
          /\ \A c : Some(engq, c) <=> Some(engq', c) \/ Of(c, Head(engq))
          /\ \A x, y : Precedes(engq, x, y) => Precedes(engq', x, y)
          /\ \A x, y : Precedes(engq, x, y) /\ Of(y, Head(engq)) => ~Some(engq', x)
      BY <1>0, <2>1, TailSome
    <2>5. /\ Of(OpenCall, Head(engq))
          /\ \A s : \A t \in {"start", "restart", "stop"} : ~Of(CallOf(t, s), Head(engq))
      BY <2>1, OfIs
    <2>6. ~up /\ ~Some(engq', OpenCall)
      BY <1>0, <2>4, <2>5 DEF Opening, TypeInv, AdapterOK
    <2>7. ASSUME NEW s \in Nat PROVE Settles(s)'
      <3>1. Settles(s)
        BY <1>0
      <3>2. (Coming(s)' <=> Coming(s)) /\ (Ending(s)' <=> Ending(s))
        BY <2>4, <2>5 DEF Coming, Ending
      <3>3. EndsLast(s)'
        BY <2>1, <2>4, <3>1, <3>2 DEF Settles, EndsLast
      <3>4. StopDone(s)'
        BY <2>1, <2>2, <2>3, <3>1, <3>2 DEF Settles, StopDone
      <3>5. StartFailed(s)'
        BY <2>1, <2>2, <2>3, <3>1, <3>2 DEF Settles, StartFailed
      <3>6. StartFirst(s)'
        BY <2>1, <2>4, <3>1 DEF Settles, StartFirst
      <3>7. Recovering'
        BY <2>2, <2>3 DEF Recovering
      <3>8. Followers(s)'
        BY <2>1, <2>4, <3>1, <3>2, <3>7 DEF Settles, Followers
      <3> QED BY <3>3, <3>4, <3>5, <3>6, <3>8 DEF Settles
    <2>8. OneFault'
      <3>1. used.faults = 0 => ~Some(msgs, EngineUp) /\ ~capsKnown
        BY <1>0, <2>6 DEF OneFault
      <3>2. used.faults = 0 => Precedes(msgs', EngineUp, EngineUp)
        <4>1. ~Some(msgs, EngineUp) => Precedes(msgs, EngineUp, EngineUp)
          BY DEF Precedes, Some
        <4> QED BY <2>3, <3>1, <4>1
      <3> QED BY <1>0, <2>1, <2>4, <2>6, <3>1, <3>2 DEF OneFault
    <2>9. Opening'
      BY <1>0, <2>1, <2>2, <2>3, <2>4, <2>6 DEF Opening
    <2> QED BY <2>7, <2>8, <2>9 DEF SettlesInv
  <1>2. CASE Crash
    <2> DEFINE e == [op |-> "open"]
    <2>1. /\ up /\ up' = FALSE /\ modem' = << >> /\ engq' = Append(engq, e)
          /\ UNCHANGED <<msgs, capsKnown, sessions>>
          /\ used.faults < MaxFaults /\ used'.faults = used.faults + 1
      BY <1>0, <1>2 DEF Crash, adapter, TypeInv, FrontOK
    <2>2. used.faults = 0 /\ used'.faults = 1
      BY <1>0, <2>1, BatchingAssumption DEF OneFault
    <2>3. /\ Of(OpenCall, e) /\ e.op = "open"
          /\ \A s : \A t \in {"start", "restart", "stop"} : ~Of(CallOf(t, s), e)
      BY OfIs
    <2> HIDE DEF e
    <2>4. /\ In(engq') = In(engq) \cup {e}
          /\ \A c : Some(engq', c) <=> Some(engq, c) \/ Of(c, e)
          /\ \A a, b : Precedes(engq, a, b) /\ (Of(a, e) => ~Some(engq, b)) => Precedes(engq', a, b)
      BY <1>0, <2>1, AppendSome
    <2>5. DOMAIN modem' = {}
      BY <2>1
    <2>6. ASSUME NEW s \in Nat PROVE Settles(s)'
      <3>1. Settles(s)
        BY <1>0
      <3>2. (Coming(s)' <=> Coming(s)) /\ (Ending(s)' <=> Ending(s))
        BY <2>3, <2>4 DEF Coming, Ending
      <3>3. EndsLast(s)'
        BY <2>1, <2>3, <2>4, <3>1, <3>2 DEF Settles, EndsLast
      <3>4. StopDone(s)'
        BY <2>1, <2>5, <3>1, <3>2 DEF Settles, StopDone
      <3>5. StartFailed(s)'
        BY <2>1, <2>5, <3>1, <3>2 DEF Settles, StartFailed
      <3>6. StartFirst(s)'
        BY <2>3, <2>4, <2>5, <3>1 DEF Settles, StartFirst
      <3>7. Recovering'
        BY <2>1 DEF Recovering
      <3>8. \A d \in In(engq') : Of(CallOf("restart", s), d) => d \in In(engq)
        BY <2>3, <2>4
      <3>9. Followers(s)'
        BY <2>1, <2>5, <3>1, <3>2, <3>7, <3>8 DEF Settles, Followers
      <3> QED BY <3>3, <3>4, <3>5, <3>6, <3>9 DEF Settles
    <2>7. OneFault'
      BY <1>0, <2>1, <2>2, <2>3, <2>4 DEF OneFault
    <2>8. Opening'
      BY <1>0, <2>1, <2>3, <2>4, <2>5 DEF Opening
    <2> QED BY <2>6, <2>7, <2>8 DEF SettlesInv
  <1> QED BY <1>1, <1>2

\* The adapter is told that call e has succeeded, or that it has not.
Told(e, ok) ==
    /\ \A s \in Nat :
          /\ Some(msgs', Msg("stopped", s)) <=>
                Some(msgs, Msg("stopped", s)) \/ (e.op = "stop" /\ e.session = s)
          /\ Some(msgs', FailedStart(s)) <=>
                Some(msgs, FailedStart(s)) \/ (e.op = "start" /\ e.session = s /\ ~ok)
          /\ Precedes(msgs, Msg("stopped", s), Msg("stopped", s))
             /\ ~(e.op = "stop" /\ e.session = s /\ Some(msgs, Msg("stopped", s))) =>
                Precedes(msgs', Msg("stopped", s), Msg("stopped", s))
          /\ Precedes(msgs, FailedStart(s), EngineUp)
             /\ ~(e.op = "start" /\ e.session = s /\ ~ok /\ Some(msgs, EngineUp)) =>
                Precedes(msgs', FailedStart(s), EngineUp)
    /\ Some(msgs', EngineUp) <=> Some(msgs, EngineUp)
    /\ Precedes(msgs, EngineUp, EngineUp) => Precedes(msgs', EngineUp, EngineUp)

\* An answer, behind the locations if there are some.
LEMMA ToldAnswer ==
  ASSUME AnySeq(msgs), NEW e, e.op \in {"restart"} \cup Asks, NEW ok \in BOOLEAN,
         NEW loc \in {<< >>, <<[type |-> "locations"]>>},
         msgs' = (msgs \o loc) \o Answer(e, ok)
  PROVE  Told(e, ok)
  <1> DEFINE r == msgs \o loc
             m == AnswerTo(e, ok)
             t == r \o Answer(e, ok)
  <1>1. AnySeq(r) /\ (e.op = "restart" => t = r) /\ (e.op # "restart" => t = Append(r, m))
    <2>1. loc = << >> \/ loc = <<[type |-> "locations"]>>
      OBVIOUS
    <2>2. AnySeq(r)
      BY <2>1, AnswerRow
    <2>3. Answer(e, ok) = IF e.op = "restart" THEN << >> ELSE <<m>>
      BY AnswerIs
    <2> HIDE DEF r, m
    <2>4. r \o << >> = r /\ r \o <<m>> = Append(r, m)
      BY <2>2 DEF AnySeq
    <2> QED BY <2>2, <2>3, <2>4
  <1>2. CalmMsgs(msgs, r)
    <2>1. AnySeq(<<[type |-> "locations"]>>)
          /\ In(<<[type |-> "locations"]>>) = {[type |-> "locations"]}
      BY ShortSome
    <2>2. AnySeq(<< >>) /\ In(<< >>) = {}
      BY ShortSome
    <2>3. AnySeq(loc) /\ \A x \in In(loc) : x.type \notin {"started", "stopped", "engineUp"}
      BY <2>1, <2>2
    <2> QED BY <2>3, MsgsCalm
  <1>3. m.type = AnswerType(e.op) /\ m.session = e.session /\ m.ok = ok
    BY DEF AnswerTo
  <1>4. msgs' = t
    OBVIOUS
  <1> HIDE DEF r, m, t
  <1>5. CASE e.op = "restart"
    BY <1>1, <1>2, <1>4, <1>5 DEF Told, CalmMsgs
  <1>6. CASE e.op # "restart"
    <2>1. msgs' = Append(r, m)
      BY <1>1, <1>4, <1>6
    <2>2. /\ \A c : Some(msgs', c) <=> Some(r, c) \/ Of(c, m)
          /\ \A a, b : Precedes(r, a, b) /\ (Of(a, m) => ~Some(r, b)) => Precedes(msgs', a, b)
      BY <1>1, <2>1, AppendSome
    <2>3. /\ \A s : Of(Msg("stopped", s), m) <=> e.op = "stop" /\ e.session = s
          /\ \A s : Of(FailedStart(s), m) <=> e.op = "start" /\ e.session = s /\ ~ok
          /\ ~Of(EngineUp, m)
      BY <1>3, <1>6, OfIs, FailedIs DEF AnswerType, Asks
    <2> QED BY <1>2, <2>2, <2>3 DEF Told, CalmMsgs
  <1> QED BY <1>5, <1>6

\* The modem carries out a call, or does not.
LEMMA SettlesAnswer ==
  ASSUME AgreeInv, MaxFaults <= 1, "stop" \notin Refusable, Accept \/ Refuse
  PROVE  SettlesInv'
  <1> DEFINE e == Head(engq)
  <1>0. /\ AnySeq(msgs) /\ AnySeq(engq) /\ OneFault /\ Opening /\ TypeInv
        /\ \A s \in Nat : Settles(s) /\ Session1(s)
        /\ \A d \in In(engq) : CallOK(d, used.sessions, Len(taken))
        /\ used.sessions \in Nat /\ up \in BOOLEAN
    BY AgreeFacts DEF TypeInv, AdapterOK
  <1>1. PICK ok \in BOOLEAN, loc \in {<< >>, <<[type |-> "locations"]>>} :
          /\ engq # << >> /\ e.op # "open" /\ engq' = Tail(engq)
          /\ msgs' = (msgs \o loc) \o Answer(e, ok)
          /\ UNCHANGED <<capsKnown, sessions, up>>
          /\ ok =>
                /\ up /\ used' = used
                /\ modem' = CASE e.op \in {"start", "restart"} ->
                                     Extend(modem, e.session, e.mode)
                              [] e.op = "stop" -> Without(modem, e.session)
                              [] e.op = "get" -> modem
          /\ ~ok => /\ modem' = modem
                    /\ up => /\ e.op \in Refusable /\ used.faults < MaxFaults
                             /\ used'.faults = used.faults + 1
                    /\ ~up => used' = used
    <2>1. CASE Accept
      BY <2>1 DEF Accept, adapter
    <2>2. CASE Refuse
      <3>1. msgs \o << >> = msgs
        BY <1>0 DEF AnySeq
      <3>2. up => used'.faults = used.faults + 1
        BY <1>0, <2>2 DEF Refuse, TypeInv, FrontOK
      <3>3. /\ engq # << >> /\ e.op # "open" /\ engq' = Tail(engq)
            /\ msgs' = (msgs \o << >>) \o Answer(e, FALSE)
            /\ UNCHANGED <<capsKnown, sessions, up>>
            /\ modem' = modem
            /\ up => e.op \in Refusable /\ used.faults < MaxFaults
            /\ ~up => used' = used
        BY <2>2, <3>1 DEF Refuse, adapter
      <3> QED BY <3>2, <3>3
    <2> QED BY <2>1, <2>2
  <1>2. /\ In(engq) = In(engq') \cup {e}
        /\ \A c : Some(engq, c) <=> Some(engq', c) \/ Of(c, e)
        /\ \A x, y : Precedes(engq, x, y) => Precedes(engq', x, y)
        /\ \A x, y : Precedes(engq, x, y) /\ Of(y, e) => ~Some(engq', x)
    BY <1>0, <1>1, TailSome
  <1>3. /\ e.op \in {"restart"} \cup Asks /\ e.session \in Nat
        /\ e.op # "open" /\ e \in In(engq)
    BY <1>0, <1>1, <1>2 DEF CallOK
  <1>4. Told(e, ok)
    BY <1>0, <1>1, <1>3, ToldAnswer
  <1>5. capsKnown /\ (~up => DOMAIN modem = {})
    BY <1>0, <1>3 DEF Opening
  <1>6. e.op = "restart" => up /\ used.faults = 1
    BY <1>0, <1>3 DEF OneFault
  <1> HIDE DEF e
  <1>7. \A t, s : Of(CallOf(t, s), e) <=> e.op = t /\ e.session = s
    BY OfIs
  <1>8. ok => /\ e.op \in {"start", "restart"} =>
                    /\ DOMAIN modem' = DOMAIN modem \cup {e.session}
                    /\ modem'[e.session] = e.mode
                    /\ \A s \in DOMAIN modem : s # e.session => modem'[s] = modem[s]
              /\ e.op = "stop" =>
                    /\ DOMAIN modem' = DOMAIN modem \ {e.session}
                    /\ \A s \in DOMAIN modem' : modem'[s] = modem[s]
              /\ e.op = "get" => modem' = modem
    <2>1. ok /\ e.op \in {"start", "restart"} => modem' = Extend(modem, e.session, e.mode)
      BY <1>1
    <2>2. ok /\ e.op = "stop" => modem' = Without(modem, e.session)
      BY <1>1
    <2>3. ok /\ e.op = "get" => modem' = modem
      BY <1>1
    <2> QED BY <2>1, <2>2, <2>3 DEF Extend, Without, Restrict
  <1>9. ~ok => /\ modem' = modem /\ e.op # "restart"
               /\ up => used.faults = 0 /\ used'.faults = 1 /\ e.op \in {"start", "get"}
               /\ ~up => used' = used
    BY <1>0, <1>1, <1>3, <1>6, BatchingAssumption DEF OneFault, Asks
  <1>10. ok => up /\ used' = used
    BY <1>1
  <1>11. used'.faults = 0 => used.faults = 0
    BY <1>9, <1>10
  <1>12. /\ \A s \in Nat : Coming(s) <=>
                Coming(s)' \/ (e.op \in {"start", "restart"} /\ e.session = s)
         /\ \A s \in Nat : Ending(s) <=> Ending(s)' \/ (e.op = "stop" /\ e.session = s)
    BY <1>2, <1>7 DEF Coming, Ending
  <1>13. ASSUME NEW s \in Nat PROVE Settles(s)'
    <2>1. Settles(s) /\ Session1(s)
      BY <1>0
    <2>2. EndsLast(s)'
      BY <1>1, <1>2, <1>12, <2>1 DEF Settles, EndsLast
    <2>3. Precedes(engq', CallOf("start", s), CallOf("start", s))
      BY <1>2, <2>1 DEF Settles, StartFirst
    <2>4. s \in DOMAIN sessions' =>
              \A d \in In(engq') : Of(CallOf("restart", s), d) => d.mode = sessions'[s].mode
      BY <1>1, <1>2, <2>1 DEF Settles, Followers
    <2>5. Recovering' <=> Recovering
      BY <1>1, <1>4 DEF Recovering, Told
    <2>6. CASE e.session # s \/ e.op = "get"
      <3>1. /\ (s \in DOMAIN modem' <=> s \in DOMAIN modem)
            /\ s \in DOMAIN modem => modem'[s] = modem[s]
        BY <1>3, <1>8, <1>9, <2>6 DEF Asks
      <3>2. (Coming(s)' <=> Coming(s)) /\ (Ending(s)' <=> Ending(s))
        BY <1>12, <2>6
      <3>3. StopDone(s)'
        BY <1>1, <1>4, <2>1, <2>6, <3>1, <3>2 DEF Settles, StopDone, Told
      <3>4. StartFailed(s)'
        BY <1>1, <1>4, <2>1, <2>6, <3>1, <3>2 DEF Settles, StartFailed, Told
      <3>5. StartFirst(s)'
        BY <1>2, <1>11, <2>1, <2>3, <3>1 DEF Settles, StartFirst
      <3>6. Followers(s)'
        BY <1>1, <1>4, <2>1, <2>4, <2>5, <2>6, <3>1, <3>2 DEF Settles, Followers, Told
      <3> QED BY <2>2, <3>3, <3>4, <3>5, <3>6 DEF Settles
    <2>7. CASE e.session = s /\ e.op \in {"start", "restart"} /\ ok
      <3>1. Coming(s) /\ s \in DOMAIN modem' /\ modem'[s] = e.mode
            /\ (Ending(s)' <=> Ending(s))
        BY <1>8, <1>12, <2>7
      <3>2. ~Some(msgs, Msg("stopped", s)) /\ ~Some(msgs, FailedStart(s))
        BY <2>1, <3>1 DEF Settles, StopDone, StartFailed
      <3>3. ~Some(msgs', Msg("stopped", s)) /\ ~Some(msgs', FailedStart(s))
        BY <1>4, <2>7, <3>2 DEF Told
      <3>4. StopDone(s)'
        BY <3>3 DEF StopDone, Precedes, Some
      <3>5. StartFailed(s)'
        BY <3>3 DEF StartFailed, Precedes, Some
      <3>6. StartFirst(s)'
        <4>1. e.op = "start" => ~Some(engq', CallOf("start", s))
          BY <1>2, <1>7, <2>1, <2>7 DEF Settles, StartFirst
        <4>2. e.op = "restart" => used'.faults = 1
          BY <1>6, <1>10, <2>7
        <4> QED BY <2>3, <2>7, <4>1, <4>2 DEF StartFirst
      <3>7. s \in DOMAIN sessions => e.mode = sessions[s].mode
        <4>1. e.op = "start" /\ s \in DOMAIN sessions => e.mode = sessions[s].mode
          BY <1>3, <1>7, <2>1, <2>7 DEF Session1, Kept
        <4>2. e.op = "restart" /\ s \in DOMAIN sessions => e.mode = sessions[s].mode
          BY <1>3, <1>7, <2>1, <2>7 DEF Settles, Followers
        <4> QED BY <2>7, <4>1, <4>2
      <3>8. Followers(s)'
        BY <1>1, <2>1, <2>4, <3>1, <3>7 DEF Settles, Followers
      <3> QED BY <2>2, <3>4, <3>5, <3>6, <3>8 DEF Settles
    <2>8. CASE e.session = s /\ e.op \in {"start", "restart"} /\ ~ok
      <3>1. e.op = "start" /\ Coming(s) /\ modem' = modem
        BY <1>9, <1>12, <2>8
      <3>2. ~Some(msgs, EngineUp)
        BY <1>0, <1>5, <1>9, <2>8 DEF OneFault
      <3>3. s \notin DOMAIN modem
        <4>1. Some(engq, CallOf("start", s))
          BY <1>2, <1>7, <2>8, <3>1
        <4> QED BY <1>5, <1>9, <2>1, <2>8, <4>1 DEF Settles, StartFirst
      <3>4. ~Coming(s)'
        <4>1. ~Some(engq', CallOf("start", s))
          BY <1>2, <1>7, <2>1, <2>8, <3>1 DEF Settles, StartFirst
        <4>2. ~Some(engq', CallOf("restart", s))
          <5>1. \A d \in In(engq') : d.op # "restart"
            BY <1>0, <1>2, <1>9, <2>8 DEF OneFault
          <5> QED BY <5>1, OfIs, InSome
        <4> QED BY <4>1, <4>2 DEF Coming
      <3>5. StopDone(s)'
        BY <1>1, <1>4, <1>12, <2>1, <3>1, <3>4 DEF Settles, StopDone, Told
      <3>6. StartFailed(s)'
        BY <1>4, <2>1, <3>1, <3>2, <3>3, <3>4 DEF Settles, StartFailed, Told
      <3>7. StartFirst(s)'
        BY <2>3, <3>1, <3>3 DEF StartFirst
      <3>8. Followers(s)'
        <4>1. Some(msgs', FailedStart(s))
          BY <1>4, <2>8, <3>1 DEF Told
        <4> QED BY <2>4, <3>1, <3>3, <3>4, <4>1 DEF Followers
      <3> QED BY <2>2, <3>5, <3>6, <3>7, <3>8 DEF Settles
    <2>9. CASE e.session = s /\ e.op = "stop"
      <3>1. Ending(s) /\ s \notin DOMAIN sessions
        BY <1>12, <2>1, <2>9 DEF Settles, EndsLast
      <3>2. s \notin DOMAIN modem'
        BY <1>5, <1>8, <1>9, <2>9
      <3>3. ~Coming(s)' /\ ~Ending(s)'
        <4>1. /\ Precedes(engq, CallOf("start", s), CallOf("stop", s))
              /\ Precedes(engq, CallOf("restart", s), CallOf("stop", s))
              /\ Precedes(engq, CallOf("stop", s), CallOf("stop", s))
          BY <2>1 DEF Settles, EndsLast, Session1, Ordered
        <4> QED BY <1>2, <1>7, <2>9, <4>1 DEF Coming, Ending
      <3>4. ~Some(msgs, Msg("stopped", s))
        BY <2>1, <3>1 DEF Settles, StopDone
      <3>5. StopDone(s)'
        BY <1>1, <1>4, <2>1, <3>1, <3>2, <3>3, <3>4 DEF Settles, StopDone, Told
      <3>6. StartFailed(s)'
        BY <1>4, <2>1, <2>9, <3>2, <3>3 DEF Settles, StartFailed, Told
      <3>7. StartFirst(s)'
        BY <2>3, <3>2 DEF StartFirst
      <3>8. Followers(s)'
        BY <1>1, <3>1, <3>2, <3>3 DEF Followers
      <3> QED BY <2>2, <3>5, <3>6, <3>7, <3>8 DEF Settles
    <2> QED BY <1>3, <2>6, <2>7, <2>8, <2>9 DEF Asks
  <1>14. OneFault'
    <2>1. CASE used' = used
      BY <1>0, <1>1, <1>2, <1>4, <2>1 DEF OneFault, Told
    <2>2. CASE used' # used
      <3>1. up /\ used.faults = 0 /\ used'.faults = 1
        BY <1>9, <1>10, <2>2
      <3>2. \A d \in In(engq') : d.op # "restart"
        BY <1>0, <1>2, <3>1 DEF OneFault
      <3> QED BY <1>1, <1>5, <3>1, <3>2 DEF OneFault
    <2> QED BY <2>1, <2>2
  <1>15. Opening'
    <2>1. ~up' => DOMAIN modem' = {}
      BY <1>1, <1>5, <1>9, <1>10
    <2>2. (up' => ~Some(engq', OpenCall)) /\ Precedes(engq', OpenCall, OpenCall)
      BY <1>0, <1>1, <1>2 DEF Opening
    <2> QED BY <1>1, <1>5, <2>1, <2>2 DEF Opening
  <1> QED BY <1>13, <1>14, <1>15 DEF SettlesInv

\* The framework's calls leave the owners as they are.
LEMMA OwnersFramework ==
  ASSUME AgreeInv, Framework PROVE Owners'
  <1> DEFINE F == front[api]
             N == used.sessions
             K == Len(taken)
  <1>0. /\ front \in [Clients -> Fronts(N, K)] /\ api \in Clients /\ Clients \subseteq Nat
        /\ F \in Fronts(N, K) /\ N \in Nat /\ DOMAIN sessions \subseteq 1..N
        /\ Owners
    BY AnswersFacts DEF AgreeInv
  <1>1. sessions' = sessions
    BY DEF Framework, Initialize, Start, Stop, Flush, adapter
  <1> HIDE DEF F, N, K
  <1>2. CASE Initialize
    <2>1. api' = api + 1
      BY <1>2 DEF Initialize
    <2>2. \A s \in DOMAIN sessions : sessions[s].client <= api' /\ sessions[s].client # api'
      <3> SUFFICES ASSUME NEW s \in DOMAIN sessions
                   PROVE  sessions[s].client <= api' /\ sessions[s].client # api'
        OBVIOUS
      <3>1. sessions[s].client \in Nat
        BY <1>0 DEF AgreeInv, AnswersInv, TypeInv, AdapterOK
      <3> QED BY <1>0, <2>1, <3>1 DEF Owners
    <2> QED BY <1>1, <2>2 DEF Owners
  <1>3. ASSUME NEW g, front' = [front EXCEPT ![api] = g], api' = api, g.session = F.session
        PROVE  Owners'
    <2>1. Here' = Here
      BY <1>0, <1>3 DEF Here, F
    <2> QED BY <1>0, <1>1, <1>3, <2>1 DEF Owners
  <1>4. ASSUME NEW mode, Start(mode), StartNew(mode) PROVE Owners'
    <2>1. Here = 0 /\ api' = api
      BY <1>4 DEF Start, StartNew, Here
    <2>2. \A s \in DOMAIN sessions : sessions[s].client # api
      BY <1>0, <2>1 DEF Owners
    <2> QED BY <1>0, <1>1, <2>1, <2>2 DEF Owners
  <1>5. ASSUME NEW mode, Start(mode), StartAgain PROVE Owners'
    <2> DEFINE g == [F EXCEPT !.state = "started"]
    <2>1. front' = [front EXCEPT ![api] = g] /\ api' = api
      BY <1>5 DEF Start, StartAgain, F
    <2>2. g.session = F.session
      BY <1>0 DEF Fronts
    <2> HIDE DEF g
    <2> QED BY <1>3, <2>1, <2>2
  <1>6. CASE Stop
    <2> DEFINE ops == IF F.session = 0 THEN << >> ELSE <<"get", "stop">>
    <2>1. PICK q : q = F.requests \o Requests(ops)
      OBVIOUS
    <2> DEFINE g == [F EXCEPT !.state = "stopping", !.requests = q]
    <2>2. front' = [front EXCEPT ![api] = g] /\ api' = api
      BY <1>6, <2>1 DEF Stop, F
    <2>3. g.session = F.session
      BY <1>0 DEF Fronts
    <2> HIDE DEF g, ops
    <2> QED BY <1>3, <2>2, <2>3
  <1>7. CASE Flush
    <2> DEFINE none == F.session = 0
               ops == IF none THEN << >> ELSE <<"get">>
    <2>1. PICK q : q = F.requests \o Requests(ops)
      OBVIOUS
    <2>2. PICK b : b = (F.thread \/ none)
      OBVIOUS
    <2> DEFINE g == [F EXCEPT !.requests = q, !.owed = TRUE, !.thread = b]
    <2>3. front' = [front EXCEPT ![api] = g] /\ api' = api
      BY <1>7, <2>1, <2>2 DEF Flush, F
    <2>4. g.session = F.session
      BY <1>0 DEF Fronts
    <2> HIDE DEF g, ops
    <2> QED BY <1>3, <2>3, <2>4
  <1> QED BY <1>2, <1>4, <1>5, <1>6, <1>7 DEF Framework, Start

\* An answer ends a session of the client in use in the adapter too.
LEMMA OwnersAnswered ==
  ASSUME AgreeInv, ProcStarted \/ ProcStopped \/ ProcGot PROVE Owners'
  <1> DEFINE a == Head(msgs)
  <1>0. /\ AnySeq(msgs) /\ Owned /\ Owners /\ Others /\ AnswersInv
        /\ api \in Clients /\ Clients \subseteq Nat /\ DOMAIN sessions \subseteq 1..used.sessions
        /\ used.sessions \in Nat
        /\ \A m \in In(msgs) : MsgOK(m, used.sessions, Len(taken))
        /\ \A s \in Nat : Settles(s)
    BY AnswersFacts DEF AgreeInv, AnswersInv, SettlesInv
  <1>1. PICK op \in Asks : /\ Receive(AnswerType(op))
                           /\ op = "start" => ProcStarted
                           /\ op = "stop" => ProcStopped
                           /\ op = "get" => ProcGot
    BY DEF ProcStarted, ProcStopped, ProcGot, AnswerType, Asks
  <1>2. a \in In(msgs) /\ a.type = AnswerType(op)
    BY <1>0, <1>1, ReceiveSome
  <1>3. a.session \in Nat /\ a.session # 0
    BY <1>0, <1>2 DEF MsgOK, AnswerType, Answers, Asks
  <1>4. Foreign(a, op) \/ Mine(a, op)
    BY <1>0, <1>2 DEF Owned
  <1>5. /\ op = "start" => sessions' = (IF a.ok THEN sessions ELSE Without(sessions, a.session))
        /\ op = "stop" => sessions' = (IF a.ok THEN sessions
                                       ELSE Extend(sessions, a.session, Restored(a)))
        /\ op = "get" => sessions' = sessions
        /\ Respond(a, a.ok) /\ api' = api
    BY <1>1 DEF ProcStarted, ProcStopped, ProcGot, adapter, Asks
  <1>6. op = "stop" => a.session \notin DOMAIN sessions
    <2>1. op = "stop" => Some(msgs, Msg("stopped", a.session))
      BY <1>2, OfIs, InSome DEF AnswerType
    <2> QED BY <1>0, <1>3, <2>1 DEF Settles, StopDone
  <1>7. Restored(a).client = a.client
    BY DEF Restored, Session
  <1>8. CASE Foreign(a, op)
    <2>1. op = "stop" /\ a.client < api /\ a.client \in Clients
      BY <1>0, <1>2, <1>8 DEF Foreign, MsgOK, AnswerType, Answers
    <2> HIDE DEF a
    <2>2. front[a.client].requests = << >>
      <3>1. a.client # api
        <4>1. PICK c : c = a.client
          OBVIOUS
        <4>2. c \in Nat /\ api \in Nat /\ c < api
          BY <1>0, <2>1, <4>1
        <4> QED BY <4>1, <4>2
      <3> QED BY <1>0, <2>1, <3>1 DEF Others
    <2>3. front' = front
      BY <1>5, <2>2 DEF Respond
    <2>4. Here' = Here
      BY <1>5, <2>3 DEF Here
    <2>5. \A s \in DOMAIN sessions' : \/ s \in DOMAIN sessions /\ sessions'[s] = sessions[s]
                                      \/ sessions'[s].client = a.client
      BY <1>5, <1>7, <2>1 DEF Extend
    <2>6. a.client <= api /\ a.client # api
      <3>1. PICK c : c = a.client
        OBVIOUS
      <3>2. c \in Nat /\ api \in Nat /\ c < api
        BY <1>0, <2>1, <3>1
      <3> QED BY <3>1, <3>2
    <2> QED BY <1>0, <1>5, <2>4, <2>5, <2>6 DEF Owners
  <1>9. CASE Mine(a, op)
    <2>1. /\ a.n \in Numbers /\ a.session = Here /\ a.client = api
          /\ Requested # << >> /\ Requested[1].n = a.n /\ Requested[1].op = op
          /\ api \in known
      BY <1>0, <1>1, <1>9, HeadAnswer
    <2> HIDE DEF a
    <2>2. Here' = IF (IF a.ok THEN op = "stop" ELSE op = "start") THEN 0 ELSE Here
      BY <1>0, <1>5, <2>1, RequestGone
    <2>3. ASSUME NEW s \in DOMAIN sessions'
          PROVE  \/ /\ s \in DOMAIN sessions /\ sessions'[s] = sessions[s]
                    /\ ~a.ok /\ op = "start" => s # a.session
                 \/ ~a.ok /\ op = "stop" /\ s = a.session /\ sessions'[s].client = api
      BY <1>5, <1>7, <2>1, <2>3 DEF Extend, Without, Restrict, Asks
    <2>4. ASSUME NEW s \in DOMAIN sessions'
          PROVE  sessions'[s].client <= api /\ (sessions'[s].client = api => s = Here')
      <3>1. CASE /\ s \in DOMAIN sessions /\ sessions'[s] = sessions[s]
                 /\ ~a.ok /\ op = "start" => s # a.session
        <4>1. sessions'[s].client <= api /\ (sessions'[s].client = api => s = Here)
          BY <1>0, <3>1 DEF Owners
        <4>2. s = Here => Here' = Here
          BY <1>6, <2>1, <2>2, <3>1
        <4> QED BY <4>1, <4>2
      <3>2. CASE ~a.ok /\ op = "stop" /\ s = a.session /\ sessions'[s].client = api
        <4>1. s = Here' /\ api <= api
          BY <1>0, <2>1, <2>2, <3>2
        <4> QED BY <3>2, <4>1
      <3> QED BY <2>3, <3>1, <3>2
    <2> QED BY <1>5, <2>4 DEF Owners
  <1> QED BY <1>4, <1>8, <1>9

\* Every other step.
LEMMA OwnersNext ==
  ASSUME AgreeInv, [Next]_vars PROVE Owners'
  <1>0. /\ AnySeq(msgs) /\ Owned /\ Owners /\ AnswersInv
        /\ api \in Clients /\ Clients \subseteq Nat
        /\ front \in [Clients -> Fronts(used.sessions, Len(taken))]
    BY AnswersFacts DEF AgreeInv, AnswersInv
  <1>1. ASSUME UNCHANGED api, Here' = Here, DOMAIN sessions' \subseteq DOMAIN sessions,
               \A s \in DOMAIN sessions' : sessions'[s] = sessions[s]
        PROVE  Owners'
    BY <1>0, <1>1 DEF Owners
  <1>2. UNCHANGED <<api, front, sessions>> => Owners'
    <2>1. UNCHANGED <<api, front>> => Here' = Here
      BY DEF Here
    <2> QED BY <1>1, <2>1
  <1>3. CASE UNCHANGED vars
    BY <1>2, <1>3 DEF vars, adapter
  <1>4. CASE \E c \in Clients : EmptyReport(c)
    <2>1. PICK c \in Clients : EmptyReport(c)
      BY <1>4
    <2>2. PICK l, k : \E f \in Fronts(l, k) : f = front[c]
      BY <1>0
    <2>3. PICK f \in Fronts(l, k) : f = front[c]
      BY <2>2
    <2>4. PICK h \in Fronts(l, k) : h = [f EXCEPT !.thread = FALSE] /\ h.session = f.session
      <3>1. [f EXCEPT !.thread = FALSE] \in Fronts(l, k)
        BY FrontSet
      <3>2. [f EXCEPT !.thread = FALSE].session = f.session
        BY FrontSet
      <3> QED BY <3>1, <3>2
    <2> DEFINE g == OnBatchingCb(h)
    <2>5. g.session = f.session
      <3>1. g.session = h.session
        BY ReportKind
      <3> HIDE DEF g
      <3> QED BY <2>4, <3>1
    <2>6. front' = [front EXCEPT ![c] = g] /\ UNCHANGED <<api, sessions>>
      BY <2>1, <2>3, <2>4 DEF EmptyReport, adapter
    <2> HIDE DEF g
    <2>7. front'[api].session = front[api].session
      BY <1>0, <2>3, <2>5, <2>6
    <2>8. Here' = Here
      BY <2>6, <2>7 DEF Here
    <2> QED BY <1>1, <2>6, <2>8
  <1>5. CASE ProcLocations
    <2>1. /\ front' = [c \in Clients |-> IF c \in known THEN OnBatchingCb(front[c])
                                         ELSE front[c]]
          /\ UNCHANGED <<api, sessions>>
      BY <1>5 DEF ProcLocations, adapter
    <2>2. front[api] \in Fronts(used.sessions, Len(taken))
      BY <1>0
    <2>3. OnBatchingCb(front[api]).session = front[api].session
      BY <2>2, ReportKind
    <2>4. front'[api].session = front[api].session
      BY <1>0, <2>1, <2>3
    <2>5. Here' = Here
      BY <2>1, <2>4 DEF Here
    <2> QED BY <1>1, <2>1, <2>5
  <1>6. CASE ProcRemoveClient
    <2>1. UNCHANGED <<api, front>> /\ \E S : sessions' = Restrict(sessions, DOMAIN sessions \ S)
      BY <1>6 DEF ProcRemoveClient
    <2>2. Here' = Here
      BY <2>1 DEF Here
    <2> QED BY <1>1, <2>1, <2>2 DEF Restrict
  <1>7. CASE ProcStop
    <2>1. UNCHANGED <<api, front>> /\ \E S : sessions' = Restrict(sessions, DOMAIN sessions \ S)
      <3>1. sessions' = sessions => sessions' = Restrict(sessions, DOMAIN sessions \ {})
        BY DEF AgreeInv, AnswersInv, TypeInv, AdapterOK, Restrict
      <3> QED BY <1>7, <3>1 DEF ProcStop, Without
    <2>2. Here' = Here
      BY <2>1 DEF Here
    <2> QED BY <1>1, <2>1, <2>2 DEF Restrict
  <1>8. CASE ProcStart
    <2> DEFINE a == Head(msgs)
    <2>1. /\ Receive("start") /\ UNCHANGED <<api, front>>
          /\ sessions' \in {sessions, Extend(sessions, a.session, Session(a.client, a.mode))}
      BY <1>8 DEF ProcStart
    <2>2. a \in In(msgs) /\ a.type = "start"
      BY <1>0, <2>1, ReceiveSome
    <2>3. a.client = api /\ a.session = Here
      BY <1>0, <2>2 DEF Owned, Mine, Asks
    <2> HIDE DEF a
    <2>4. Here' = Here
      BY <2>1 DEF Here
    <2>5. \A s \in DOMAIN sessions' : \/ s \in DOMAIN sessions /\ sessions'[s] = sessions[s]
                                      \/ s = Here /\ sessions'[s].client = api
      BY <2>1, <2>3 DEF Extend, Session
    <2> QED BY <1>0, <2>1, <2>4, <2>5 DEF Owners
  <1>9. CASE ProcGet
    <2>1. capsKnown /\ Receive("get")
      BY <1>9 DEF ProcGet
    <2>2. Head(msgs).client \in known /\ Head(msgs).session \in DOMAIN sessions
      BY <1>0, <2>1, SessionThere
    <2>3. UNCHANGED <<api, front, sessions>>
      BY <1>9, <2>2 DEF ProcGet, adapter
    <2> QED BY <1>2, <2>3
  <1>10. CASE ProcAddClient \/ ProcEngineUp \/ \E type \in {"start", "stop", "get"} : Hold(type)
    BY <1>2, <1>10 DEF ProcAddClient, ProcEngineUp, Hold
  <1>11. CASE LocApi \/ Crash \/ BatchFull
    BY <1>2, <1>11 DEF LocApi, Accept, Refuse, Open, Crash, BatchFull, adapter
  <1> QED BY <1>3, <1>4, <1>5, <1>6, <1>7, <1>8, <1>9, <1>10, <1>11, OwnersFramework,
             OwnersAnswered DEF Next, Proc

\* The agreement: the initial state.
LEMMA AgreeInit == Init => AgreeInv
  <1> SUFFICES ASSUME Init PROVE AgreeInv
    OBVIOUS
  <1> DEFINE x == [type |-> "addClient", client |-> 1]
             o == [op |-> "open"]
  <1>1. /\ msgs = <<x>> /\ engq = <<o>> /\ capsKnown = FALSE /\ up = FALSE
        /\ DOMAIN sessions = {} /\ DOMAIN modem = {} /\ used.faults = 0
    BY DEF Init
  <1>2. x.type = "addClient" /\ o.op = "open"
    OBVIOUS
  <1> HIDE DEF x, o
  <1>3. /\ In(msgs) = {x} /\ \A c : Some(msgs, c) <=> Of(c, x)
        /\ \A a, b : Precedes(msgs, a, b)
        /\ In(engq) = {o} /\ \A c : Some(engq, c) <=> Of(c, o)
        /\ \A a, b : Precedes(engq, a, b)
    BY <1>1, ShortSome
  <1>4. ASSUME NEW s \in Nat PROVE Settles(s)
    <2>1. /\ ~Coming(s) /\ ~Ending(s)
          /\ ~Some(msgs, Msg("stopped", s)) /\ ~Some(msgs, FailedStart(s))
      BY <1>2, <1>3, OfIs, FailedIs DEF Coming, Ending
    <2> QED BY <1>1, <1>3, <2>1 DEF Settles, EndsLast, StopDone, StartFailed, StartFirst, Followers
  <1>5. OneFault
    BY <1>1, <1>2, <1>3, OfIs DEF OneFault
  <1>6. Opening
    BY <1>1, <1>2, <1>3 DEF Opening
  <1>7. Owners
    BY <1>1 DEF Owners
  <1> QED BY <1>4, <1>5, <1>6, <1>7, FullInit, AnswersInit DEF AgreeInv, SettlesInv

\* The agreement: every step.
LEMMA AgreeNext ==
  ASSUME Patient, Supported, MaxFaults <= 1, "stop" \notin Refusable
  PROVE  AgreeInv /\ [Next]_vars => AgreeInv'
  <1> SUFFICES ASSUME AgreeInv, [Next]_vars PROVE AgreeInv'
    OBVIOUS
  <1>1. FullInv' /\ AnswersInv' /\ Owners'
    BY FullNext, AnswersNext, OwnersNext DEF AgreeInv
  <1>2. SettlesInv'
    <2>1. CASE UNCHANGED vars
      <3>1. CalmMsgs(msgs, msgs') /\ CalmCalls(engq, engq')
        BY <2>1, AgreeFacts, MsgsCalm, CallsCalm DEF vars
      <3> QED BY <2>1, <3>1, CalmStep DEF vars, adapter, AgreeInv, SettlesInv, Opening
    <2>2. CASE Proc
      BY <2>2, SettlesCalm, SettlesStarted, SettlesStart, SettlesStop, SettlesStopped,
         SettlesEngineUp DEF Proc
    <2>3. CASE Framework \/ (\E c \in Clients : EmptyReport(c)) \/ BatchFull
      BY <2>3, SettlesCalm
    <2>4. CASE LocApi \/ Crash
      BY <2>4, SettlesAnswer, SettlesModem DEF LocApi
    <2> QED BY <2>1, <2>2, <2>3, <2>4 DEF Next
  <1> QED BY <1>1, <1>2 DEF AgreeInv

\* If the modem batches, a client's requests are answered before its next call, one thing
\* at most goes wrong (the modem refuses a start or a fetch, or restarts) and no stop is
\* refused, then when everything has settled the client in use has a session exactly if
\* the adapter has one of it, and the modem batches for the adapter's sessions and no
\* others, in their modes. With a second fault, or a stop refused, it need not be so.
THEOREM SessionsAlwaysAgree ==
  ASSUME Patient, Supported, MaxFaults <= 1, "stop" \notin Refusable
  PROVE  Spec => []SessionsAgree
  <1>1. AgreeInv => SessionsAgree
    <2> SUFFICES ASSUME AgreeInv, Idle
                 PROVE  /\ {s \in DOMAIN sessions : sessions[s].client = api} = {Here} \ {0}
                        /\ DOMAIN modem = DOMAIN sessions
                        /\ \A s \in DOMAIN sessions : sessions[s].mode = modem[s]
      BY DEF SessionsAgree, Here
    <2>1. \A c : ~Some(msgs, c) /\ ~Some(engq, c)
      BY ShortSome DEF Idle
    <2>2. up /\ capsKnown
      BY <2>1, AgreeFacts DEF BitFollows, AgreeInv, AnswersInv, Caps
    <2>3. \A s \in Nat : ~Coming(s) /\ ~Ending(s) /\ ~Some(msgs, FailedStart(s)) /\ ~Recovering
      BY <2>1, <2>2 DEF Coming, Ending, Recovering
    <2>4. /\ DOMAIN sessions \subseteq Nat \ {0} /\ DOMAIN modem \subseteq Nat
          /\ \A s \in Nat : Settles(s)
      BY AgreeFacts DEF TypeInv, AdapterOK
    <2>5. \A s \in Nat : /\ s \in DOMAIN modem <=> s \in DOMAIN sessions
                         /\ s \in DOMAIN sessions => sessions[s].mode = modem[s]
      BY <2>3, <2>4 DEF Settles, Followers
    <2>6. ~Gone
      <3>1. Numbers = {}
        BY <2>1, <2>2, ShortSome
           DEF AgreeInv, AnswersInv, Caps, Spots, Spot, InMsgs, Held, Called, Answered
      <3> QED BY <3>1 DEF Gone
    <2>7. /\ Here \in DOMAIN sessions => sessions[Here].client = api
          /\ Here # 0 => Here \in DOMAIN sessions
          /\ \A s \in DOMAIN sessions : sessions[s].client = api => s = Here
      BY <2>6 DEF AgreeInv, AnswersInv, There, Owners
    <2> QED BY <2>4, <2>5, <2>7
  <1> QED BY <1>1, AgreeInit, AgreeNext, PTL DEF Spec
=============================================================================
