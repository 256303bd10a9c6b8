-------------------------- MODULE Networks_proofs ---------------------------
(***************************************************************************)
(* Proofs about the two components that follow the framework's networks.   *)
(*                                                                         *)
(* NetworkInfo.  The XTRA daemon knows the table as it is (DInv), and the  *)
(* table is that of the framework's networks (TInv): both are said of the  *)
(* last message of a kind that waits in the queue, which stays the last    *)
(* while others are taken from the front.                                  *)
(*                                                                         *)
(* Agps.  Type correctness, that a state machine's state and its           *)
(* subscriber list always agree, that a handle the modem uses as open is   *)
(* served, for any set of handles and any behaviour of the framework that  *)
(* the constants allow, and that ACQUIRED means connected where answers    *)
(* come in order.                                                          *)
(***************************************************************************)
EXTENDS Agps, NetworkInfo, SequenceTheorems, FiniteSetTheorems, TLAPS

(***************************************************************************)
(* NetworkInfo                                                             *)
(***************************************************************************)

Notices ==
         [type : {"network"}, network : Networks, connected : BOOLEAN]
    \cup [type : {"xtra"}, status : Statuses]
    \cup [type : {"request"}, updated : BOOLEAN]

Items ==
    [network : Networks, connected : BOOLEAN,
     types : SUBSET (Range(TypeOf) \union {"unknown"}), table : Seq(Networks)]

\* The types of what the queue joins.
QueueTypes ==
    /\ queue \in Seq(Notices) /\ history \in Seq(Items)
    /\ reset \in Nat
    /\ xtra \in Statuses /\ daemon \in [up : BOOLEAN, knows : Statuses]

-----------------------------------------------------------------------------
(* The last message of a kind.                                             *)

\* Message i of q is one of S.
In(q, S, i) == i \in 1..Len(q) /\ q[i] \in S

Holds(q, S) == \E i \in Nat : In(q, S, i)

\* If q holds any message of S, the last of them is m.
Latest(q, S, m) ==
    Holds(q, S) => \E i \in Nat : /\ In(q, S, i) /\ q[i] = m
                                  /\ \A j \in Nat : In(q, S, j) => j <= i

Xtras == {m \in Notices : m.type = "xtra"}
Requests == {m \in Notices : m.type = "request" /\ ~m.updated}
Reports == {m \in Notices : m.type = "network"}
About(n) == {m \in Reports : m.network = n}

\* What the observer's observers are to know.
Known == IF history = << >> THEN Unknown ELSE Current

\* The last status sent is the table as it is, and a daemon that runs has its request in the
\* queue or what the XTRA observer knows.
DInv ==
    /\ Latest(queue, Xtras, [type |-> "xtra", status |-> Known])
    /\ ~Holds(queue, Xtras) => xtra = Known
    /\ daemon.up => Holds(queue, Requests) \/ (asked /\ daemon.knows = xtra)

-----------------------------------------------------------------------------
(* The table.                                                              *)

Expected == online \union orphans

\* The last report of a network says whether it is there, or else the table does.
Followed(n) ==
    /\ Latest(queue, About(n), Report(n, n \in Expected))
    /\ ~Holds(queue, About(n)) => (n \in Expected <=> n \in Range(Current.table))

\* The first report of all is that of a network that comes.
IsFirst(q, i) == In(q, Reports, i) /\ \A j \in Nat : In(q, Reports, j) => i <= j
FirstConnects == history = << >> => \A i \in Nat : IsFirst(queue, i) => queue[i].connected

TInv ==
    /\ \A n \in Networks : Followed(n)
    /\ FirstConnects
    /\ IsInjective(Current.table)
    /\ {online, orphans} \subseteq SUBSET Networks
    /\ reset > 0 => online = {}

\* The types are those of the table, whatever is under way.
TypesInv ==
    /\ Current.types = {TypeOf[n] : n \in Range(Current.table)}
    /\ agps = (Mobile \in Current.types)
-----------------------------------------------------------------------------
(* Lemmas about the queue.                                                 *)

\* A message posted comes behind the others.
LEMMA PostedIn ==
    ASSUME NEW q \in Seq(Notices), NEW m \in Notices, NEW S, NEW i \in Nat
    PROVE  /\ In(Append(q, m), S, i) <=> In(q, S, i) \/ (i = Len(q) + 1 /\ m \in S)
           /\ In(q, S, i) => Append(q, m)[i] = q[i] /\ i < Len(q) + 1
           /\ Append(q, m)[Len(q) + 1] = m /\ Len(q) + 1 \in Nat
  <1>1. /\ Len(q) \in Nat /\ Len(Append(q, m)) = Len(q) + 1
        /\ \A j \in 1..Len(q) : Append(q, m)[j] = q[j]
        /\ Append(q, m)[Len(q) + 1] = m
    OBVIOUS
  <1>2. CASE i \in 1..Len(q)
    <2>1. i \in 1..Len(Append(q, m)) /\ i # Len(q) + 1 /\ i < Len(q) + 1
      BY <1>1, <1>2
    <2> QED BY <1>1, <1>2, <2>1 DEF In
  <1>3. CASE i = Len(q) + 1
    <2>1. i \in 1..Len(Append(q, m)) /\ i \notin 1..Len(q)
      BY <1>1, <1>3
    <2> QED BY <1>1, <1>3, <2>1 DEF In
  <1>4. CASE i \notin 1..Len(q) /\ i # Len(q) + 1
    <2>1. i \notin 1..Len(Append(q, m))
      BY <1>1, <1>4
    <2> QED BY <1>1, <1>4, <2>1 DEF In
  <1> QED BY <1>2, <1>3, <1>4

\* A message stays at its place when another is posted.
LEMMA PostedStays ==
    ASSUME NEW q \in Seq(Notices), NEW m \in Notices, NEW S, NEW i \in Nat, In(q, S, i)
    PROVE  Append(q, m)[i] = q[i]
  BY DEF In

\* One of the kind becomes the last of its kind, another one changes nothing.
LEMMA Posted ==
    ASSUME NEW q \in Seq(Notices), NEW m \in Notices, NEW S
    PROVE  /\ Append(q, m) \in Seq(Notices)
           /\ m \in S => Holds(Append(q, m), S) /\ Latest(Append(q, m), S, m)
           /\ Holds(q, S) => Holds(Append(q, m), S)
           /\ m \notin S => /\ Holds(Append(q, m), S) => Holds(q, S)
                            /\ \A x : Latest(q, S, x) => Latest(Append(q, m), S, x)
  <1>1. \A i \in Nat : In(q, S, i) => In(Append(q, m), S, i)
    BY PostedIn
  <1>2. ASSUME m \in S PROVE Holds(Append(q, m), S) /\ Latest(Append(q, m), S, m)
    <2>1. /\ Len(q) + 1 \in Nat /\ In(Append(q, m), S, Len(q) + 1)
          /\ Append(q, m)[Len(q) + 1] = m
      BY <1>2, PostedIn
    <2>2. \A j \in Nat : In(Append(q, m), S, j) => j <= Len(q) + 1
      <3>1. \A j \in Nat : In(Append(q, m), S, j) => j \in 1..Len(Append(q, m))
        BY DEF In
      <3> QED BY <3>1
    <2> QED BY <2>1, <2>2 DEF Holds, Latest
  <1>3. ASSUME m \notin S PROVE Holds(Append(q, m), S) => Holds(q, S)
    BY <1>3, PostedIn DEF Holds
  <1>4. ASSUME m \notin S, NEW x, Latest(q, S, x) PROVE Latest(Append(q, m), S, x)
    <2>1. \A i \in Nat : In(Append(q, m), S, i) <=> In(q, S, i)
      BY <1>4, PostedIn
    <2>2. ASSUME NEW i \in Nat, In(q, S, i) PROVE Append(q, m)[i] = q[i]
      BY <2>2, PostedStays
    <2> QED BY <1>4, <2>1, <2>2 DEF Latest, Holds
  <1> QED BY <1>1, <1>2, <1>3, <1>4 DEF Holds

\* A message taken moves the others one place to the front.
LEMMA TakenIn ==
    ASSUME NEW q \in Seq(Notices), q # << >>, NEW S, NEW i \in Nat
    PROVE  /\ In(Tail(q), S, i) <=> i > 0 /\ In(q, S, i + 1)
           /\ In(Tail(q), S, i) => Tail(q)[i] = q[i + 1]
  <1>1. /\ Len(q) \in Nat \ {0} /\ Len(Tail(q)) = Len(q) - 1
        /\ \A j \in 1..Len(q) - 1 : Tail(q)[j] = q[j + 1]
    OBVIOUS
  <1>2. CASE i \in 1..Len(q) - 1
    <2>1. i \in 1..Len(Tail(q)) /\ i > 0 /\ i + 1 \in 1..Len(q) /\ Tail(q)[i] = q[i + 1]
      BY <1>1, <1>2
    <2> QED BY <2>1, Zenon DEF In
  <1>3. CASE i \notin 1..Len(q) - 1
    <2>1. i \notin 1..Len(Tail(q)) /\ ~(i > 0 /\ i + 1 \in 1..Len(q))
      BY <1>1, <1>3
    <2> QED BY <2>1, Zenon DEF In
  <1> QED BY <1>2, <1>3

\* The last of a kind stays the last until it is taken.
LEMMA TakenLatest ==
    ASSUME NEW q \in Seq(Notices), q # << >>, NEW S
    PROVE  /\ Tail(q) \in Seq(Notices) /\ Head(q) \in Notices
           /\ Holds(Tail(q), S) => Holds(q, S)
           /\ Head(q) \notin S => (Holds(q, S) => Holds(Tail(q), S))
           /\ \A x : Latest(q, S, x) =>
                /\ Latest(Tail(q), S, x)
                /\ Head(q) \in S /\ ~Holds(Tail(q), S) => Head(q) = x
  <1>1. Tail(q) \in Seq(Notices) /\ Head(q) \in Notices /\ Head(q) = q[1] /\ 1 \in 1..Len(q)
    OBVIOUS
  <1>2. \A i \in Nat : i > 0 /\ In(q, S, i + 1) => In(Tail(q), S, i)
    BY TakenIn
  <1>3. \A i \in Nat : In(q, S, i) => i = 1 \/ (i - 1 \in Nat /\ In(Tail(q), S, i - 1))
    <2> SUFFICES ASSUME NEW i \in Nat, In(q, S, i), i # 1
                 PROVE  i - 1 \in Nat /\ In(Tail(q), S, i - 1)
      OBVIOUS
    <2>1. i - 1 \in Nat /\ i - 1 > 0 /\ i - 1 + 1 = i
      BY DEF In
    <2> QED BY <1>2, <2>1
  <1>4. \A i \in Nat : In(Tail(q), S, i) =>
           i > 0 /\ i + 1 \in Nat /\ In(q, S, i + 1) /\ Tail(q)[i] = q[i + 1]
    <2> SUFFICES ASSUME NEW i \in Nat, In(Tail(q), S, i)
                 PROVE  i > 0 /\ i + 1 \in Nat /\ In(q, S, i + 1) /\ Tail(q)[i] = q[i + 1]
      OBVIOUS
    <2>1. i > 0 /\ In(q, S, i + 1) /\ Tail(q)[i] = q[i + 1]
      BY TakenIn, Zenon
    <2>2. i + 1 \in Nat
      OBVIOUS
    <2> QED BY <2>1, <2>2, Zenon
  <1>5. Holds(Tail(q), S) => Holds(q, S)
    BY <1>4 DEF Holds
  <1>6. Head(q) \notin S => (Holds(q, S) => Holds(Tail(q), S))
    BY <1>1, <1>3 DEF Holds, In
  <1>7. ASSUME NEW x, Latest(q, S, x)
        PROVE  /\ Latest(Tail(q), S, x)
               /\ Head(q) \in S /\ ~Holds(Tail(q), S) => Head(q) = x
    <2>1. ASSUME Holds(Tail(q), S)
          PROVE  \E i \in Nat : /\ In(Tail(q), S, i) /\ Tail(q)[i] = x
                                /\ \A j \in Nat : In(Tail(q), S, j) => j <= i
      <3>1. PICK i \in Nat : In(q, S, i) /\ q[i] = x /\ \A j \in Nat : In(q, S, j) => j <= i
        BY <1>5, <1>7, <2>1 DEF Latest
      <3>2. PICK k \in Nat : In(Tail(q), S, k)
        BY <2>1 DEF Holds
      <3>3. i # 1
        BY <1>4, <3>1, <3>2
      <3>4. i - 1 \in Nat /\ In(Tail(q), S, i - 1) /\ i - 1 + 1 = i
        BY <1>3, <3>1, <3>3
      <3>5. Tail(q)[i - 1] = x
        BY <1>4, <3>1, <3>4
      <3>6. \A j \in Nat : In(Tail(q), S, j) => j <= i - 1
        BY <1>4, <3>1
      <3> QED BY <3>4, <3>5, <3>6
    <2>2. ASSUME Head(q) \in S, ~Holds(Tail(q), S) PROVE Head(q) = x
      <3>1. In(q, S, 1) /\ 1 \in Nat
        BY <1>1, <2>2 DEF In
      <3>2. PICK i \in Nat : In(q, S, i) /\ q[i] = x
        BY <1>7, <3>1 DEF Latest, Holds
      <3>3. i = 1
        BY <1>3, <2>2, <3>2 DEF Holds
      <3> QED BY <1>1, <3>2, <3>3
    <2> QED BY <2>1, <2>2 DEF Latest
  <1> QED BY <1>1, <1>5, <1>6, <1>7
-----------------------------------------------------------------------------
(* The types.                                                              *)

\* What is posted.
LEMMA MessagesPosted ==
    /\ \A n \in Networks, b \in BOOLEAN : Report(n, b) \in About(n)
    /\ \A t \in Statuses : [type |-> "xtra", status |-> t] \in Xtras
    /\ \A b \in BOOLEAN : [type |-> "request", updated |-> b] \in Notices
    /\ [type |-> "request", updated |-> FALSE] \in Requests
    /\ Xtras \subseteq Notices /\ Reports \subseteq Notices
    /\ \A n : About(n) \subseteq Reports
  BY DEF Report, About, Reports, Xtras, Requests, Notices

\* No status is yet known, or the empty one, or that of an item.
LEMMA StatusTypes ==
    /\ Unknown \in Statuses /\ Nothing \in Statuses
    /\ \A item \in Items : StatusOf(item) \in Statuses
  BY NetworkInfoAssumption DEF Unknown, Nothing, Statuses, StatusOf, Items, Range

\* The table after a network has come.
LEMMA EnteredTable ==
    ASSUME NEW t \in Seq(Networks), IsInjective(t), NEW n \in Networks
    PROVE  /\ Entered(t, n) \in Seq(Networks) /\ IsInjective(Entered(t, n))
           /\ Range(Entered(t, n)) = Range(t) \union {n}
  <1>1. Contains(t, n) <=> n \in Range(t)
    BY DEF Contains, Range
  <1>2. CASE Contains(t, n)
    BY <1>1, <1>2 DEF Entered
  <1>3. CASE ~Contains(t, n)
    <2>1. Len(t) # MaxNetworkHandles
      <3>1. Len(t) \in Nat /\ t \in [1..Len(t) -> Networks \ {n}]
        BY <1>3 DEF Contains
      <3>2. t \in Injection(1..Len(t), Networks \ {n})
        BY <3>1 DEF IsInjective, Injection
      <3>3. /\ IsFiniteSet(Networks \ {n})
            /\ Cardinality(Networks \ {n}) = Cardinality(Networks) - 1
        BY FS_RemoveElement, NetworkInfoAssumption
      <3>4. Cardinality(1..Len(t)) = Len(t)
        <4>1. Cardinality(1..Len(t)) = IF 1 > Len(t) THEN 0 ELSE Len(t) - 1 + 1
          <5>1. 1 \in Int /\ Len(t) \in Int
            BY <3>1
          <5> QED BY <5>1, FS_Interval, Zenon
        <4> QED BY <3>1, <4>1
      <3>5. Len(t) <= Cardinality(Networks) - 1
        BY <3>2, <3>3, <3>4, FS_Injection
      <3>6. Cardinality(Networks) \in Nat
        BY FS_CardinalityType, NetworkInfoAssumption
      <3> QED BY <3>1, <3>5, <3>6, NetworkInfoAssumption
    <2>2. Entered(t, n) = Append(t, n)
      BY <1>3, <2>1 DEF Entered
    <2>3. /\ Append(t, n) \in Seq(Networks) /\ Len(Append(t, n)) = Len(t) + 1
          /\ \A i \in 1..Len(t) : Append(t, n)[i] = t[i]
          /\ Append(t, n)[Len(t) + 1] = n /\ Len(t) \in Nat
      OBVIOUS
    <2>4. IsInjective(Append(t, n))
      BY <1>3, <2>3 DEF IsInjective, Contains
    <2>5. Range(Append(t, n)) = Range(t) \union {n}
      BY <2>3 DEF Range
    <2> QED BY <2>2, <2>3, <2>4, <2>5
  <1> QED BY <1>2, <1>3

\* The table after a network has gone.
LEMMA RemovedTable ==
    ASSUME NEW t \in Seq(Networks), IsInjective(t), NEW n \in Networks
    PROVE  /\ Removed(t, n) \in Seq(Networks) /\ IsInjective(Removed(t, n))
           /\ Range(Removed(t, n)) = Range(t) \ {n}
  <1>1. Contains(t, n) <=> n \in Range(t)
    BY DEF Contains, Range
  <1>2. CASE ~Contains(t, n)
    BY <1>1, <1>2 DEF Removed
  <1>3. CASE Contains(t, n)
    <2> DEFINE l == Len(t)
               u == [i \in DOMAIN t |-> IF t[i] = n THEN Last(t) ELSE t[i]]
               v == SubSeq(u, 1, l - 1)
    <2>1. PICK k \in 1..l : t[k] = n
      BY <1>3 DEF Contains
    <2>2. l \in Nat \ {0} /\ DOMAIN t = 1..l /\ Last(t) = t[l] /\ t[l] \in Networks
      BY <2>1 DEF Last
    <2>3. u \in Seq(Networks) /\ Len(u) = l /\ \A i \in 1..l : u[i] = IF i = k THEN t[l] ELSE t[i]
      BY <2>1, <2>2 DEF IsInjective
    <2> HIDE DEF u
    <2>4. v \in Seq(Networks) /\ Len(v) = l - 1 /\ \A i \in 1..l - 1 : v[i] = u[i]
      <3>1. \A i \in 1..l : u[i] \in Networks
        BY <2>3
      <3>2. /\ SubSeq(u, 1, l - 1) \in Seq(Networks)
            /\ Len(SubSeq(u, 1, l - 1)) = IF 1 <= l - 1 THEN l - 1 - 1 + 1 ELSE 0
            /\ \A i \in 1..l - 1 - 1 + 1 : SubSeq(u, 1, l - 1)[i] = u[1 + i - 1]
        BY <2>2, <2>3, <3>1, SubSeqProperties
      <3> QED BY <2>2, <3>2
    <2>5. Removed(t, n) = v
      BY <1>3, <2>3 DEF Removed, Front, u
    <2> HIDE DEF v
    <2>6. \A i \in 1..l - 1 : v[i] = IF i = k THEN t[l] ELSE t[i]
      BY <2>2, <2>3, <2>4
    <2>7. IsInjective(v)
      <3>1. ASSUME NEW a \in 1..l - 1, NEW b \in 1..l - 1, v[a] = v[b] PROVE a = b
        <4>0. l \in Nat \ {0}
          BY <2>2
        <4>1. a \in 1..l /\ b \in 1..l /\ l \in 1..l /\ a # l /\ b # l
          BY <4>0
        <4>2. \A i, j \in 1..l : t[i] = t[j] => i = j
          BY <2>2 DEF IsInjective
        <4>3. v[a] = (IF a = k THEN t[l] ELSE t[a]) /\ v[b] = (IF b = k THEN t[l] ELSE t[b])
          BY <2>6
        <4> QED BY <3>1, <4>1, <4>2, <4>3
      <3>2. DOMAIN v = 1..l - 1
        BY <2>4
      <3> QED BY <3>1, <3>2, Zenon DEF IsInjective
    <2>8. Range(v) = Range(t) \ {n}
      <3>1. ASSUME NEW i \in 1..l - 1 PROVE v[i] \in Range(t) \ {n}
        BY <2>1, <2>2, <2>6 DEF Range, IsInjective
      <3>2. ASSUME NEW i \in 1..l, t[i] # n PROVE t[i] \in Range(v)
        <4>1. CASE i = l
          <5>1. k \in 1..l - 1 /\ v[k] = t[i]
            BY <2>1, <2>2, <2>6, <3>2, <4>1
          <5> QED BY <2>4, <5>1 DEF Range
        <4>2. CASE i # l
          <5>0. i # k /\ l \in Nat \ {0}
            BY <2>1, <2>2, <3>2
          <5>1. i \in 1..l - 1 /\ i # k
            BY <5>0, <4>2
          <5>2. v[i] = t[i]
            BY <2>6, <5>1
          <5> QED BY <2>4, <5>1, <5>2 DEF Range
        <4> QED BY <4>1, <4>2
      <3> QED BY <2>2, <2>4, <3>1, <3>2 DEF Range
    <2> QED BY <2>4, <2>5, <2>7, <2>8
  <1> QED BY <1>2, <1>3

\* The history ends with the item that was stored.
LEMMA StoredLast ==
    ASSUME history \in Seq(Items), NEW item \in Items
    PROVE  /\ Stored(item) \in Seq(Items) /\ Stored(item) # << >>
           /\ Last(Stored(item)) = item
  <1> DEFINE h == Append(history, item)
  <1>1. /\ h \in Seq(Items) /\ Len(h) \in Nat \ {0} /\ h[Len(h)] = item
    OBVIOUS
  <1> HIDE DEF h
  <1>2. CASE Len(h) > MaxItem
    <2>1. Len(h) > 1 /\ Tail(h) \in Seq(Items) /\ Len(Tail(h)) = Len(h) - 1
      BY <1>1, <1>2, NetworkInfoAssumption
    <2>2. Tail(h)[Len(h) - 1] = item
      BY <1>1, <2>1
    <2> QED BY <1>2, <2>1, <2>2 DEF Stored, Last, h
  <1>3. CASE ~(Len(h) > MaxItem)
    BY <1>1, <1>3 DEF Stored, Last, h
  <1> QED BY <1>2, <1>3
\* What is known is an item's status, or nothing.
LEMMA CurrentTypes ==
    ASSUME QueueTypes
    PROVE  /\ Current \in Statuses /\ Known \in Statuses
           /\ Current.table \in Seq(Networks)
           /\ history # << >> => Last(history) \in Items /\ Current = StatusOf(Last(history))
           /\ history = << >> => Current.table = << >> /\ Current.types = {}
  <1>1. ASSUME history # << >> PROVE Last(history) \in Items
    BY <1>1 DEF QueueTypes, Last
  <1>2. Current \in Statuses
    BY <1>1, StatusTypes DEF Current
  <1> QED BY <1>1, <1>2, StatusTypes DEF Current, Known, Statuses, Nothing

\* The item made of the oldest report, if that is of a network.
LEMMA ItemOfReport ==
    ASSUME QueueTypes, TInv, queue # << >>, Head(queue).type = "network"
    PROVE  LET r == Head(queue)
               item == Item(r)
           IN  /\ r \in Reports /\ r.network \in Networks /\ r.connected \in BOOLEAN
               /\ r = Report(r.network, r.connected)
               /\ item \in Items /\ IsInjective(item.table)
               /\ Range(item.table) = IF r.connected THEN Range(Current.table) \union {r.network}
                                      ELSE Range(Current.table) \ {r.network}
               /\ history = << >> => r.connected
               /\ history = << >> => item.types = {TypeOf[r.network]}
  <1> DEFINE r == Head(queue)
  <1>1. r \in Notices /\ r = queue[1] /\ 1 \in 1..Len(queue) /\ queue \in Seq(Notices)
    BY DEF QueueTypes
  <1>2. /\ r \in Reports /\ r.network \in Networks /\ r.connected \in BOOLEAN
        /\ r = Report(r.network, r.connected)
    BY <1>1 DEF Notices, Reports, Report
  <1>3. history = << >> => r.connected
    <2>1. In(queue, Reports, 1) /\ \A j \in Nat : In(queue, Reports, j) => 1 <= j
      BY <1>1, <1>2 DEF In
    <2> QED BY <1>1, <2>1 DEF TInv, FirstConnects, IsFirst
  <1> HIDE DEF r
  <1>4. TypeOf[r.network] \in Range(TypeOf)
    BY <1>2, NetworkInfoAssumption DEF Range
  <1>5. CASE history = << >>
    <2>1. Item(r) = [network |-> r.network, connected |-> r.connected,
                     types |-> {TypeOf[r.network]}, table |-> <<r.network>>]
      BY <1>5 DEF Item
    <2>2. /\ <<r.network>> \in Seq(Networks) /\ IsInjective(<<r.network>>)
          /\ Range(<<r.network>>) = {r.network}
      BY <1>2 DEF IsInjective, Range
    <2>3. Item(r) \in Items
      BY <1>2, <1>4, <2>1, <2>2 DEF Items
    <2>4. Range(Current.table) = {}
      BY <1>5, CurrentTypes DEF Range
    <2>5. r.connected
      BY <1>3, <1>5
    <2> QED BY <1>2, <1>3, <2>1, <2>2, <2>3, <2>4, <2>5 DEF r
  <1>6. CASE history # << >>
    <2> DEFINE last == Last(history)
    <2>1. last \in Items /\ last.table = Current.table
      BY <1>6, CurrentTypes DEF StatusOf
    <2>2. last.table \in Seq(Networks) /\ IsInjective(last.table)
      BY <2>1 DEF Items, TInv
    <2>3. /\ Item(r).network = r.network /\ Item(r).connected = r.connected
          /\ Item(r).table = IF r.connected THEN Entered(last.table, r.network)
                             ELSE Removed(last.table, r.network)
      BY <1>6 DEF Item, Collate
    <2>4. /\ Item(r).table \in Seq(Networks) /\ IsInjective(Item(r).table)
          /\ Range(Item(r).table) = IF r.connected THEN Range(last.table) \union {r.network}
                                    ELSE Range(last.table) \ {r.network}
      <3>1. CASE r.connected
        BY <1>2, <2>2, <2>3, <3>1, EnteredTable
      <3>2. CASE ~r.connected
        BY <1>2, <2>2, <2>3, <3>2, RemovedTable
      <3> QED BY <3>1, <3>2
    <2>5. Item(r) \in Items
      <3>1. last.types \in SUBSET (Range(TypeOf) \union {"unknown"})
        BY <2>1 DEF Items
      <3>2. Item(r).types \in SUBSET (Range(TypeOf) \union {"unknown"})
        BY <1>4, <1>6, <3>1 DEF Item, Collate
      <3>3. Item(r) = [network |-> r.network, connected |-> r.connected,
                       types |-> Item(r).types, table |-> Item(r).table]
        BY <1>6 DEF Item, Collate
      <3> QED BY <1>2, <2>4, <3>2, <3>3 DEF Items
    <2> QED BY <1>2, <1>3, <1>6, <2>1, <2>4, <2>5 DEF r
  <1> QED BY <1>5, <1>6

\* Whether the report changes something or not, what is current afterwards is its item's table.
LEMMA AfterReport ==
    ASSUME QueueTypes, TInv, ProcNetwork
    PROVE  LET r == Head(queue)
               item == Item(r)
               sent == [type |-> "xtra", status |-> StatusOf(item)]
           IN  /\ queue # << >> /\ r.type = "network"
               /\ history' \in Seq(Items) /\ history' # << >>
               /\ Current'.table = item.table
               /\ \/ queue' = Tail(queue) /\ history' = history /\ agps' = agps
                  \/ /\ queue' = Append(Tail(queue), sent) /\ sent \in Xtras
                     /\ Current' = StatusOf(item)
                     /\ agps' = (Mobile \in item.types)
               /\ reset' = reset /\ xtra' = xtra /\ asked' = asked
               /\ daemon' = daemon /\ online' = online /\ orphans' = orphans
  <1> DEFINE r == Head(queue)
             item == Item(r)
  <1>1. queue # << >> /\ r.type = "network"
    BY DEF ProcNetwork
  <1>2. item \in Items
    BY <1>1, ItemOfReport
  <1>3. /\ reset' = reset /\ xtra' = xtra /\ asked' = asked
        /\ daemon' = daemon /\ online' = online /\ orphans' = orphans
    BY DEF ProcNetwork, outside
  <1>4. CASE history # << >> /\ Equals(item, Last(history))
    <2>1. queue' = Tail(queue) /\ history' = history /\ agps' = agps
      BY <1>4 DEF ProcNetwork
    <2>2. Current.table = item.table
      BY <1>4, CurrentTypes DEF Equals, StatusOf
    <2>3. Current'.table = item.table
      BY <2>1, <2>2 DEF Current
    <2> QED BY <1>1, <1>3, <1>4, <2>1, <2>3 DEF QueueTypes
  <1>5. CASE ~(history # << >> /\ Equals(item, Last(history)))
    <2>1. /\ history' = Stored(item) /\ agps' = (Mobile \in item.types)
          /\ queue' = Append(Tail(queue), [type |-> "xtra", status |-> StatusOf(item)])
      BY <1>5 DEF ProcNetwork
    <2>2. history' \in Seq(Items) /\ history' # << >> /\ Last(history') = item
      BY <1>2, <2>1, StoredLast DEF QueueTypes
    <2>3. Current' = StatusOf(item) /\ Current'.table = item.table
      BY <2>2 DEF Current, StatusOf
    <2>4. [type |-> "xtra", status |-> StatusOf(item)] \in Xtras
      BY <1>2, StatusTypes, MessagesPosted
    <2> QED BY <1>1, <1>3, <2>1, <2>2, <2>3, <2>4
  <1> QED BY <1>4, <1>5
-----------------------------------------------------------------------------
(* The steps.                                                              *)

\* A message that is not a report is taken.
LEMMA OtherTaken ==
    ASSUME QueueTypes, TInv, queue # << >>, Head(queue) \notin Reports, queue' = Tail(queue),
           history' = history, online' = online, orphans' = orphans, reset' = reset
    PROVE  TInv'
  <1>1. queue \in Seq(Notices) /\ Current' = Current /\ Expected' = Expected
    BY DEF QueueTypes, Current, Expected
  <1>2. \A n \in Networks : Head(queue) \notin About(n)
    BY MessagesPosted
  <1>3. ASSUME NEW n \in Networks PROVE Followed(n)'
    BY <1>1, <1>2, TakenLatest DEF Followed, TInv
  <1>4. FirstConnects'
    <2> SUFFICES ASSUME history = << >>, NEW i \in Nat, IsFirst(Tail(queue), i)
                 PROVE  Tail(queue)[i].connected
      BY DEF FirstConnects
    <2>1. In(queue, Reports, i + 1) /\ i + 1 \in Nat /\ Tail(queue)[i] = queue[i + 1]
      <3>1. In(queue, Reports, i + 1) /\ Tail(queue)[i] = queue[i + 1]
        BY <1>1, TakenIn, Zenon DEF IsFirst
      <3>2. i + 1 \in Nat
        OBVIOUS
      <3> QED BY <3>1, <3>2, Zenon
    <2>2. ASSUME NEW j \in Nat, In(queue, Reports, j) PROVE i + 1 <= j
      <3>1. j # 1
        BY <1>1, <2>2 DEF In
      <3>2. j - 1 \in Nat /\ j - 1 > 0 /\ j - 1 + 1 = j
        BY <2>2, <3>1 DEF In
      <3>3. In(Tail(queue), Reports, j - 1)
        BY <1>1, <2>2, <3>2, TakenIn
      <3>4. i <= j - 1
        BY <3>2, <3>3 DEF IsFirst
      <3> QED BY <3>2, <3>4
    <2> QED BY <2>1, <2>2 DEF TInv, FirstConnects, IsFirst
  <1> QED BY <1>1, <1>3, <1>4 DEF TInv

\* A message that is not a report is posted.
LEMMA OtherPosted ==
    ASSUME QueueTypes, TInv, NEW m \in Notices \ Reports, queue' = Append(queue, m),
           history' = history, online' = online, orphans' = orphans, reset' = reset
    PROVE  TInv'
  <1>1. queue \in Seq(Notices) /\ Current' = Current /\ Expected' = Expected
    BY DEF QueueTypes, Current, Expected
  <1>2. \A n \in Networks : m \notin About(n)
    BY MessagesPosted
  <1>3. ASSUME NEW n \in Networks PROVE Followed(n)'
    BY <1>1, <1>2, Posted DEF Followed, TInv
  <1>4. FirstConnects'
    <2>1. \A i \in Nat : In(queue', Reports, i) <=> In(queue, Reports, i)
      BY <1>1, PostedIn
    <2>2. ASSUME NEW i \in Nat, In(queue, Reports, i) PROVE queue'[i] = queue[i]
      BY <1>1, <2>2, PostedStays
    <2> QED BY <2>1, <2>2 DEF TInv, FirstConnects, IsFirst
  <1> QED BY <1>1, <1>3, <1>4 DEF TInv

\* A report is posted that says what is expected of its network from now on.
LEMMA ReportPosted ==
    ASSUME QueueTypes, TInv, NEW n \in Networks, NEW b \in BOOLEAN,
           queue' = Append(queue, Report(n, b)), history' = history,
           n \in Expected' <=> b,
           \A k \in Networks \ {n} : k \in Expected' <=> k \in Expected,
           {online, orphans}' \subseteq SUBSET Networks, reset' > 0 => online' = {},
           history = << >> /\ ~Holds(queue, Reports) => b
    PROVE  TInv'
  <1>1. queue \in Seq(Notices) /\ Current' = Current
    BY DEF QueueTypes, Current
  <1>2. Report(n, b) \in About(n) /\ Report(n, b) \in Reports /\ Report(n, b) \in Notices
    BY MessagesPosted
  <1>3. ASSUME NEW k \in Networks, k # n PROVE Followed(k)'
    <2>1. Report(n, b) \notin About(k)
      BY <1>3 DEF About, Report
    <2> QED BY <1>1, <1>2, <1>3, <2>1, Posted DEF Followed, TInv
  <1>4. Followed(n)'
    <2>1. Holds(queue', About(n)) /\ Latest(queue', About(n), Report(n, b))
      BY <1>1, <1>2, Posted
    <2>2. (n \in Expected') = b
      OBVIOUS
    <2> QED BY <2>1, <2>2 DEF Followed
  <1>5. FirstConnects'
    <2> SUFFICES ASSUME history = << >>, NEW i \in Nat, IsFirst(queue', i)
                 PROVE  queue'[i].connected
      BY DEF FirstConnects
    <2>1. \A j \in Nat : In(queue, Reports, j) => In(queue', Reports, j) /\ j < Len(queue) + 1
      BY <1>1, <1>2, PostedIn
    <2>2. CASE In(queue, Reports, i)
      <3>1. queue'[i] = queue[i]
        BY <1>1, <1>2, <2>2, PostedStays
      <3>2. IsFirst(queue, i)
        BY <2>1, <2>2 DEF IsFirst
      <3> QED BY <3>1, <3>2 DEF TInv, FirstConnects
    <2>3. CASE ~In(queue, Reports, i)
      <3>1. i = Len(queue) + 1
        BY <1>1, <1>2, <2>3, PostedIn DEF IsFirst
      <3>2. queue'[i] = Report(n, b)
        BY <1>1, <1>2, <3>1, PostedIn
      <3>3. ~Holds(queue, Reports)
        <4> SUFFICES ASSUME NEW j \in Nat, In(queue, Reports, j) PROVE FALSE
          BY DEF Holds
        <4>1. i <= j /\ j < i
          BY <2>1, <3>1 DEF IsFirst
        <4>2. Len(queue) \in Nat
          BY <1>1
        <4> QED BY <4>1
      <3>4. b = TRUE
        BY <3>3
      <3>5. Report(n, b).connected
        BY <3>4 DEF Report
      <3> QED BY <3>2, <3>5
    <2> QED BY <2>2, <2>3
  <1> QED BY <1>1, <1>3, <1>4, <1>5 DEF TInv

\* A report is handled.
LEMMA ReportTaken ==
    ASSUME QueueTypes, TInv, ProcNetwork
    PROVE  TInv'
  <1> DEFINE r == Head(queue)
             item == Item(r)
             sent == [type |-> "xtra", status |-> StatusOf(item)]
             q == Tail(queue)
  <1>1. /\ queue # << >> /\ r.type = "network"
        /\ history' # << >> /\ Current'.table = item.table
        /\ queue' = q \/ (queue' = Append(q, sent) /\ sent \in Xtras)
        /\ Expected' = Expected /\ online' = online /\ orphans' = orphans /\ reset' = reset
    BY AfterReport DEF Expected
  <1>2. /\ r.network \in Networks /\ r.connected \in BOOLEAN
        /\ r = Report(r.network, r.connected)
        /\ IsInjective(item.table)
        /\ Range(item.table) = IF r.connected THEN Range(Current.table) \union {r.network}
                               ELSE Range(Current.table) \ {r.network}
    BY <1>1, ItemOfReport
  <1>3. queue \in Seq(Notices) /\ q \in Seq(Notices)
    BY <1>1 DEF QueueTypes
  <1> HIDE DEF r, item, sent, q
  <1>4. ASSUME NEW n \in Networks PROVE Followed(n)'
    <2>1. /\ Latest(q, About(n), Report(n, n \in Expected))
          /\ r \notin About(n) => (Holds(queue, About(n)) => Holds(q, About(n)))
          /\ r \in About(n) /\ ~Holds(q, About(n)) => r = Report(n, n \in Expected)
      BY <1>1, <1>3, TakenLatest DEF TInv, Followed, q, r
    <2>2. /\ Latest(queue', About(n), Report(n, n \in Expected))
          /\ Holds(q, About(n)) => Holds(queue', About(n))
      <3>1. sent \in Xtras => sent \in Notices /\ sent \notin About(n)
        BY DEF Xtras, About, Reports
      <3> QED BY <1>1, <1>3, <2>1, <3>1, Posted
    <2>3. ASSUME ~Holds(queue', About(n)) PROVE n \in Expected <=> n \in Range(item.table)
      <3>1. CASE r.network = n
        <4>1. r \in About(n)
          BY <1>2, <3>1, MessagesPosted
        <4>2. r = Report(n, n \in Expected)
          BY <2>1, <2>2, <2>3, <4>1
        <4>3. r.connected <=> n \in Expected
          BY <4>2 DEF Report
        <4> QED BY <1>2, <3>1, <4>3
      <3>2. CASE r.network # n
        <4>1. r \notin About(n)
          BY <3>2 DEF About
        <4>2. ~Holds(queue, About(n))
          BY <2>1, <2>2, <2>3, <4>1
        <4> QED BY <1>2, <3>2, <4>2 DEF TInv, Followed
      <3> QED BY <3>1, <3>2
    <2> QED BY <1>1, <2>2, <2>3 DEF Followed
  <1> QED BY <1>1, <1>2, <1>4 DEF TInv, FirstConnects

-----------------------------------------------------------------------------
(* The inductive invariant.                                                *)

NetworkInv == QueueTypes /\ TInv /\ DInv

\* A status is sent to a daemon that runs, and leaves it as it is otherwise.
LEMMA SentTypes ==
    ASSUME daemon \in [up : BOOLEAN, knows : Statuses], NEW t \in Statuses, Send(t)
    PROVE  /\ daemon' \in [up : BOOLEAN, knows : Statuses]
           /\ daemon'.up = daemon.up /\ (daemon'.up => daemon'.knows = t)
  BY DEF Send

LEMMA InitIInv == NetworkInit => NetworkInv
  <1> SUFFICES ASSUME NetworkInit PROVE NetworkInv
    OBVIOUS
  <1>1. /\ queue = << >> /\ history = << >> /\ reset = 0 /\ xtra = Unknown
        /\ daemon = [up |-> FALSE, knows |-> Unknown] /\ online = {} /\ orphans = {}
    BY DEF NetworkInit
  <1>2. QueueTypes
    BY <1>1, StatusTypes DEF QueueTypes
  <1>3. \A S : ~Holds(queue, S)
    BY <1>1 DEF Holds, In
  <1>4. \A S, m : Latest(queue, S, m)
    BY <1>3 DEF Latest
  <1>5. Current.table = << >> /\ Known = Unknown
    BY <1>1 DEF Current, Nothing, Known
  <1>6. \A n \in Networks : Followed(n)
    BY <1>1, <1>4, <1>5 DEF Followed, Expected, Range
  <1>7. FirstConnects
    BY <1>3 DEF FirstConnects, IsFirst, Holds
  <1>8. TInv
    BY <1>1, <1>5, <1>6, <1>7 DEF TInv, IsInjective
  <1>9. DInv
    BY <1>1, <1>3, <1>4, <1>5 DEF DInv
  <1> QED BY <1>2, <1>8, <1>9 DEF NetworkInv

\* Reports posted change nothing of what the daemon is told.
LEMMA ReportTellsNobody ==
    ASSUME QueueTypes, DInv, NEW m \in Reports, queue' = Append(queue, m),
           UNCHANGED <<history, observers, daemon>>
    PROVE  DInv'
  <1>1. m \in Notices /\ m \notin Xtras /\ m \notin Requests /\ queue \in Seq(Notices)
    BY DEF Reports, Xtras, Requests, QueueTypes
  <1>2. Known' = Known /\ xtra' = xtra /\ asked' = asked
    BY DEF Known, Current, observers
  <1>3. /\ Latest(queue, Xtras, [type |-> "xtra", status |-> Known])
           => Latest(queue', Xtras, [type |-> "xtra", status |-> Known])
        /\ Holds(queue, Xtras) => Holds(queue', Xtras)
        /\ Holds(queue, Requests) => Holds(queue', Requests)
    BY <1>1, Posted
  <1> QED BY <1>2, <1>3 DEF DInv

\* A network comes or goes.
LEMMA UpdateConnectionStatusKeeps ==
    ASSUME NetworkInv, NEW n \in Networks, UpdateConnectionStatus(n)
    PROVE  NetworkInv'
  <1> DEFINE b == n \notin online
  <1>1. /\ queue' = Append(queue, Report(n, b)) /\ b \in BOOLEAN
        /\ online' = (IF n \in online THEN online \ {n} ELSE online \union {n})
        /\ orphans' = orphans \ {n} /\ reset = 0
        /\ UNCHANGED <<history, reset, observers, daemon>>
    BY DEF UpdateConnectionStatus
  <1>2. QueueTypes /\ TInv /\ DInv
    BY DEF NetworkInv
  <1>3. Report(n, b) \in Reports /\ Report(n, b) \in Notices
    BY <1>1, MessagesPosted
  <1>4. QueueTypes'
    BY <1>1, <1>2, <1>3 DEF QueueTypes, observers
  <1>5. DInv'
    BY <1>1, <1>2, <1>3, ReportTellsNobody
  <1>6. TInv'
    <2>1. n \in Expected' <=> b
      BY <1>1 DEF Expected
    <2>2. \A k \in Networks \ {n} : k \in Expected' <=> k \in Expected
      BY <1>1 DEF Expected
    <2>3. {online, orphans}' \subseteq SUBSET Networks
      BY <1>1, <1>2 DEF TInv
    <2>4. history = << >> /\ ~Holds(queue, Reports) => b
      <3> SUFFICES ASSUME history = << >>, ~Holds(queue, Reports) PROVE b
        OBVIOUS
      <3>1. ~Holds(queue, About(n))
        BY MessagesPosted DEF Holds, In
      <3>2. n \notin Range(Current.table)
        BY <1>2, CurrentTypes DEF Range
      <3> QED BY <1>2, <3>1, <3>2 DEF TInv, Followed, Expected
    <2>5. reset' > 0 => online' = {}
      BY <1>1
    <2> HIDE DEF b
    <2> QED BY <1>1, <1>2, <2>1, <2>2, <2>3, <2>4, <2>5, ReportPosted
  <1> QED BY <1>4, <1>5, <1>6 DEF NetworkInv

\* The framework dies: what it had connected is still expected to be there.
LEMMA ServiceDiedKeeps ==
    ASSUME NetworkInv, ServiceDied
    PROVE  NetworkInv'
  <1>1. /\ reset' = 1 /\ orphans' = orphans \union online /\ online' = {}
        /\ UNCHANGED <<queue, history, observers, daemon>>
    BY DEF ServiceDied
  <1>2. Expected' = Expected /\ Current' = Current /\ Known' = Known
    BY <1>1 DEF Expected, Current, Known
  <1>3. QueueTypes'
    BY <1>1 DEF NetworkInv, QueueTypes, observers
  <1>4. DInv'
    BY <1>1, <1>2 DEF NetworkInv, DInv, observers
  <1>5. \A n \in Networks : Followed(n)'
    BY <1>1, <1>2 DEF NetworkInv, TInv, Followed
  <1>6. TInv'
    BY <1>1, <1>2, <1>5 DEF NetworkInv, TInv, FirstConnects
  <1> QED BY <1>3, <1>4, <1>6 DEF NetworkInv

\* The reset takes a step.
LEMMA ResetNetworkInfoKeeps ==
    ASSUME NetworkInv, ResetNetworkInfo
    PROVE  NetworkInv'
  <1>1. QueueTypes /\ TInv /\ DInv
    BY DEF NetworkInv
  <1>2. reset > 0 /\ online = {} /\ UNCHANGED <<history, observers, daemon, online>>
    BY <1>1 DEF ResetNetworkInfo, TInv
  <1>3. CASE reset <= Len(history)
    <2> DEFINE n == history[reset].network
    <2>1. /\ queue' = Append(queue, Report(n, FALSE)) /\ orphans' = orphans \ {n}
          /\ reset' = reset + 1
      BY <1>3 DEF ResetNetworkInfo
    <2>2. reset \in 1..Len(history) /\ history # << >>
      BY <1>1, <1>2, <1>3 DEF QueueTypes
    <2>3. n \in Networks
      <3>1. history[reset] \in Items
        BY <1>1, <2>2 DEF QueueTypes
      <3> QED BY <3>1 DEF Items
    <2> HIDE DEF n
    <2>4. Report(n, FALSE) \in Reports /\ Report(n, FALSE) \in Notices
      BY <2>3, MessagesPosted
    <2>5. QueueTypes'
      <3>1. queue' \in Seq(Notices) /\ reset' \in Nat
        <4>1. queue \in Seq(Notices) /\ reset \in Nat
          BY <1>1 DEF QueueTypes
        <4>2. \A q \in Seq(Notices), m \in Notices : Append(q, m) \in Seq(Notices)
          OBVIOUS
        <4>3. Append(queue, Report(n, FALSE)) \in Seq(Notices)
          BY <4>1, <4>2, <2>4, Zenon
        <4>4. reset + 1 \in Nat
          BY <4>1
        <4> QED BY <2>1, <4>3, <4>4, Zenon
      <3>2. history' = history /\ xtra' = xtra /\ daemon' = daemon
        BY <1>2 DEF observers
      <3> QED BY <1>1, <3>1, <3>2, Zenon DEF QueueTypes
    <2>6. DInv'
      BY <1>1, <1>2, <2>1, <2>4, ReportTellsNobody
    <2>7. n \notin Expected' /\ \A k \in Networks \ {n} : k \in Expected' <=> k \in Expected
      BY <1>2, <2>1 DEF Expected
    <2>8. {online, orphans}' \subseteq SUBSET Networks
      BY <1>1, <1>2, <2>1 DEF TInv
    <2>9. TInv'
      BY <1>1, <1>2, <2>1, <2>2, <2>3, <2>7, <2>8, ReportPosted
    <2> QED BY <2>5, <2>6, <2>9 DEF NetworkInv
  <1>4. CASE ~(reset <= Len(history))
    <2>1. reset' = 0 /\ UNCHANGED <<queue, orphans>>
      BY <1>4 DEF ResetNetworkInfo
    <2>2. Current' = Current /\ Expected' = Expected /\ Known' = Known
      BY <1>2, <2>1 DEF Current, Expected, Known
    <2>3. \A n \in Networks : Followed(n)'
      BY <1>1, <2>1, <2>2 DEF TInv, Followed
    <2>4. TInv'
      BY <1>1, <1>2, <2>1, <2>2, <2>3 DEF TInv, FirstConnects
    <2>5. DInv' /\ QueueTypes'
      BY <1>1, <1>2, <2>1, <2>2 DEF DInv, QueueTypes, observers
    <2> QED BY <2>4, <2>5 DEF NetworkInv
  <1> QED BY <1>3, <1>4

\* A report is handled: if it changes something, the status sent is the new one.
LEMMA ProcNetworkKeeps ==
    ASSUME NetworkInv, ProcNetwork
    PROVE  NetworkInv'
  <1> DEFINE r == Head(queue)
             q == Tail(queue)
             sent == [type |-> "xtra", status |-> StatusOf(Item(r))]
  <1>1. QueueTypes /\ TInv /\ DInv
    BY DEF NetworkInv
  <1>2. /\ queue # << >> /\ r.type = "network"
        /\ history' \in Seq(Items) /\ history' # << >>
        /\ \/ queue' = q /\ history' = history
           \/ queue' = Append(q, sent) /\ sent \in Xtras /\ Current' = StatusOf(Item(r))
        /\ reset' = reset /\ xtra' = xtra /\ asked' = asked /\ daemon' = daemon
    BY <1>1, AfterReport
  <1>3. TInv'
    BY <1>1, ReportTaken
  <1>4. queue \in Seq(Notices) /\ r \notin Xtras /\ r \notin Requests
    BY <1>1, <1>2 DEF QueueTypes, Xtras, Requests
  <1>5. /\ q \in Seq(Notices)
        /\ \A x : Latest(queue, Xtras, x) => Latest(q, Xtras, x)
        /\ Holds(queue, Xtras) => Holds(q, Xtras)
        /\ Holds(queue, Requests) => Holds(q, Requests)
    BY <1>2, <1>4, TakenLatest
  <1> HIDE DEF r, q, sent
  <1>6. CASE queue' = q /\ history' = history
    <2>1. Known' = Known
      BY <1>6 DEF Known, Current
    <2>2. DInv'
      BY <1>1, <1>2, <1>5, <1>6, <2>1 DEF DInv
    <2>3. QueueTypes'
      BY <1>1, <1>2, <1>5, <1>6 DEF QueueTypes
    <2> QED BY <1>3, <2>2, <2>3 DEF NetworkInv
  <1>7. CASE queue' = Append(q, sent) /\ sent \in Xtras /\ Current' = StatusOf(Item(r))
    <2>1. sent \in Notices /\ sent \notin Requests
      BY <1>7 DEF Xtras, Requests
    <2>2. /\ queue' \in Seq(Notices)
          /\ Holds(queue', Xtras) /\ Latest(queue', Xtras, sent)
          /\ Holds(q, Requests) => Holds(queue', Requests)
      BY <1>5, <1>7, <2>1, Posted
    <2>3. sent = [type |-> "xtra", status |-> Known']
      BY <1>2, <1>7 DEF sent, Known
    <2>4. DInv'
      BY <1>1, <1>2, <1>5, <2>2, <2>3 DEF DInv
    <2>5. QueueTypes'
      BY <1>1, <1>2, <2>2 DEF QueueTypes
    <2> QED BY <1>3, <2>4, <2>5 DEF NetworkInv
  <1> QED BY <1>2, <1>6, <1>7

\* The XTRA observer takes a status: after the last of them it has the one that is current.
LEMMA ProcXtraKeeps ==
    ASSUME NetworkInv, ProcXtra
    PROVE  NetworkInv'
  <1> DEFINE m == Head(queue)
             q == Tail(queue)
  <1>1. QueueTypes /\ TInv /\ DInv
    BY DEF NetworkInv
  <1>2. /\ queue # << >> /\ m.type = "xtra" /\ queue' = q /\ xtra' = m.status
        /\ IF asked THEN Send(m.status) ELSE daemon' = daemon
        /\ history' = history /\ reset' = reset /\ asked' = asked
        /\ online' = online /\ orphans' = orphans
    BY DEF ProcXtra
  <1>3. queue \in Seq(Notices)
    BY <1>1 DEF QueueTypes
  <1>4. m \in Xtras /\ m.status \in Statuses /\ m = [type |-> "xtra", status |-> m.status]
    BY <1>2, <1>3 DEF Notices, Xtras
  <1>5. m \notin Reports /\ m \notin Requests
    BY <1>2 DEF Reports, Requests
  <1>6. /\ q \in Seq(Notices)
        /\ Holds(queue, Requests) => Holds(q, Requests)
        /\ Latest(q, Xtras, [type |-> "xtra", status |-> Known])
        /\ ~Holds(q, Xtras) => m = [type |-> "xtra", status |-> Known]
    BY <1>1, <1>2, <1>3, <1>4, <1>5, TakenLatest DEF DInv
  <1>7. TInv'
    BY <1>1, <1>2, <1>5, OtherTaken
  <1> HIDE DEF m, q
  <1>8. Known' = Known
    BY <1>2 DEF Known, Current
  <1>9. /\ daemon' \in [up : BOOLEAN, knows : Statuses]
        /\ daemon'.up = daemon.up /\ (daemon'.up /\ asked => daemon'.knows = m.status)
    BY <1>1, <1>2, <1>4, SentTypes DEF QueueTypes
  <1>10. QueueTypes'
    BY <1>1, <1>2, <1>4, <1>6, <1>9 DEF QueueTypes
  <1>11. DInv'
    <2>1. ~Holds(q, Xtras) => m.status = Known
      BY <1>6
    <2> QED BY <1>1, <1>2, <1>6, <1>8, <1>9, <2>1 DEF DInv
  <1> QED BY <1>7, <1>10, <1>11 DEF NetworkInv

\* A request of the daemon is answered.
LEMMA ProcRequestKeeps ==
    ASSUME NetworkInv, ProcRequest
    PROVE  NetworkInv'
  <1> DEFINE m == Head(queue)
             q == Tail(queue)
  <1>1. QueueTypes /\ TInv /\ DInv
    BY DEF NetworkInv
  <1>2. /\ queue # << >> /\ m.type = "request" /\ queue' = q /\ asked' = TRUE
        /\ IF m.updated THEN daemon' = daemon ELSE Send(xtra)
        /\ history' = history /\ reset' = reset /\ xtra' = xtra
        /\ online' = online /\ orphans' = orphans
    BY DEF ProcRequest
  <1>3. queue \in Seq(Notices) /\ xtra \in Statuses
    BY <1>1 DEF QueueTypes
  <1>4. m \notin Reports /\ m \notin Xtras /\ (m.updated => m \notin Requests)
    BY <1>2 DEF Reports, Xtras, Requests
  <1>5. /\ q \in Seq(Notices)
        /\ m.updated => (Holds(queue, Requests) => Holds(q, Requests))
        /\ Latest(q, Xtras, [type |-> "xtra", status |-> Known])
        /\ Holds(queue, Xtras) => Holds(q, Xtras)
    BY <1>1, <1>2, <1>3, <1>4, TakenLatest DEF DInv
  <1>6. TInv'
    BY <1>1, <1>2, <1>4, OtherTaken
  <1> HIDE DEF m, q
  <1>7. Known' = Known
    BY <1>2 DEF Known, Current
  <1>8. /\ daemon' \in [up : BOOLEAN, knows : Statuses] /\ daemon'.up = daemon.up
        /\ m.updated => daemon' = daemon
        /\ ~m.updated => (daemon'.up => daemon'.knows = xtra)
    BY <1>1, <1>2, <1>3, SentTypes DEF QueueTypes
  <1>9. QueueTypes'
    BY <1>1, <1>2, <1>5, <1>8 DEF QueueTypes
  <1>10. DInv'
    BY <1>1, <1>2, <1>5, <1>7, <1>8 DEF DInv
  <1> QED BY <1>6, <1>9, <1>10 DEF NetworkInv

\* The daemon posts a request, and knows what it knew or has its request under way.
LEMMA RequestPostedKeeps ==
    ASSUME NetworkInv, NEW b \in BOOLEAN,
           queue' = Append(queue, [type |-> "request", updated |-> b]),
           daemon' \in [up : BOOLEAN, knows : Statuses], b => daemon' = daemon,
           UNCHANGED <<history, reset, observers, online, orphans>>
    PROVE  NetworkInv'
  <1> DEFINE m == [type |-> "request", updated |-> b]
  <1>1. QueueTypes /\ TInv /\ DInv
    BY DEF NetworkInv
  <1>2. m \in Notices /\ m \notin Reports /\ m \notin Xtras /\ (~b => m \in Requests)
    BY MessagesPosted DEF Reports, Xtras
  <1>3. queue \in Seq(Notices) /\ xtra' = xtra /\ asked' = asked
    BY <1>1 DEF QueueTypes, observers
  <1> HIDE DEF m
  <1>4. queue' = Append(queue, m)
    BY DEF m
  <1>5. TInv'
    BY <1>1, <1>2, <1>4, OtherPosted
  <1>6. /\ queue' \in Seq(Notices)
        /\ Holds(queue, Requests) \/ ~b => Holds(queue', Requests)
        /\ Holds(queue, Xtras) => Holds(queue', Xtras)
        /\ \A x : Latest(queue, Xtras, x) => Latest(queue', Xtras, x)
    BY <1>2, <1>3, <1>4, Posted
  <1>7. Known' = Known
    BY DEF Known, Current
  <1>8. QueueTypes'
    BY <1>1, <1>3, <1>6 DEF QueueTypes
  <1>9. DInv'
    BY <1>1, <1>3, <1>6, <1>7 DEF DInv
  <1> QED BY <1>5, <1>8, <1>9 DEF NetworkInv

\* The daemon dies.
LEMMA DaemonDiesKeeps ==
    ASSUME NetworkInv, DaemonDies
    PROVE  NetworkInv'
  <1>1. /\ daemon' = [up |-> FALSE, knows |-> Unknown]
        /\ UNCHANGED <<queue, history, reset, observers, online, orphans>>
    BY DEF DaemonDies
  <1>2. Known' = Known /\ Current' = Current /\ Expected' = Expected
    BY <1>1 DEF Known, Current, Expected
  <1>3. QueueTypes'
    BY <1>1, StatusTypes DEF NetworkInv, QueueTypes, observers
  <1>4. DInv'
    BY <1>1, <1>2 DEF NetworkInv, DInv, observers
  <1>5. \A n \in Networks : Followed(n)'
    BY <1>1, <1>2 DEF NetworkInv, TInv, Followed
  <1>6. TInv'
    BY <1>1, <1>2, <1>5 DEF NetworkInv, TInv, FirstConnects
  <1> QED BY <1>3, <1>4, <1>6 DEF NetworkInv

LEMMA NextIInv == NetworkInv /\ [NetworkNext]_networkVars => NetworkInv'
  <1> SUFFICES ASSUME NetworkInv, [NetworkNext]_networkVars PROVE NetworkInv'
    OBVIOUS
  <1>1. ASSUME NEW n \in Networks, UpdateConnectionStatus(n) PROVE NetworkInv'
    BY <1>1, UpdateConnectionStatusKeeps
  <1>2. CASE ServiceDied
    BY <1>2, ServiceDiedKeeps
  <1>3. CASE ResetNetworkInfo
    BY <1>3, ResetNetworkInfoKeeps
  <1>4. CASE ProcNetwork
    BY <1>4, ProcNetworkKeeps
  <1>5. CASE ProcXtra
    BY <1>5, ProcXtraKeeps
  <1>6. CASE ProcRequest
    BY <1>6, ProcRequestKeeps
  <1>7. CASE DaemonStarts
    <2>1. /\ queue' = Append(queue, [type |-> "request", updated |-> FALSE])
          /\ daemon' = [up |-> TRUE, knows |-> Unknown]
          /\ UNCHANGED <<history, reset, observers, online, orphans>>
      BY <1>7 DEF DaemonStarts
    <2>2. daemon' \in [up : BOOLEAN, knows : Statuses]
      BY <2>1, StatusTypes
    <2> QED BY <2>1, <2>2, RequestPostedKeeps
  <1>8. CASE DaemonAsks
    <2>1. /\ queue' = Append(queue, [type |-> "request", updated |-> TRUE])
          /\ daemon' = daemon
          /\ UNCHANGED <<history, reset, observers, online, orphans>>
      BY <1>8 DEF DaemonAsks
    <2>2. daemon' \in [up : BOOLEAN, knows : Statuses]
      BY <2>1 DEF NetworkInv, QueueTypes
    <2> QED BY <2>1, <2>2, RequestPostedKeeps
  <1>9. CASE DaemonDies
    BY <1>9, DaemonDiesKeeps
  <1>10. CASE UNCHANGED networkVars
    <2>1. UNCHANGED <<queue, history, reset, observers, daemon, online, orphans>>
      BY <1>10 DEF networkVars, outside
    <2>2. Known' = Known /\ Current' = Current /\ Expected' = Expected
      BY <2>1 DEF Known, Current, Expected
    <2>3. \A n \in Networks : Followed(n)'
      BY <2>1, <2>2 DEF NetworkInv, TInv, Followed
    <2>4. TInv' /\ QueueTypes'
      BY <2>1, <2>2, <2>3 DEF NetworkInv, TInv, FirstConnects, QueueTypes, observers
    <2>5. DInv'
      BY <2>1, <2>2 DEF NetworkInv, DInv, observers
    <2> QED BY <2>4, <2>5 DEF NetworkInv
  <1> QED BY <1>1, <1>2, <1>3, <1>4, <1>5, <1>6, <1>7, <1>8, <1>9, <1>10 DEF NetworkNext

\* Every reachable state has the invariant.
LEMMA SpecIInv == NetworkSpec => []NetworkInv
  BY InitIInv, NextIInv, PTL DEF NetworkSpec

\* A kind of message that is not pending is not held.
LEMMA NotPending ==
    /\ ~Pending("network") => ~Holds(queue, Reports)
    /\ ~Pending("xtra") => ~Holds(queue, Xtras)
    /\ ~Pending("request") => ~Holds(queue, Requests)
  BY DEF Pending, Holds, In, Reports, Xtras, Requests
-----------------------------------------------------------------------------
(* The types of the networks.                                              *)

\* No two networks are of one type.
EachTypeOnce == \A m, n \in Networks : TypeOf[m] = TypeOf[n] => m = n

LEMMA InitTypesInv == NetworkInit => TypesInv
  <1> SUFFICES ASSUME NetworkInit PROVE TypesInv
    OBVIOUS
  <1>1. Current = [types |-> {}, table |-> << >>] /\ agps = FALSE
    BY DEF NetworkInit, Current, Nothing
  <1>2. Range(Current.table) = {} /\ Current.types = {}
    BY <1>1 DEF Range
  <1>3. agps = (Mobile \in Current.types)
    <2>1. (Mobile \in Current.types) = FALSE
      BY <1>2
    <2> QED BY <1>1, <2>1, Zenon
  <1>4. Current.types = {TypeOf[n] : n \in Range(Current.table)}
    BY <1>2
  <1> QED BY <1>3, <1>4, Zenon DEF TypesInv

\* A network that goes takes its type along, for no other one has it.
LEMMA NextTypesInv ==
    ASSUME EachTypeOnce, NetworkInv, TypesInv, [NetworkNext]_networkVars
    PROVE  TypesInv'
  <1>1. CASE ProcNetwork
    <2> DEFINE r == Head(queue)
               item == Item(r)
    <2>1. QueueTypes /\ TInv
      BY DEF NetworkInv
    <2>2. /\ queue # << >> /\ r.type = "network"
          /\ \/ history' = history /\ agps' = agps
             \/ Current' = StatusOf(item) /\ agps' = (Mobile \in item.types)
      BY <1>1, <2>1, AfterReport
    <2>3. /\ r.network \in Networks /\ r.connected \in BOOLEAN
          /\ Range(item.table) = IF r.connected THEN Range(Current.table) \union {r.network}
                                 ELSE Range(Current.table) \ {r.network}
          /\ history = << >> => item.types = {TypeOf[r.network]} /\ r.connected
      BY <2>1, <2>2, ItemOfReport
    <2> HIDE DEF r
    <2>4. item.types = {TypeOf[m] : m \in Range(item.table)}
      <3>1. CASE history = << >>
        <4>1. Range(Current.table) = {}
          BY <2>1, <3>1, CurrentTypes DEF Range
        <4> QED BY <2>3, <3>1, <4>1
      <3>2. CASE history # << >>
        <4> DEFINE last == Last(history)
        <4>1. /\ last.table = Current.table /\ last.types = Current.types
              /\ Current.table \in Seq(Networks)
          BY <2>1, <3>2, CurrentTypes DEF StatusOf
        <4>2. item.types = IF r.connected THEN last.types \union {TypeOf[r.network]}
                           ELSE IF OthersOfType(last.table, r.network) = {}
                                THEN last.types \ {TypeOf[r.network]}
                                ELSE {TypeOf[r.network]}
          BY <3>2 DEF Item, Collate
        <4>3. Range(last.table) \subseteq Networks
          BY <4>1 DEF Range
        <4>4. OthersOfType(last.table, r.network) = {}
          BY <2>3, <4>3 DEF OthersOfType, EachTypeOnce
        <4>5. last.types = {TypeOf[m] : m \in Range(last.table)}
          BY <4>1 DEF TypesInv
        <4> HIDE DEF last, item
        <4>6. CASE r.connected
          BY <2>3, <4>1, <4>2, <4>5, <4>6
        <4>7. CASE ~r.connected
          <5>1. item.types = last.types \ {TypeOf[r.network]}
            BY <4>2, <4>4, <4>7
          <5>2. Range(item.table) = Range(last.table) \ {r.network}
            BY <2>3, <4>1, <4>7
          <5>3. \A m \in Range(last.table) : TypeOf[m] = TypeOf[r.network] <=> m = r.network
            BY <2>3, <4>3 DEF EachTypeOnce
          <5> QED BY <4>5, <5>1, <5>2, <5>3
        <4> QED BY <4>6, <4>7
      <3> QED BY <3>1, <3>2
    <2> HIDE DEF item
    <2>5. CASE history' = history /\ agps' = agps
      BY <2>5 DEF TypesInv, Current
    <2>6. CASE Current' = StatusOf(item) /\ agps' = (Mobile \in item.types)
      <3>1. Current'.types = item.types /\ Current'.table = item.table
        BY <2>6 DEF StatusOf
      <3> QED BY <2>4, <2>6, <3>1 DEF TypesInv
    <2> QED BY <2>2, <2>5, <2>6
  <1>2. CASE ~ProcNetwork
    <2>1. history' = history /\ agps' = agps
      BY <1>2 DEF NetworkNext, networkVars, observers, UpdateConnectionStatus, ServiceDied,
                  ResetNetworkInfo, ProcXtra, ProcRequest, DaemonStarts, DaemonAsks, DaemonDies
    <2> QED BY <2>1 DEF TypesInv, Current
  <1> QED BY <1>1, <1>2
-----------------------------------------------------------------------------
(* The results.                                                            *)

\* A daemon of the XTRA client that runs, with no message for or from it under way, knows the
\* table as it is, however its starts and requests fell between the reports.
THEOREM DaemonKnows == NetworkSpec => []DaemonInformed
  <1>1. NetworkInv => DaemonInformed
    BY NotPending DEF NetworkInv, DInv, DaemonInformed, Known
  <1> QED BY <1>1, SpecIInv, PTL

\* When every report is handled the table of SystemStatus has the networks that are connected,
\* and those that resetNetworkInfo did not come to, of whatever types they are.
THEOREM TableFollows == NetworkSpec => []TableIsOnline
  <1>1. NetworkInv => TableIsOnline
    <2> SUFFICES ASSUME NetworkInv, ~Pending("network") PROVE Range(Current.table) = Expected
      BY DEF TableIsOnline, Expected
    <2>1. \A n \in Networks : ~Holds(queue, About(n))
      BY NotPending, MessagesPosted DEF Holds, In
    <2>2. \A n \in Networks : n \in Expected <=> n \in Range(Current.table)
      BY <2>1 DEF NetworkInv, TInv, Followed
    <2>3. Expected \subseteq Networks
      BY DEF NetworkInv, TInv, Expected
    <2>4. Range(Current.table) \subseteq Networks
      BY CurrentTypes DEF NetworkInv, Range
    <2> QED BY <2>2, <2>3, <2>4
  <1> QED BY <1>1, SpecIInv, PTL

\* If no two networks are of one type, the types known are those of the table as well, and the
\* modem is offered a data connection exactly if there is a mobile network.
THEOREM NetworksFollowed ==
    ASSUME EachTypeOnce
    PROVE  NetworkSpec => []NetworksKnown
  <1>1. NetworkInv /\ TypesInv /\ [NetworkNext]_networkVars => TypesInv'
    BY NextTypesInv
  <1>2. TypesInv => TypesFollowTable
    BY DEF TypesInv, TypesFollowTable
  <1>3. TableIsOnline /\ TypesFollowTable => NetworksKnown
    BY DEF NetworksKnown
  <1> QED BY <1>1, <1>2, <1>3, InitTypesInv, SpecIInv, TableFollows, PTL DEF NetworkSpec

(***************************************************************************)
(* Agps                                                                    *)
(***************************************************************************)

USE DEF Nifs, States

\* What an event of a state machine may change.
MachineTypeOK ==
    /\ mState \in [Nifs -> States]
    /\ subs \in [Nifs -> [Handles -> {"none", "active", "inactive"}]]
    /\ msgs \in Seq(Messages)
    /\ inbox \in Seq({"request", "release"})
    /\ atl \in [Handles -> {"idle", "opening", "open", "closing"}]

\* The answers NativeAgpsHandler and the framework post are messages.
LEMMA AnswersAreMessages ==
    /\ \A n \in Nifs, t \in {"OpenSuccess", "PdnType", "OpenFailed", "Closed"} :
          [type |-> t, nif |-> n] \in Messages
    /\ \A h \in Handles, n \in Nifs :
          /\ [type |-> "RequestATL", handle |-> h, nif |-> n] \in Messages
          /\ [type |-> "ReleaseATL", handle |-> h] \in Messages
  BY DEF Messages

\* Posting a message keeps the queue well typed.
LEMMA PostedType ==
    ASSUME TypeOK
    PROVE  /\ \A t \in {"OpenSuccess", "PdnType", "OpenFailed", "Closed"} :
                FrameworkPost(t) => msgs' \in Seq(Messages)
           /\ \A h \in Handles, n \in Nifs :
                /\ Append(msgs, [type |-> "RequestATL", handle |-> h, nif |-> n])
                      \in Seq(Messages)
                /\ Append(msgs, [type |-> "ReleaseATL", handle |-> h]) \in Seq(Messages)
  <1>1. \A m \in Messages : Append(msgs, m) \in Seq(Messages)
    BY DEF TypeOK
  <1> QED BY <1>1, AnswersAreMessages, Zenon DEF FrameworkPost, Nifs

\* A message carries what its handler reads from it.
LEMMA MessageFields ==
    ASSUME NEW m \in Messages
    PROVE  /\ m.type = "RequestATL" => m.handle \in Handles /\ m.nif \in Nifs
           /\ m.type = "ReleaseATL" => m.handle \in Handles
           /\ m.type \in {"OpenSuccess", "PdnType", "OpenFailed", "Closed"} => m.nif \in Nifs
  BY DEF Messages

\* A call to, or no call to, the framework keeps the queues well typed.
LEMMA DataConnCallType ==
    ASSUME NEW n \in Nifs, NEW request \in BOOLEAN, NEW q \in Seq(Messages),
           inbox \in Seq({"request", "release"}),
           RequestOrReleaseDataConn(n, request, q) \/ NoDataConnCall(q)
    PROVE  msgs' \in Seq(Messages) /\ inbox' \in Seq({"request", "release"})
  <1>1. CASE NoDataConnCall(q)
    BY <1>1 DEF NoDataConnCall
  <1>2. CASE RequestOrReleaseDataConn(n, request, q)
    <2>1. \A a \in NativeAnswers(request) : a \in Seq(Messages)
      <3>1. \A m \in Messages : <<m>> \in Seq(Messages)
        OBVIOUS
      <3>2. \A a \in NativeAnswers(request) :
               a = << >> \/ \E t \in {"OpenSuccess", "OpenFailed", "Closed"} :
                              a = <<[type |-> t, nif |-> "INTERNET"]>>
        BY Zenon DEF NativeAnswers
      <3>3. << >> \in Seq(Messages)
        OBVIOUS
      <3> QED BY <3>1, <3>2, <3>3, AnswersAreMessages, Zenon
    <2>2. CASE n = "AGNSS"
      BY <1>2, <2>2 DEF RequestOrReleaseDataConn
    <2>3. CASE n = "INTERNET"
      <3>1. PICK a \in NativeAnswers(request) : msgs' = q \o a
        BY <1>2, <2>3 DEF RequestOrReleaseDataConn
      <3>2. a \in Seq(Messages)
        BY <2>1
      <3>3. inbox' = inbox
        BY <1>2, <2>3 DEF RequestOrReleaseDataConn
      <3> QED BY <3>1, <3>2, <3>3
    <2> QED BY <2>2, <2>3
  <1> QED BY <1>1, <1>2

\* What is told to the modem is one of its handle states.
LEMMA NotificationType ==
    ASSUME TypeOK, NEW S
    PROVE  /\ NotifyGranted(S) \in [Handles -> {"idle", "opening", "open", "closing"}]
           /\ NotifyDeniedOrReleased(S) \in [Handles -> {"idle", "opening", "open", "closing"}]
  BY DEF TypeOK, NotifyGranted, NotifyDeniedOrReleased

\* Adding and dropping subscribers leaves lists of handles.
LEMMA SubscriberListType ==
    ASSUME TypeOK, NEW n \in Nifs
    PROVE  /\ \A h \in Handles :
                AddSubscriber(n, h) \in [Nifs -> [Handles -> {"none", "active", "inactive"}]]
           /\ \A S : DropSubscribers(n, S)
                        \in [Nifs -> [Handles -> {"none", "active", "inactive"}]]
  BY DEF TypeOK, AddSubscriber, DropSubscribers

-----------------------------------------------------------------------------
(* Each event keeps the types.                                             *)

\* A request leaves the machine well typed.
LEMMA SubscribeType ==
    ASSUME TypeOK, NEW n \in Nifs, NEW h \in Handles, NEW q \in Seq(Messages),
           ProcessAgpsEventSubscribe(n, h, q)
    PROVE  MachineTypeOK'
  <1>1. mState' \in [Nifs -> States]
    BY DEF ProcessAgpsEventSubscribe, TypeOK
  <1>2. subs' \in [Nifs -> [Handles -> {"none", "active", "inactive"}]]
    BY SubscriberListType DEF ProcessAgpsEventSubscribe
  <1>3. msgs' \in Seq(Messages) /\ inbox' \in Seq({"request", "release"})
    BY DataConnCallType DEF ProcessAgpsEventSubscribe, TypeOK
  <1>4. atl' \in [Handles -> {"idle", "opening", "open", "closing"}]
    BY NotificationType DEF ProcessAgpsEventSubscribe, TypeOK
  <1> QED BY <1>1, <1>2, <1>3, <1>4 DEF MachineTypeOK

\* A release leaves the machine well typed.
LEMMA UnsubscribeType ==
    ASSUME TypeOK, NEW n \in Nifs, NEW h \in Handles, NEW q \in Seq(Messages),
           ProcessAgpsEventUnsubscribe(n, h, q)
    PROVE  MachineTypeOK'
  <1>1. mState' \in [Nifs -> States]
    <2>1. mState' = mState \/ mState' = [mState EXCEPT ![n] = "RELEASING"]
      BY Zenon DEF ProcessAgpsEventUnsubscribe
    <2> QED BY <2>1 DEF TypeOK
  <1>2. subs' \in [Nifs -> [Handles -> {"none", "active", "inactive"}]]
    <2>1. subs' = subs \/ subs' = [subs EXCEPT ![n][h] = "inactive"]
      BY Zenon DEF ProcessAgpsEventUnsubscribe
    <2>2. subs \in [Nifs -> [Handles -> {"none", "active", "inactive"}]]
      BY DEF TypeOK
    <2> QED BY <2>1, <2>2
  <1>3. msgs' \in Seq(Messages) /\ inbox' \in Seq({"request", "release"})
    BY DataConnCallType DEF ProcessAgpsEventUnsubscribe, TypeOK
  <1>4. atl' \in [Handles -> {"idle", "opening", "open", "closing"}]
    BY NotificationType DEF ProcessAgpsEventUnsubscribe, TypeOK
  <1> QED BY <1>1, <1>2, <1>3, <1>4 DEF MachineTypeOK

\* A granted connection leaves the machine well typed.
LEMMA GrantedType ==
    ASSUME TypeOK, NEW n \in Nifs, NEW q \in Seq(Messages), ProcessAgpsEventGranted(n, q)
    PROVE  MachineTypeOK'
  <1>1. mState' \in [Nifs -> States]
    BY DEF ProcessAgpsEventGranted, TypeOK
  <1>2. subs' \in [Nifs -> [Handles -> {"none", "active", "inactive"}]]
    BY DEF ProcessAgpsEventGranted, TypeOK
  <1>3. msgs' \in Seq(Messages) /\ inbox' \in Seq({"request", "release"})
    BY DataConnCallType DEF ProcessAgpsEventGranted, TypeOK
  <1>4. atl' \in [Handles -> {"idle", "opening", "open", "closing"}]
    BY NotificationType DEF ProcessAgpsEventGranted, TypeOK
  <1> QED BY <1>1, <1>2, <1>3, <1>4 DEF MachineTypeOK

\* The two ways RELEASED and DENIED take effect.
LEMMA DoneType ==
    ASSUME TypeOK, NEW n \in Nifs, NEW q \in Seq(Messages),
           ReleasingDone(n, q) \/ AllSubscribersDone(n, q)
    PROVE  MachineTypeOK'
  <1>1. mState' \in [Nifs -> States]
    BY DEF ReleasingDone, AllSubscribersDone, TypeOK
  <1>2. subs' \in [Nifs -> [Handles -> {"none", "active", "inactive"}]]
    <2>1. \E S : subs' = DropSubscribers(n, S)
      BY Zenon DEF ReleasingDone, AllSubscribersDone
    <2> QED BY <2>1, SubscriberListType, ZenonT(40)
  <1>3. msgs' \in Seq(Messages) /\ inbox' \in Seq({"request", "release"})
    BY DataConnCallType DEF ReleasingDone, AllSubscribersDone, TypeOK
  <1>4. atl' \in [Handles -> {"idle", "opening", "open", "closing"}]
    BY NotificationType DEF ReleasingDone, AllSubscribersDone
  <1> QED BY <1>1, <1>2, <1>3, <1>4 DEF MachineTypeOK

\* A lost or refused connection leaves the machine well typed.
LEMMA ReleasedOrDeniedType ==
    ASSUME TypeOK, NEW n \in Nifs, NEW q \in Seq(Messages),
           ProcessAgpsEventReleased(n, q) \/ ProcessAgpsEventDenied(n, q)
    PROVE  MachineTypeOK'
  <1>1. CASE ReleasingDone(n, q) \/ AllSubscribersDone(n, q)
    BY <1>1, DoneType
  <1>2. CASE NoDataConnCall(q) /\ UNCHANGED <<mState, subs, atl>>
    BY <1>2 DEF NoDataConnCall, TypeOK, MachineTypeOK
  <1> QED BY <1>1, <1>2 DEF ProcessAgpsEventReleased, ProcessAgpsEventDenied

-----------------------------------------------------------------------------
(* Type correctness.                                                       *)

\* A message received is a message, and so are those behind it.
LEMMA QueueHead ==
    ASSUME TypeOK, NEW t, Received(t)
    PROVE  /\ Head(msgs) \in Messages /\ Head(msgs).type = t
           /\ Tail(msgs) \in Seq(Messages)
  BY DEF TypeOK, Received

\* Every step keeps the types.
LEMMA TypeStep ==
    ASSUME TypeOK, [Next]_vars
    PROVE  TypeOK'
  <1> USE DEF external
  <1>1. CASE \E n \in Nifs : CreateAgpsStateMachine(n)
    BY <1>1 DEF CreateAgpsStateMachine, TypeOK
  <1>2. CASE \E n \in Nifs : ReportPdnTypeFromWds(n)
    <2>1. PICK n \in Nifs : ReportPdnTypeFromWds(n)
      BY <1>2
    <2>2. [type |-> "PdnType", nif |-> n] \in Messages
      BY AnswersAreMessages
    <2>3. wds' \in [Nifs -> Nat]
      BY <2>1 DEF ReportPdnTypeFromWds, TypeOK
    <2> QED BY <2>1, <2>2, <2>3 DEF ReportPdnTypeFromWds, TypeOK
  <1>3. CASE RequestATL
    <2>1. /\ Head(msgs).handle \in Handles /\ Head(msgs).nif \in Nifs
          /\ Tail(msgs) \in Seq(Messages)
      BY <1>3, QueueHead, MessageFields DEF RequestATL
    <2>2. CASE ProcessAgpsEventSubscribe(Head(msgs).nif, Head(msgs).handle, Tail(msgs))
      <3>1. MachineTypeOK'
        BY <2>1, <2>2, SubscribeType
      <3> QED BY <1>3, <3>1 DEF RequestATL, MachineTypeOK, TypeOK
    <2>3. CASE /\ atl' = NotifyDeniedOrReleased({Head(msgs).handle})
               /\ NoDataConnCall(Tail(msgs))
               /\ UNCHANGED <<mState, subs>>
      BY <1>3, <2>1, <2>3, NotificationType DEF RequestATL, NoDataConnCall, TypeOK
    <2> QED BY <1>3, <2>2, <2>3 DEF RequestATL
  <1>4. CASE ReleaseATL
    <2>1. Head(msgs).handle \in Handles /\ Tail(msgs) \in Seq(Messages)
      BY <1>4, QueueHead, MessageFields DEF ReleaseATL
    <2>2. CASE \E n \in Nifs : ProcessAgpsEventUnsubscribe(n, Head(msgs).handle, Tail(msgs))
      <3>1. MachineTypeOK'
        BY <2>1, <2>2, UnsubscribeType
      <3> QED BY <1>4, <3>1 DEF ReleaseATL, MachineTypeOK, TypeOK
    <2>3. CASE NoDataConnCall(Tail(msgs)) /\ UNCHANGED <<mState, subs, atl>>
      BY <1>4, <2>1, <2>3 DEF ReleaseATL, NoDataConnCall, TypeOK
    <2> QED BY <1>4, <2>2, <2>3 DEF ReleaseATL
  <1>5. CASE ReportAtlOpenSuccess
    <2>1. Head(msgs).nif \in Nifs /\ Tail(msgs) \in Seq(Messages)
      BY <1>5, QueueHead, MessageFields DEF ReportAtlOpenSuccess
    <2>2. CASE world.lookup
      <3>1. wds' \in [Nifs -> Nat]
        BY <1>5, <2>1, <2>2 DEF ReportAtlOpenSuccess, TypeOK
      <3> QED BY <1>5, <2>1, <2>2, <3>1 DEF ReportAtlOpenSuccess, NoDataConnCall, TypeOK
    <2>3. CASE ~world.lookup
      <3>1. MachineTypeOK'
        BY <1>5, <2>1, <2>3, GrantedType DEF ReportAtlOpenSuccess
      <3> QED BY <1>5, <2>3, <3>1 DEF ReportAtlOpenSuccess, MachineTypeOK, TypeOK
    <2> QED BY <2>2, <2>3
  <1>6. CASE ReportAtlPdn
    <2>1. Head(msgs).nif \in Nifs /\ Tail(msgs) \in Seq(Messages)
      BY <1>6, QueueHead, MessageFields DEF ReportAtlPdn
    <2>2. MachineTypeOK'
      BY <1>6, <2>1, GrantedType DEF ReportAtlPdn
    <2> QED BY <1>6, <2>2 DEF ReportAtlPdn, MachineTypeOK, TypeOK
  <1>7. CASE ReportAtlOpenFailed
    <2>1. Head(msgs).nif \in Nifs /\ Tail(msgs) \in Seq(Messages)
      BY <1>7, QueueHead, MessageFields DEF ReportAtlOpenFailed
    <2>2. MachineTypeOK'
      BY <1>7, <2>1, ReleasedOrDeniedType DEF ReportAtlOpenFailed
    <2> QED BY <1>7, <2>2 DEF ReportAtlOpenFailed, MachineTypeOK, TypeOK
  <1>8. CASE ReportAtlClosed
    <2>1. Head(msgs).nif \in Nifs /\ Tail(msgs) \in Seq(Messages)
      BY <1>8, QueueHead, MessageFields DEF ReportAtlClosed
    <2>2. MachineTypeOK'
      BY <1>8, <2>1, ReleasedOrDeniedType DEF ReportAtlClosed
    <2> QED BY <1>8, <2>2 DEF ReportAtlClosed, MachineTypeOK, TypeOK
  <1>9. CASE FrameworkRequest
    BY <1>9 DEF FrameworkRequest, TypeOK
  <1>10. CASE FrameworkRelease
    <2>1. msgs' \in Seq(Messages)
      BY <1>10, PostedType DEF FrameworkRelease, TypeOK
    <2> QED BY <1>10, <2>1 DEF FrameworkRelease, TypeOK
  <1>11. CASE DataConnOpenLongApn
    <2>1. MachineTypeOK'
      BY <1>11, ReleasedOrDeniedType DEF DataConnOpenLongApn, TypeOK
    <2> QED BY <1>11, <2>1 DEF DataConnOpenLongApn, MachineTypeOK, TypeOK
  <1>12. CASE DataConnOpen \/ DataConnFailed \/ DataConnLost
    <2>1. msgs' \in Seq(Messages)
      BY <1>12, PostedType DEF DataConnOpen, DataConnFailed, DataConnLost
    <2> QED BY <1>12, <2>1 DEF DataConnOpen, DataConnFailed, DataConnLost, TypeOK
  <1>13. CASE NetworkInfo
    BY <1>13 DEF NetworkInfo, TypeOK
  <1>14. CASE \E h \in Handles, n \in Nifs : ModemOpen(h, n)
    <2>1. PICK h \in Handles, n \in Nifs : ModemOpen(h, n)
      BY <1>14
    <2>2. msgs' \in Seq(Messages)
      BY <2>1, PostedType DEF ModemOpen
    <2> QED BY <2>1, <2>2 DEF ModemOpen, TypeOK
  <1>15. CASE \E h \in Handles : ModemClose(h)
    <2>1. PICK h \in Handles : ModemClose(h)
      BY <1>15
    <2>2. msgs' \in Seq(Messages)
      BY <2>1, PostedType DEF ModemClose
    <2> QED BY <2>1, <2>2 DEF ModemClose, TypeOK
  <1>16. CASE UNCHANGED vars
    BY <1>16 DEF vars, TypeOK
  <1> QED
    BY <1>1, <1>2, <1>3, <1>4, <1>5, <1>6, <1>7, <1>8, <1>9, <1>10, <1>11, <1>12,
       <1>13, <1>14, <1>15, <1>16
    DEF Next, ProcessMessage, Framework

\* The types hold at first.
LEMMA TypeInit == Init => TypeOK
  BY DEF Init, TypeOK

\* Type correctness: the queue only holds messages, the lists only hold handles
\* with a known status, the lookups under way are never counted below zero.
THEOREM TypeCorrect == Spec => []TypeOK
  BY TypeInit, TypeStep, PTL DEF Spec

-----------------------------------------------------------------------------
(* The subscriber list and the state of a state machine agree.  One lemma  *)
(* per event; the event only touches state machine n.                      *)

\* SubscribersMatchState for one state machine.
Matches(n) ==
    /\ mState[n] = "RELEASED" => Subscribers(n) = {}
    /\ mState[n] \in {"PENDING", "ACQUIRED"} => ActiveSubscribers(n) # {}
    /\ mState[n] = "RELEASING" => InactiveSubscribers(n) # {}

\* Only state machine n may have changed.
OnlyMachine(n) ==
    \A o \in Nifs \ {n} : mState'[o] = mState[o] /\ subs'[o] = subs[o]

\* A step of one machine leaves the lists of the others alone.
LEMMA MatchesElsewhere ==
    ASSUME SubscribersMatchState, NEW n \in Nifs, OnlyMachine(n), Matches(n)'
    PROVE  SubscribersMatchState'
  <1> SUFFICES ASSUME NEW o \in Nifs PROVE Matches(o)'
    BY DEF SubscribersMatchState, Matches
  <1>1. CASE o = n
    BY <1>1
  <1>2. CASE o # n
    BY <1>2 DEF OnlyMachine, SubscribersMatchState, Matches,
                Subscribers, ActiveSubscribers, InactiveSubscribers
  <1> QED BY <1>1, <1>2

\* A request keeps the list in step with the state.
LEMMA SubscribeMatches ==
    ASSUME TypeOK, SubscribersMatchState, NEW n \in Nifs, NEW h \in Handles, NEW q,
           ProcessAgpsEventSubscribe(n, h, q)
    PROVE  SubscribersMatchState'
  <1>1. /\ subs' = AddSubscriber(n, h)
        /\ mState[n] = "RELEASED" => mState' = [mState EXCEPT ![n] = "PENDING"]
        /\ mState[n] # "RELEASED" => mState' = mState
    BY Zenon DEF ProcessAgpsEventSubscribe
  <1>2. OnlyMachine(n)
    BY <1>1 DEF OnlyMachine, AddSubscriber, TypeOK
  <1>3. /\ subs'[n][h] # "none"
        /\ subs[n][h] = "none" => subs'[n][h] = "active"
        /\ \A g \in Handles : subs[n][g] # "none" => subs'[n][g] = subs[n][g]
    BY <1>1 DEF AddSubscriber, TypeOK
  <1>4. CASE mState[n] = "RELEASED"
    <2>1. subs'[n][h] = "active"
      BY <1>3, <1>4 DEF SubscribersMatchState, Subscribers
    <2>2. mState'[n] = "PENDING"
      BY <1>1, <1>4 DEF TypeOK
    <2> QED BY <1>2, <2>1, <2>2, MatchesElsewhere DEF Matches, ActiveSubscribers
  <1>5. CASE mState[n] \in {"PENDING", "ACQUIRED"}
    <2>1. PICK g \in Handles : subs[n][g] = "active"
      BY <1>5 DEF SubscribersMatchState, ActiveSubscribers
    <2>2. subs'[n][g] = "active" /\ mState'[n] = mState[n]
      BY <1>1, <1>3, <1>5, <2>1
    <2> QED BY <1>2, <1>5, <2>2, MatchesElsewhere DEF Matches, ActiveSubscribers
  <1>6. CASE mState[n] = "RELEASING"
    <2>1. PICK g \in Handles : subs[n][g] = "inactive"
      BY <1>6 DEF SubscribersMatchState, InactiveSubscribers
    <2>2. subs'[n][g] = "inactive" /\ mState'[n] = mState[n]
      BY <1>1, <1>3, <1>6, <2>1
    <2> QED BY <1>2, <1>6, <2>2, MatchesElsewhere DEF Matches, InactiveSubscribers
  <1> QED BY <1>4, <1>5, <1>6 DEF TypeOK

\* The unsubscribing handle is in the list (releaseATL looked it up).
LEMMA UnsubscribeMatches ==
    ASSUME TypeOK, SubscribersMatchState, NEW n \in Nifs, NEW h \in Subscribers(n), NEW q,
           ProcessAgpsEventUnsubscribe(n, h, q)
    PROVE  SubscribersMatchState'
  <1>1. h \in Handles /\ mState[n] # "RELEASED"
    BY DEF Subscribers, SubscribersMatchState
  <1>2. /\ subs' = [subs EXCEPT ![n][h] = "inactive"]
        /\ \/ mState' = mState
           \/ mState' = [mState EXCEPT ![n] = "RELEASING"]
        /\ mState[n] \in {"PENDING", "ACQUIRED"} /\ mState' = mState =>
              \/ ~(ActiveSubscribers(n) \subseteq {h})
              \/ mState' = [mState EXCEPT ![n] = "RELEASING"]
    BY <1>1, Zenon DEF ProcessAgpsEventUnsubscribe
  <1>3. OnlyMachine(n)
    BY <1>2 DEF OnlyMachine, TypeOK
  <1>4. subs'[n][h] = "inactive" /\ \A g \in Handles \ {h} : subs'[n][g] = subs[n][g]
    BY <1>1, <1>2 DEF TypeOK
  <1>5. CASE mState'[n] = "RELEASING"
    BY <1>1, <1>3, <1>4, <1>5, MatchesElsewhere DEF Matches, InactiveSubscribers
  <1>6. CASE mState'[n] # "RELEASING"
    <2>1. mState' = mState /\ mState[n] \in {"PENDING", "ACQUIRED"}
      BY <1>1, <1>2, <1>6 DEF TypeOK
    <2>2. mState' # [mState EXCEPT ![n] = "RELEASING"]
      BY <1>6 DEF TypeOK
    <2>3. PICK g \in Handles : subs[n][g] = "active" /\ g # h
      BY <1>2, <2>1, <2>2 DEF ActiveSubscribers
    <2>4. subs'[n][g] = "active"
      BY <1>4, <2>3
    <2> QED BY <1>3, <2>1, <2>4, MatchesElsewhere DEF Matches, ActiveSubscribers
  <1> QED BY <1>5, <1>6

\* A granted connection keeps the list in step with the state.
LEMMA GrantedMatches ==
    ASSUME TypeOK, SubscribersMatchState, NEW n \in Nifs, NEW q,
           ProcessAgpsEventGranted(n, q)
    PROVE  SubscribersMatchState'
  <1>1. subs' = subs
    BY DEF ProcessAgpsEventGranted
  <1>2. \/ mState' = mState
        \/ mState[n] = "PENDING" /\ mState' = [mState EXCEPT ![n] = "ACQUIRED"]
    BY Zenon DEF ProcessAgpsEventGranted
  <1> QED BY <1>1, <1>2
          DEF TypeOK, SubscribersMatchState, Subscribers, ActiveSubscribers,
              InactiveSubscribers

\* The end of a connection keeps the list in step with the state.
LEMMA DoneMatches ==
    ASSUME TypeOK, SubscribersMatchState, NEW n \in Nifs, NEW q,
           ReleasingDone(n, q) \/ AllSubscribersDone(n, q)
    PROVE  SubscribersMatchState'
  <1>1. CASE ReleasingDone(n, q)
    <2>1. /\ subs' = DropSubscribers(n, InactiveSubscribers(n))
          /\ ActiveSubscribers(n) # {} => mState' = [mState EXCEPT ![n] = "PENDING"]
          /\ ActiveSubscribers(n) = {} => mState' = [mState EXCEPT ![n] = "RELEASED"]
      BY <1>1, Zenon DEF ReleasingDone
    <2>2. OnlyMachine(n)
      BY <2>1 DEF OnlyMachine, DropSubscribers, TypeOK
    <2>3. \A g \in Handles : subs'[n][g] = IF subs[n][g] = "inactive" THEN "none"
                                             ELSE subs[n][g]
      BY <2>1 DEF DropSubscribers, InactiveSubscribers, TypeOK
    <2>4. CASE ActiveSubscribers(n) # {}
      <3>1. mState'[n] = "PENDING"
        BY <2>1, <2>4 DEF TypeOK
      <3>2. PICK g \in Handles : subs[n][g] = "active"
        BY <2>4 DEF ActiveSubscribers
      <3>3. subs'[n][g] = "active"
        BY <2>3, <3>2
      <3> QED BY <2>2, <3>1, <3>3, MatchesElsewhere DEF Matches, ActiveSubscribers
    <2>5. CASE ActiveSubscribers(n) = {}
      <3>1. mState'[n] = "RELEASED"
        BY <2>1, <2>5 DEF TypeOK
      <3>2. \A g \in Handles : subs'[n][g] = "none"
        BY <2>3, <2>5 DEF ActiveSubscribers, TypeOK
      <3> QED BY <2>2, <3>1, <3>2, MatchesElsewhere DEF Matches, Subscribers
    <2> QED BY <2>4, <2>5
  <1>2. CASE AllSubscribersDone(n, q)
    <2>1. /\ subs' = DropSubscribers(n, Subscribers(n))
          /\ mState' = [mState EXCEPT ![n] = "RELEASED"]
      BY <1>2, Zenon DEF AllSubscribersDone
    <2>2. OnlyMachine(n)
      BY <2>1 DEF OnlyMachine, DropSubscribers, TypeOK
    <2>3. mState'[n] = "RELEASED" /\ \A g \in Handles : subs'[n][g] = "none"
      BY <2>1 DEF DropSubscribers, Subscribers, TypeOK
    <2> QED BY <2>2, <2>3, MatchesElsewhere DEF Matches, Subscribers
  <1> QED BY <1>1, <1>2

\* Steps that leave the state machines alone.
LEMMA UnchangedMatches ==
    ASSUME SubscribersMatchState, UNCHANGED <<mState, subs>>
    PROVE  SubscribersMatchState'
  BY DEF SubscribersMatchState, Subscribers, ActiveSubscribers, InactiveSubscribers

\* Every step keeps the lists in step with the states.
LEMMA MatchStep ==
    ASSUME TypeOK, SubscribersMatchState, [Next]_vars
    PROVE  SubscribersMatchState'
  <1>1. CASE RequestATL
    <2>1. Head(msgs).handle \in Handles /\ Head(msgs).nif \in Nifs
      BY <1>1, QueueHead, MessageFields DEF RequestATL
    <2> QED BY <1>1, <2>1, SubscribeMatches, UnchangedMatches DEF RequestATL
  <1>2. CASE ReleaseATL
    BY <1>2, UnsubscribeMatches, UnchangedMatches DEF ReleaseATL
  <1>3. CASE ReportAtlOpenSuccess
    <2>1. Head(msgs).nif \in Nifs
      BY <1>3, QueueHead, MessageFields DEF ReportAtlOpenSuccess
    <2> QED BY <1>3, <2>1, GrantedMatches, UnchangedMatches DEF ReportAtlOpenSuccess
  <1>4. CASE ReportAtlPdn
    <2>1. Head(msgs).nif \in Nifs
      BY <1>4, QueueHead, MessageFields DEF ReportAtlPdn
    <2> QED BY <1>4, <2>1, GrantedMatches DEF ReportAtlPdn
  <1>5. CASE ReportAtlOpenFailed
    <2>1. Head(msgs).nif \in Nifs
      BY <1>5, QueueHead, MessageFields DEF ReportAtlOpenFailed
    <2> QED BY <1>5, <2>1, DoneMatches, UnchangedMatches
            DEF ReportAtlOpenFailed, ProcessAgpsEventDenied
  <1>6. CASE ReportAtlClosed
    <2>1. Head(msgs).nif \in Nifs
      BY <1>6, QueueHead, MessageFields DEF ReportAtlClosed
    <2> QED BY <1>6, <2>1, DoneMatches, UnchangedMatches
            DEF ReportAtlClosed, ProcessAgpsEventReleased
  <1>7. CASE DataConnOpenLongApn
    BY <1>7, DoneMatches, UnchangedMatches
    DEF DataConnOpenLongApn, ProcessAgpsEventReleased
  <1>8. CASE \/ \E n \in Nifs : CreateAgpsStateMachine(n) \/ ReportPdnTypeFromWds(n)
             \/ FrameworkRequest \/ FrameworkRelease \/ DataConnOpen \/ DataConnFailed
             \/ DataConnLost \/ NetworkInfo
             \/ \E h \in Handles : ModemClose(h) \/ \E n \in Nifs : ModemOpen(h, n)
             \/ UNCHANGED vars
    BY <1>8, UnchangedMatches
    DEF CreateAgpsStateMachine, ReportPdnTypeFromWds, FrameworkRequest, FrameworkRelease,
        DataConnOpen, DataConnFailed, DataConnLost, NetworkInfo, ModemClose, ModemOpen, vars
  <1> QED BY <1>1, <1>2, <1>3, <1>4, <1>5, <1>6, <1>7, <1>8
          DEF Next, ProcessMessage, Framework

\* The subscriber list is empty in RELEASED, holds somebody to notify while the
\* connection is asked for or held, and somebody waiting for the close while it
\* is given back: for every number of handles and every order of the framework's
\* answers.
THEOREM SubscribersAgree == Spec => []SubscribersMatchState
  <1>1. Init => SubscribersMatchState
    BY DEF Init, SubscribersMatchState, Subscribers
  <1>2. TypeOK /\ SubscribersMatchState /\ [Next]_vars => SubscribersMatchState'
    BY MatchStep
  <1> QED BY <1>1, <1>2, TypeCorrect, PTL DEF Spec

-----------------------------------------------------------------------------
(* An open handle is served.  The queue is first in, first out, so a       *)
(* release that was posted before a handle was opened again is handled     *)
(* before the request of that opening: it finds nobody to unsubscribe.     *)

\* Message i of q asks for, or gives back, the connection of handle h.
AsksAt(q, i, h) == i \in 1..Len(q) /\ q[i].type = "RequestATL" /\ q[i].handle = h
GivesAt(q, i, h) == i \in 1..Len(q) /\ q[i].type = "ReleaseATL" /\ q[i].handle = h

Asked(q, h) == \E i \in Nat : AsksAt(q, i, h)
AskedOnce(q, h) == \A i, j \in Nat : AsksAt(q, i, h) /\ AsksAt(q, j, h) => i = j
NotGiven(q, h) == \A i \in Nat : ~GivesAt(q, i, h)

\* What is given back in q was asked for earlier than the last request.
GivenBefore(q, h) == \A i \in Nat : GivesAt(q, i, h) => \E j \in Nat : AsksAt(q, j, h) /\ i < j

Unsubscribed(h) == \A n \in Nifs : subs[n][h] = "none"
OneMachine(h) == \A n, o \in Nifs : subs[n][h] # "none" /\ subs[o][h] # "none" => n = o
Served(h) == \E n \in Nifs : mState[n] = "ACQUIRED" /\ subs[n][h] = "active"

\* What the queue, the lists and the modem know of a handle.
HandleInv(h) ==
    /\ AskedOnce(msgs, h)
    /\ Asked(msgs, h) => Unsubscribed(h) /\ atl[h] \in {"opening", "closing"}
    /\ OneMachine(h)
    /\ atl[h] = "idle" => Unsubscribed(h)
    /\ atl[h] = "opening" => GivenBefore(msgs, h)
    /\ atl[h] = "open" => NotGiven(msgs, h) /\ Served(h)

HandlesInv == \A h \in Handles : HandleInv(h)

\* Messages about no handle: the answers.
Answers == {m \in Messages : m.type \notin {"RequestATL", "ReleaseATL"}}

\* The messages of q, without the first when it was taken, and answers behind them.
Follows(r, q, taken) ==
    \E a \in Seq(Answers) : r = (IF taken THEN Tail(q) ELSE q) \o a

\* What r says of h at place i is what q says of it at place i + k.
ShiftedAt(r, q, k, h, i) == /\ AsksAt(r, i, h) <=> i > 0 /\ AsksAt(q, i + k, h)
                            /\ GivesAt(r, i, h) <=> i > 0 /\ GivesAt(q, i + k, h)
Shifted(r, q, k, h) == \A i \in Nat : ShiftedAt(r, q, k, h, i)

\* Taking the first message and posting answers: what is about h stays, one place further
\* to the front, but for the first message.
LEMMA FollowsShifts ==
    ASSUME NEW q \in Seq(Messages), NEW r, NEW taken \in BOOLEAN, Follows(r, q, taken),
           taken => q # << >>, NEW h
    PROVE  \E k \in {0, 1} : (k = 1 <=> taken) /\ Shifted(r, q, k, h)
  <1>1. PICK a \in Seq(Answers) : r = (IF taken THEN Tail(q) ELSE q) \o a
    BY DEF Follows
  <1>2. \A i \in 1..Len(a) : a[i].type \notin {"RequestATL", "ReleaseATL"}
    BY DEF Answers
  <1>3. a \in Seq(Messages)
    BY DEF Answers
  <1>4. CASE taken
    <2>1. /\ Len(r) = Len(q) - 1 + Len(a)
          /\ \A i \in 1..Len(q) - 1 : r[i] = q[i + 1]
          /\ \A i \in 1..Len(a) : r[Len(q) - 1 + i] = a[i]
      BY <1>1, <1>3, <1>4
    <2>2. \A i \in Nat : i \in 1..Len(r) /\ i \notin 1..Len(q) - 1 =>
             /\ i - (Len(q) - 1) \in 1..Len(a)
             /\ r[i] = a[i - (Len(q) - 1)]
      BY <2>1, <1>3, <1>4
    <2>3. Shifted(r, q, 1, h)
      <3> SUFFICES ASSUME NEW i \in Nat PROVE ShiftedAt(r, q, 1, h, i)
        BY DEF Shifted
      <3>1. CASE i \in 1..Len(q) - 1
        <4>1. i \in 1..Len(r) /\ i + 1 \in 1..Len(q) /\ i > 0 /\ r[i] = q[i + 1]
          BY <1>3, <1>4, <2>1, <3>1
        <4> QED BY <4>1, Zenon DEF ShiftedAt, AsksAt, GivesAt
      <3>2. CASE i \notin 1..Len(q) - 1
        <4>1. i > 0 => i + 1 \notin 1..Len(q)
          BY <1>4, <3>2
        <4>2. i \in 1..Len(r) => r[i].type \notin {"RequestATL", "ReleaseATL"}
          BY <1>2, <2>2, <3>2
        <4> QED BY <4>1, <4>2 DEF ShiftedAt, AsksAt, GivesAt
      <3> QED BY <3>1, <3>2
    <2> QED BY <1>4, <2>3
  <1>5. CASE ~taken
    <2>1. /\ Len(r) = Len(q) + Len(a)
          /\ \A i \in 1..Len(q) : r[i] = q[i]
          /\ \A i \in 1..Len(a) : r[Len(q) + i] = a[i]
      BY <1>1, <1>3, <1>5
    <2>2. \A i \in Nat : i \in 1..Len(r) /\ i \notin 1..Len(q) =>
             i - Len(q) \in 1..Len(a) /\ r[i] = a[i - Len(q)]
      BY <2>1, <1>3, <1>5
    <2>3. Shifted(r, q, 0, h)
      <3> SUFFICES ASSUME NEW i \in Nat PROVE ShiftedAt(r, q, 0, h, i)
        BY DEF Shifted
      <3>1. i + 0 = i
        OBVIOUS
      <3>2. CASE i \in 1..Len(q)
        <4>1. i \in 1..Len(r) /\ i > 0 /\ r[i] = q[i]
          BY <1>3, <2>1, <3>2
        <4> QED BY <3>1, <3>2, <4>1, Zenon DEF ShiftedAt, AsksAt, GivesAt
      <3>3. CASE i \notin 1..Len(q)
        <4>1. i \in 1..Len(r) => r[i].type \notin {"RequestATL", "ReleaseATL"}
          BY <1>2, <2>2, <3>3
        <4> QED BY <3>1, <3>3, <4>1 DEF ShiftedAt, AsksAt, GivesAt
      <3> QED BY <3>2, <3>3
    <2> QED BY <1>5, <2>3
  <1> QED BY <1>4, <1>5

\* So what was true of the requests and releases stays true, and when the request itself is
\* taken there is neither left.
LEMMA FollowsKeeps ==
    ASSUME NEW q \in Seq(Messages), NEW r, NEW taken \in BOOLEAN, Follows(r, q, taken),
           taken => q # << >>, NEW h, AskedOnce(q, h)
    PROVE  /\ AskedOnce(r, h)
           /\ Asked(r, h) => Asked(q, h)
           /\ NotGiven(q, h) => NotGiven(r, h)
           /\ GivenBefore(q, h) /\ ~(taken /\ AsksAt(q, 1, h)) => GivenBefore(r, h)
           /\ taken /\ AsksAt(q, 1, h) =>
                 ~Asked(r, h) /\ (GivenBefore(q, h) => NotGiven(r, h))
  <1>1. PICK k \in {0, 1} : (k = 1 <=> taken) /\ Shifted(r, q, k, h)
    BY FollowsShifts
  <1>2. \A i \in Nat : /\ i + k \in Nat
                       /\ AsksAt(r, i, h) => i > 0 /\ AsksAt(q, i + k, h)
                       /\ GivesAt(r, i, h) => i > 0 /\ GivesAt(q, i + k, h)
    BY <1>1 DEF Shifted, ShiftedAt
  <1>3. AskedOnce(r, h)
    <2>1. SUFFICES ASSUME NEW i \in Nat, NEW j \in Nat, AsksAt(r, i, h), AsksAt(r, j, h)
                   PROVE  i = j
      BY DEF AskedOnce
    <2>2. i + k = j + k
      BY <1>2, <2>1 DEF AskedOnce
    <2> QED BY <2>2
  <1>4. Asked(r, h) => Asked(q, h)
    BY <1>2 DEF Asked
  <1>5. NotGiven(q, h) => NotGiven(r, h)
    BY <1>2 DEF NotGiven
  <1>6. ASSUME GivenBefore(q, h), ~(taken /\ AsksAt(q, 1, h)) PROVE GivenBefore(r, h)
    <2>1. SUFFICES ASSUME NEW i \in Nat, GivesAt(r, i, h)
                   PROVE  \E j \in Nat : AsksAt(r, j, h) /\ i < j
      BY DEF GivenBefore
    <2>2. PICK j \in Nat : AsksAt(q, j, h) /\ i + k < j
      BY <1>2, <1>6, <2>1 DEF GivenBefore
    <2>3. j - k \in Nat /\ i < j - k /\ j - k > 0 /\ (j - k) + k = j
      BY <2>2
    <2>4. AsksAt(r, j - k, h)
      BY <1>1, <2>2, <2>3 DEF Shifted, ShiftedAt
    <2> QED BY <2>3, <2>4
  <1>7. ASSUME taken, AsksAt(q, 1, h)
        PROVE  ~Asked(r, h) /\ (GivenBefore(q, h) => NotGiven(r, h))
    <2>1. \A j \in Nat : AsksAt(q, j, h) => j = 1
      BY <1>7 DEF AskedOnce
    <2>2. \A i \in Nat : i > 0 => i + k # 1 /\ ~(i + k < 1)
      BY <1>1, <1>7
    <2>3. ~Asked(r, h)
      BY <1>2, <2>1, <2>2 DEF Asked
    <2>4. GivenBefore(q, h) => NotGiven(r, h)
      BY <1>2, <2>1, <2>2 DEF GivenBefore, NotGiven
    <2> QED BY <2>3, <2>4
  <1> QED BY <1>3, <1>4, <1>5, <1>6, <1>7

\* What an event does to handle h if it is not about h: nothing; an active subscriber is told
\* that it is open; a subscriber is told that it is not, and dropped.
Spared(h) ==
    /\ \A n \in Nifs : subs'[n][h] = subs[n][h]
    /\ atl'[h] = atl[h]
    /\ Served(h) => Served(h)'
Opened(h) ==
    /\ \A n \in Nifs : subs'[n][h] = subs[n][h]
    /\ ~Unsubscribed(h)
    /\ atl[h] = "opening" /\ atl'[h] = "open" /\ Served(h)'
Ended(h) == ~Unsubscribed(h) /\ Unsubscribed(h)' /\ atl'[h] = "idle"

\* No event about others, with the messages posted in it, breaks what is known of h.
LEMMA EventKeepsHandle ==
    ASSUME TypeOK, NEW h \in Handles, HandleInv(h), Spared(h) \/ Opened(h) \/ Ended(h),
           NEW taken \in BOOLEAN, Follows(msgs', msgs, taken), taken => msgs # << >>,
           taken => ~AsksAt(msgs, 1, h)
    PROVE  HandleInv(h)'
  <1>1. /\ AskedOnce(msgs', h)
        /\ Asked(msgs', h) => Asked(msgs, h)
        /\ NotGiven(msgs, h) => NotGiven(msgs', h)
        /\ GivenBefore(msgs, h) => GivenBefore(msgs', h)
    BY FollowsKeeps DEF TypeOK, HandleInv
  <1>2. CASE Spared(h)
    <2>1. Unsubscribed(h)' <=> Unsubscribed(h)
      BY <1>2 DEF Spared, Unsubscribed
    <2>2. OneMachine(h)' <=> OneMachine(h)
      BY <1>2 DEF Spared, OneMachine
    <2> QED BY <1>1, <1>2, <2>1, <2>2, Zenon DEF HandleInv, Spared
  <1>3. CASE Opened(h)
    <2>1. ~Asked(msgs, h) /\ GivenBefore(msgs, h)
      BY <1>3 DEF Opened, HandleInv
    <2>2. NotGiven(msgs, h)
      BY <2>1 DEF Asked, GivenBefore, NotGiven
    <2>3. OneMachine(h)'
      BY <1>3 DEF Opened, OneMachine, HandleInv
    <2>4. atl'[h] = "open" /\ Served(h)'
      BY <1>3 DEF Opened
    <2> QED BY <1>1, <2>1, <2>2, <2>3, <2>4 DEF HandleInv
  <1>4. CASE Ended(h)
    <2>1. ~Asked(msgs, h)
      BY <1>4 DEF Ended, HandleInv
    <2>2. OneMachine(h)'
      BY <1>4 DEF Ended, OneMachine, Unsubscribed
    <2>3. atl'[h] = "idle" /\ Unsubscribed(h)'
      BY <1>4 DEF Ended
    <2> QED BY <1>1, <2>1, <2>2, <2>3 DEF HandleInv
  <1> QED BY <1>2, <1>3, <1>4

\* A call to, or no call to, the framework posts answers only.
LEMMA DataConnCallFollows ==
    ASSUME NEW n \in Nifs, NEW request \in BOOLEAN, NEW taken \in BOOLEAN, TypeOK,
           LET q == IF taken THEN Tail(msgs) ELSE msgs
           IN  RequestOrReleaseDataConn(n, request, q) \/ NoDataConnCall(q),
           taken => msgs # << >>
    PROVE  Follows(msgs', msgs, taken)
  <1> DEFINE q == IF taken THEN Tail(msgs) ELSE msgs
  <1>0. q \in Seq(Messages) /\ q = q \o << >> /\ << >> \in Seq(Answers)
    BY DEF TypeOK
  <1>1. CASE msgs' = q
    BY <1>0, <1>1 DEF Follows
  <1>2. CASE \E a \in NativeAnswers(request) : msgs' = q \o a
    <2>1. PICK a \in NativeAnswers(request) : msgs' = q \o a
      BY <1>2
    <2>2. \/ a = << >>
          \/ \E t \in {"OpenSuccess", "OpenFailed", "Closed"} :
                a = <<[type |-> t, nif |-> "INTERNET"]>>
      BY Zenon DEF NativeAnswers
    <2>3. \A t \in {"OpenSuccess", "OpenFailed", "Closed"} :
             [type |-> t, nif |-> "INTERNET"] \in Answers
      BY AnswersAreMessages DEF Answers
    <2>4. \A m \in Answers : <<m>> \in Seq(Answers)
      OBVIOUS
    <2>5. a \in Seq(Answers)
      BY <1>0, <2>2, <2>3, <2>4, Zenon
    <2> QED BY <2>1, <2>5 DEF Follows
  <1> QED BY <1>1, <1>2 DEF RequestOrReleaseDataConn, NoDataConnCall

\* A connection granted, lost or refused, at machine n.
LEMMA ConnectionEvent ==
    ASSUME TypeOK, SubscribersMatchState, HandlesInv, NEW n \in Nifs, NEW q,
           \/ ProcessAgpsEventGranted(n, q)
           \/ ProcessAgpsEventReleased(n, q)
           \/ ProcessAgpsEventDenied(n, q),
           NEW h \in Handles
    PROVE  Spared(h) \/ Opened(h) \/ Ended(h)
  <1> USE DEF Spared, Opened, Ended
  <1>1. CASE UNCHANGED <<mState, subs, atl>>
    BY <1>1 DEF Served
  <1>2. CASE mState[n] = "PENDING" /\ ProcessAgpsEventGranted(n, q)
    <2>1. /\ subs' = subs
          /\ mState' = [mState EXCEPT ![n] = "ACQUIRED"]
          /\ atl' = NotifyGranted(ActiveSubscribers(n))
      BY <1>2 DEF ProcessAgpsEventGranted
    <2>2. mState'[n] = "ACQUIRED" /\ \A o \in Nifs \ {n} : mState'[o] = mState[o]
      BY <2>1 DEF TypeOK
    <2>3. Served(h) => Served(h)'
      BY <1>2, <2>1, <2>2 DEF Served
    <2>4. CASE subs[n][h] = "active" /\ atl[h] = "opening"
      <3>1. atl'[h] = "open"
        BY <2>1, <2>4 DEF NotifyGranted, ActiveSubscribers
      <3> QED BY <2>1, <2>2, <2>4, <3>1 DEF Served, Unsubscribed
    <2>5. CASE ~(subs[n][h] = "active" /\ atl[h] = "opening")
      <3>1. atl'[h] = atl[h]
        BY <2>1, <2>5 DEF NotifyGranted, ActiveSubscribers
      <3> QED BY <2>1, <2>3, <3>1
    <2> QED BY <2>4, <2>5
  <1>3. CASE \/ mState[n] = "RELEASING" /\ ReleasingDone(n, q)
             \/ AllSubscribersDone(n, q)
    <2>1. PICK S \in {InactiveSubscribers(n), Subscribers(n)} :
             /\ subs' = DropSubscribers(n, S)
             /\ atl' = NotifyDeniedOrReleased(S)
             /\ \A o \in Nifs \ {n} : mState'[o] = mState[o]
             /\ mState[n] = "ACQUIRED" => S = Subscribers(n)
      BY <1>3 DEF ReleasingDone, AllSubscribersDone, TypeOK
    <2>2. S \subseteq Subscribers(n)
      BY DEF InactiveSubscribers, Subscribers
    <2>3. \A g \in Handles : /\ subs'[n][g] = IF g \in S THEN "none" ELSE subs[n][g]
                             /\ \A o \in Nifs \ {n} : subs'[o][g] = subs[o][g]
                             /\ atl'[g] = IF g \in S THEN "idle" ELSE atl[g]
      BY <2>1 DEF DropSubscribers, NotifyDeniedOrReleased, TypeOK
    <2>4. CASE h \in S
      <3>1. \A o \in Nifs \ {n} : subs[o][h] = "none"
        BY <2>2, <2>4 DEF HandlesInv, HandleInv, OneMachine, Subscribers
      <3> QED BY <2>2, <2>3, <2>4, <3>1 DEF Unsubscribed, Subscribers
    <2>5. CASE h \notin S
      <3>1. \A o \in Nifs : subs'[o][h] = subs[o][h]
        BY <2>3, <2>5
      <3>2. mState[n] = "ACQUIRED" => subs[n][h] # "active"
        BY <2>1, <2>5 DEF Subscribers
      <3>3. Served(h) => Served(h)'
        BY <2>1, <3>1, <3>2 DEF Served
      <3> QED BY <2>3, <2>5, <3>1, <3>3
    <2> QED BY <2>4, <2>5
  <1> QED BY <1>1, <1>2, <1>3
          DEF ProcessAgpsEventGranted, ProcessAgpsEventReleased, ProcessAgpsEventDenied

\* Steps that leave the machines and the handles alone and post at most answers.
LEMMA UnchangedHandles ==
    ASSUME TypeOK, HandlesInv, UNCHANGED <<mState, subs, atl>>,
           NEW taken \in BOOLEAN, Follows(msgs', msgs, taken), taken => msgs # << >>,
           taken => Head(msgs).type # "RequestATL"
    PROVE  HandlesInv'
  <1> SUFFICES ASSUME NEW h \in Handles PROVE HandleInv(h)'
    BY DEF HandlesInv
  <1>1. Spared(h)
    BY DEF Spared, Served
  <1>2. taken => ~AsksAt(msgs, 1, h)
    BY DEF AsksAt, TypeOK
  <1> QED BY <1>1, <1>2, EventKeepsHandle DEF HandlesInv

\* A connection granted, lost or refused keeps what is known of the handles.
LEMMA ConnectionKeepsHandles ==
    ASSUME TypeOK, SubscribersMatchState, HandlesInv, NEW n \in Nifs, NEW taken \in BOOLEAN,
           LET q == IF taken THEN Tail(msgs) ELSE msgs
           IN  \/ ProcessAgpsEventGranted(n, q)
               \/ ProcessAgpsEventReleased(n, q)
               \/ ProcessAgpsEventDenied(n, q),
           taken => msgs # << >> /\ Head(msgs).type # "RequestATL"
    PROVE  HandlesInv'
  <1> DEFINE q == IF taken THEN Tail(msgs) ELSE msgs
  <1> SUFFICES ASSUME NEW h \in Handles PROVE HandleInv(h)'
    BY DEF HandlesInv
  <1>1. Spared(h) \/ Opened(h) \/ Ended(h)
    BY ConnectionEvent
  <1>2. \/ \E request \in BOOLEAN : RequestOrReleaseDataConn(n, request, q)
        \/ NoDataConnCall(q)
    BY DEF ProcessAgpsEventGranted, ProcessAgpsEventReleased, ProcessAgpsEventDenied,
           ReleasingDone, AllSubscribersDone
  <1>3. Follows(msgs', msgs, taken)
    BY <1>2, DataConnCallFollows
  <1>4. taken => ~AsksAt(msgs, 1, h)
    BY DEF AsksAt, TypeOK
  <1> QED BY <1>1, <1>3, <1>4, EventKeepsHandle DEF HandlesInv

\* A request finds its handle in no list, and leaves it in one; others are spared.
LEMMA RequestKeepsHandles ==
    ASSUME TypeOK, SubscribersMatchState, HandlesInv, RequestATL
    PROVE  HandlesInv'
  <1>0. PICK g \in Handles, n \in Nifs : g = Head(msgs).handle /\ n = Head(msgs).nif
    BY QueueHead, MessageFields DEF RequestATL
  <1>1. /\ msgs # << >> /\ Head(msgs) = msgs[1] /\ Head(msgs).type = "RequestATL"
        /\ g \in Handles /\ n \in Nifs /\ 1 \in 1..Len(msgs)
    BY DEF RequestATL, Received, TypeOK
  <1>2. AsksAt(msgs, 1, g)
    BY <1>0, <1>1 DEF AsksAt
  <1>3. HandleInv(g) /\ Unsubscribed(g) /\ atl[g] \in {"opening", "closing"}
    BY <1>1, <1>2 DEF HandlesInv, HandleInv, Asked
  <1>4. \/ /\ mState' = mState /\ subs' = subs
           /\ atl' = NotifyDeniedOrReleased({g})
        \/ /\ \/ mState' = mState
              \/ mState[n] = "RELEASED" /\ mState' = [mState EXCEPT ![n] = "PENDING"]
           /\ subs' = AddSubscriber(n, g)
           /\ atl' = IF mState[n] = "ACQUIRED" THEN NotifyGranted({g}) ELSE atl
           /\ mState[n] = "ACQUIRED" => mState' = mState
    BY <1>0, Zenon DEF RequestATL, ProcessAgpsEventSubscribe
  <1>5. Follows(msgs', msgs, TRUE)
    <2>1. \/ RequestOrReleaseDataConn(n, TRUE, Tail(msgs))
          \/ NoDataConnCall(Tail(msgs))
      BY <1>0, Zenon DEF RequestATL, ProcessAgpsEventSubscribe
    <2> QED BY <1>1, <2>1, DataConnCallFollows
  <1> SUFFICES ASSUME NEW h \in Handles PROVE HandleInv(h)'
    BY DEF HandlesInv
  <1>6. CASE h # g
    <2>1. \A o \in Nifs : subs'[o][h] = subs[o][h]
      BY <1>1, <1>4, <1>6 DEF AddSubscriber, TypeOK
    <2>2. atl'[h] = atl[h]
      BY <1>1, <1>4, <1>6 DEF NotifyDeniedOrReleased, NotifyGranted
    <2>3. \A o \in Nifs : mState[o] = "ACQUIRED" => mState'[o] = "ACQUIRED"
      BY <1>1, <1>4 DEF TypeOK
    <2>4. Spared(h)
      BY <2>1, <2>2, <2>3 DEF Spared, Served
    <2>5. ~AsksAt(msgs, 1, h)
      BY <1>0, <1>1, <1>6 DEF AsksAt
    <2> QED BY <1>1, <1>5, <2>4, <2>5, EventKeepsHandle DEF HandlesInv
  <1>7. CASE h = g
    <2>1. /\ AskedOnce(msgs', g) /\ ~Asked(msgs', g)
          /\ GivenBefore(msgs, g) => NotGiven(msgs', g)
      BY <1>1, <1>2, <1>3, <1>5, FollowsKeeps DEF HandleInv, TypeOK
    <2>2. CASE /\ mState' = mState /\ subs' = subs
               /\ atl' = NotifyDeniedOrReleased({g})
      <3>1. atl'[g] = "idle" /\ Unsubscribed(g)' /\ OneMachine(g)'
        BY <1>1, <1>3, <2>2 DEF NotifyDeniedOrReleased, Unsubscribed, OneMachine
      <3> QED BY <1>7, <2>1, <3>1 DEF HandleInv
    <2>3. CASE /\ subs' = AddSubscriber(n, g)
               /\ atl' = IF mState[n] = "ACQUIRED" THEN NotifyGranted({g}) ELSE atl
               /\ mState[n] = "ACQUIRED" => mState' = mState
      <3>1. /\ subs'[n][g] = "active"
            /\ \A o \in Nifs \ {n} : subs'[o][g] = "none"
        BY <1>1, <1>3, <2>3 DEF AddSubscriber, Unsubscribed, TypeOK
      <3>2. OneMachine(g)'
        BY <3>1 DEF OneMachine
      <3>3. \/ atl'[g] = atl[g]
            \/ atl[g] = "opening" /\ atl'[g] = "open" /\ mState'[n] = "ACQUIRED"
        BY <1>1, <2>3 DEF NotifyGranted
      <3>4. atl'[g] = "open" => Served(g)'
        BY <1>1, <1>3, <3>1, <3>3 DEF Served
      <3>5. atl[g] = "opening" => NotGiven(msgs', g)
        BY <1>3, <2>1 DEF HandleInv
      <3>6. NotGiven(msgs', g) => GivenBefore(msgs', g)
        BY DEF NotGiven, GivenBefore
      <3> QED BY <1>3, <1>7, <2>1, <3>2, <3>3, <3>4, <3>5, <3>6 DEF HandleInv
    <2> QED BY <1>4, <2>2, <2>3
  <1> QED BY <1>6, <1>7

\* A release that finds its handle in a list finds the modem closing it: the last active
\* subscriber that goes is not open.
LEMMA ReleaseKeepsHandles ==
    ASSUME TypeOK, SubscribersMatchState, HandlesInv, ReleaseATL
    PROVE  HandlesInv'
  <1>0. PICK g \in Handles : g = Head(msgs).handle
    BY QueueHead, MessageFields DEF ReleaseATL
  <1>1. /\ msgs # << >> /\ Head(msgs) = msgs[1] /\ Head(msgs).type = "ReleaseATL"
        /\ g \in Handles /\ 1 \in 1..Len(msgs)
    BY DEF ReleaseATL, Received, TypeOK
  <1>2. \A h : ~AsksAt(msgs, 1, h)
    BY <1>1 DEF AsksAt
  <1>3. CASE NoDataConnCall(Tail(msgs)) /\ UNCHANGED <<mState, subs, atl>>
    <2>1. Follows(msgs', msgs, TRUE)
      BY <1>1, <1>3, DataConnCallFollows
    <2> QED BY <1>1, <1>3, <2>1, UnchangedHandles
  <1>4. CASE \E n \in Nifs : /\ g \in Subscribers(n)
                             /\ ProcessAgpsEventUnsubscribe(n, g, Tail(msgs))
    <2>1. PICK n \in Nifs : /\ g \in Subscribers(n)
                            /\ ProcessAgpsEventUnsubscribe(n, g, Tail(msgs))
      BY <1>4
    <2>2. mState[n] # "RELEASED" /\ subs[n][g] # "none"
      BY <2>1 DEF SubscribersMatchState, Subscribers
    <2>3. /\ subs' = [subs EXCEPT ![n][g] = "inactive"]
          /\ atl' = atl
          /\ \/ mState' = mState
             \/ /\ mState' = [mState EXCEPT ![n] = "RELEASING"]
                /\ ActiveSubscribers(n) \subseteq {g}
      BY <2>1, <2>2, Zenon DEF ProcessAgpsEventUnsubscribe
    <2>4. Follows(msgs', msgs, TRUE)
      BY <1>1, <2>1, DataConnCallFollows DEF ProcessAgpsEventUnsubscribe
    <2>5. HandleInv(g) /\ ~Unsubscribed(g)
      BY <1>1, <2>2 DEF HandlesInv, Unsubscribed
    <2>6. atl[g] = "closing"
      <3>1. GivesAt(msgs, 1, g) /\ ~NotGiven(msgs, g)
        BY <1>0, <1>1 DEF GivesAt, NotGiven
      <3>2. ~Asked(msgs, g) /\ ~GivenBefore(msgs, g)
        BY <2>5, <3>1 DEF HandleInv, Asked, GivenBefore
      <3> QED BY <1>1, <2>5, <3>1, <3>2 DEF HandleInv, TypeOK
    <2> SUFFICES ASSUME NEW h \in Handles PROVE HandleInv(h)'
      BY DEF HandlesInv
    <2>7. CASE h # g
      <3>1. \A o \in Nifs : subs'[o][h] = subs[o][h]
        BY <1>1, <2>3, <2>7 DEF TypeOK
      <3>2. Served(h) => Served(h)'
        BY <2>3, <2>7, <3>1 DEF Served, ActiveSubscribers, TypeOK
      <3>3. Spared(h)
        BY <2>3, <3>1, <3>2 DEF Spared
      <3> QED BY <1>1, <1>2, <2>4, <3>3, EventKeepsHandle DEF HandlesInv
    <2>8. CASE h = g
      <3>1. AskedOnce(msgs', g) /\ ~Asked(msgs', g)
        BY <1>1, <2>4, <2>5, FollowsKeeps DEF HandleInv, TypeOK
      <3>2. OneMachine(g)'
        BY <1>1, <2>2, <2>3, <2>5 DEF HandleInv, OneMachine, TypeOK
      <3> QED BY <2>3, <2>6, <2>8, <3>1, <3>2 DEF HandleInv
    <2> QED BY <2>7, <2>8
  <1> QED BY <1>0, <1>3, <1>4 DEF ReleaseATL

\* The modem opens only what is idle and has no request under way.
LEMMA ModemKeepsHandles ==
    ASSUME TypeOK, HandlesInv, NEW g \in Handles,
           ModemClose(g) \/ \E n \in Nifs : ModemOpen(g, n)
    PROVE  HandlesInv'
  <1>1. /\ mState' = mState /\ subs' = subs
        /\ \A h \in Handles \ {g} : atl'[h] = atl[h]
    <2>1. /\ mState' = mState /\ subs' = subs
          /\ \E v \in {"closing", "opening"} : atl' = [atl EXCEPT ![g] = v]
      BY DEF ModemClose, ModemOpen
    <2> QED BY <2>1 DEF TypeOK
  <1>2. PICK m \in Messages :
              /\ msgs' = Append(msgs, m) /\ m.handle = g
              /\ \/ /\ m.type = "ReleaseATL" /\ atl'[g] = "closing"
                    /\ atl[g] \in {"opening", "open"}
                 \/ m.type = "RequestATL" /\ atl'[g] = "opening" /\ atl[g] = "idle"
    <2>1. CASE ModemClose(g)
      BY <2>1, AnswersAreMessages DEF ModemClose, TypeOK
    <2>2. CASE \E n \in Nifs : ModemOpen(g, n)
      <3>1. PICK n \in Nifs : ModemOpen(g, n)
        BY <2>2
      <3> DEFINE m == [type |-> "RequestATL", handle |-> g, nif |-> n]
      <3>2. m \in Messages /\ msgs' = Append(msgs, m)
        BY <3>1, AnswersAreMessages DEF ModemOpen
      <3>3. atl[g] = "idle" /\ atl'[g] = "opening"
        BY <3>1 DEF ModemOpen, TypeOK
      <3>4. m.type = "RequestATL" /\ m.handle = g
        OBVIOUS
      <3> HIDE DEF m
      <3> QED BY <3>2, <3>3, <3>4
    <2> QED BY <2>1, <2>2
  <1>3. \A i \in Nat, h \in Handles :
           /\ AsksAt(msgs', i, h) <=>
                 \/ AsksAt(msgs, i, h)
                 \/ i = Len(msgs) + 1 /\ m.type = "RequestATL" /\ h = g
           /\ GivesAt(msgs', i, h) <=>
                 \/ GivesAt(msgs, i, h)
                 \/ i = Len(msgs) + 1 /\ m.type = "ReleaseATL" /\ h = g
    BY <1>2 DEF AsksAt, GivesAt, TypeOK
  <1>4. /\ Len(msgs) \in Nat
        /\ \A i \in Nat : \A h : AsksAt(msgs, i, h) \/ GivesAt(msgs, i, h) => i <= Len(msgs)
    BY DEF AsksAt, GivesAt, TypeOK
  <1> SUFFICES ASSUME NEW h \in Handles PROVE HandleInv(h)'
    BY DEF HandlesInv
  <1>5. HandleInv(h)
    BY DEF HandlesInv
  <1>6. (Unsubscribed(h)' <=> Unsubscribed(h)) /\ (OneMachine(h)' <=> OneMachine(h))
        /\ (Served(h)' <=> Served(h))
    BY <1>1 DEF Unsubscribed, OneMachine, Served
  <1>7. CASE h # g
    <2>1. /\ AskedOnce(msgs', h) <=> AskedOnce(msgs, h)
          /\ Asked(msgs', h) <=> Asked(msgs, h)
          /\ GivenBefore(msgs', h) <=> GivenBefore(msgs, h)
          /\ NotGiven(msgs', h) <=> NotGiven(msgs, h)
      BY <1>3, <1>7 DEF AskedOnce, Asked, GivenBefore, NotGiven
    <2> QED BY <1>1, <1>5, <1>6, <1>7, <2>1 DEF HandleInv
  <1>8. CASE h = g /\ m.type = "ReleaseATL"
    <2>1. (AskedOnce(msgs', g) <=> AskedOnce(msgs, g)) /\ (Asked(msgs', g) <=> Asked(msgs, g))
      BY <1>3, <1>8 DEF AskedOnce, Asked
    <2>2. atl'[g] = "closing"
      BY <1>2, <1>8
    <2> QED BY <1>5, <1>6, <1>8, <2>1, <2>2 DEF HandleInv
  <1>9. CASE h = g /\ m.type = "RequestATL"
    <2>1. atl[g] = "idle" /\ atl'[g] = "opening"
      BY <1>2, <1>9
    <2>2. Unsubscribed(g) /\ ~Asked(msgs, g)
      BY <1>5, <1>9, <2>1 DEF HandleInv
    <2>3. AskedOnce(msgs', g)
      BY <1>3, <2>2 DEF AskedOnce, Asked
    <2>4. GivenBefore(msgs', g)
      BY <1>3, <1>4, <1>9 DEF GivenBefore
    <2> QED BY <1>5, <1>6, <1>9, <2>1, <2>2, <2>3, <2>4 DEF HandleInv
  <1> QED BY <1>2, <1>7, <1>8, <1>9

\* Every step keeps what is known of the handles.
LEMMA HandlesStep ==
    ASSUME TypeOK, SubscribersMatchState, HandlesInv, [Next]_vars
    PROVE  HandlesInv'
  <1>1. CASE RequestATL \/ ReleaseATL
    BY <1>1, RequestKeepsHandles, ReleaseKeepsHandles
  <1>2. CASE ReportAtlOpenSuccess \/ ReportAtlPdn \/ ReportAtlOpenFailed \/ ReportAtlClosed
    <2>1. /\ Head(msgs).nif \in Nifs /\ msgs # << >> /\ Head(msgs).type # "RequestATL"
      BY <1>2, QueueHead, MessageFields
      DEF ReportAtlOpenSuccess, ReportAtlPdn, ReportAtlOpenFailed, ReportAtlClosed, Received
    <2>2. CASE NoDataConnCall(Tail(msgs)) /\ UNCHANGED <<mState, subs, atl>>
      <3>1. Follows(msgs', msgs, TRUE)
        BY <2>1, <2>2, DataConnCallFollows
      <3> QED BY <2>1, <2>2, <3>1, UnchangedHandles
    <2>3. CASE \/ ProcessAgpsEventGranted(Head(msgs).nif, Tail(msgs))
               \/ ProcessAgpsEventReleased(Head(msgs).nif, Tail(msgs))
               \/ ProcessAgpsEventDenied(Head(msgs).nif, Tail(msgs))
      BY <2>1, <2>3, ConnectionKeepsHandles
    <2> QED BY <1>2, <2>2, <2>3
            DEF ReportAtlOpenSuccess, ReportAtlPdn, ReportAtlOpenFailed, ReportAtlClosed
  <1>3. CASE DataConnOpenLongApn
    BY <1>3, ConnectionKeepsHandles DEF DataConnOpenLongApn
  <1>4. CASE \/ \E n \in Nifs : CreateAgpsStateMachine(n) \/ ReportPdnTypeFromWds(n)
             \/ FrameworkRequest \/ FrameworkRelease \/ DataConnOpen \/ DataConnFailed
             \/ DataConnLost \/ NetworkInfo \/ UNCHANGED vars
    <2>1. UNCHANGED <<mState, subs, atl>>
      BY <1>4
      DEF CreateAgpsStateMachine, ReportPdnTypeFromWds, FrameworkRequest, FrameworkRelease,
          DataConnOpen, DataConnFailed, DataConnLost, NetworkInfo, vars
    <2>2. \/ msgs' = msgs
          \/ \E t \in {"OpenSuccess", "PdnType", "OpenFailed", "Closed"}, n \in Nifs :
                msgs' = Append(msgs, [type |-> t, nif |-> n])
      BY <1>4, Zenon
      DEF CreateAgpsStateMachine, ReportPdnTypeFromWds, FrameworkRequest, FrameworkRelease,
          DataConnOpen, DataConnFailed, DataConnLost, NetworkInfo, vars, FrameworkPost, Nifs
    <2>3. \A t \in {"OpenSuccess", "PdnType", "OpenFailed", "Closed"}, n \in Nifs :
             [type |-> t, nif |-> n] \in Answers
      BY AnswersAreMessages DEF Answers
    <2>4. /\ << >> \in Seq(Answers) /\ msgs = msgs \o << >>
          /\ \A m \in Answers : <<m>> \in Seq(Answers)
      BY DEF TypeOK
    <2>5. \A m : Append(msgs, m) = msgs \o <<m>>
      BY DEF TypeOK
    <2>6. Follows(msgs', msgs, FALSE)
      BY <2>2, <2>3, <2>4, <2>5 DEF Follows
    <2> QED BY <2>1, <2>6, UnchangedHandles
  <1>5. CASE \E h \in Handles : ModemClose(h) \/ \E n \in Nifs : ModemOpen(h, n)
    BY <1>5, ModemKeepsHandles
  <1> QED BY <1>1, <1>2, <1>3, <1>4, <1>5 DEF Next, ProcessMessage, Framework

\* At first no handle is open and nothing is queued.
LEMMA HandlesInit == Init => HandlesInv
  <1>1. SUFFICES ASSUME Init, NEW h \in Handles PROVE HandleInv(h)
    BY DEF HandlesInv
  <1>2. \A i \in Nat : ~AsksAt(msgs, i, h)
    BY <1>1 DEF Init, AsksAt
  <1>3. (\A n \in Nifs : subs[n][h] = "none") /\ atl[h] = "idle"
    BY <1>1 DEF Init
  <1> QED BY <1>2, <1>3 DEF HandleInv, AskedOnce, Asked, OneMachine, Unsubscribed

\* A handle the modem uses as open is an active subscriber of a state machine that holds its
\* connection, for every number of handles and in every world: however often handles are
\* opened and closed, no old release or answer takes the connection from an open one untold.
THEOREM OpenHandlesServed == Spec => []OpenHandleIsServed
  <1>1. TypeOK /\ SubscribersMatchState /\ HandlesInv /\ [Next]_vars => HandlesInv'
    BY HandlesStep
  <1>2. HandlesInv => OpenHandleIsServed
    BY DEF HandlesInv, HandleInv, Served, OpenHandleIsServed, ActiveSubscribers
  <1> QED BY <1>1, <1>2, HandlesInit, TypeCorrect, SubscribersAgree, PTL DEF Spec

-----------------------------------------------------------------------------
(* The AGNSS connection.  Its answers in the queue, in order, are those    *)
(* the framework still owes the state machine the news of; with the calls  *)
(* under way and the connection they make up one conversation.             *)

\* The answers about the AGNSS connection, and the places that hold them.
AgnssAnswer(t) == [type |-> t, nif |-> "AGNSS"]
Outcomes == {"OpenSuccess", "OpenFailed", "Closed"}
AnswerAt(q, i) == i \in 1..Len(q) /\ \E t \in Outcomes \cup {"PdnType"} : q[i] = AgnssAnswer(t)

\* The answers in q are exactly a, in this order.
Increasing(p) == \A i, j \in DOMAIN p : i < j => p[i] < p[j]
Tells(q, a) ==
    \E p \in [1..Len(a) -> 1..Len(q)] :
        /\ Increasing(p)
        /\ \A k \in 1..Len(a) : q[p[k]] = AgnssAnswer(a[k])
        /\ \A i \in 1..Len(q) : AnswerAt(q, i) => \E k \in 1..Len(a) : i = p[k]

\* The calls under way when the machine's state is m and the framework has
\* handled everything but the last request, and but the last release.
Left(m) == IF m = "RELEASING" THEN <<"release">> ELSE << >>
CallsFrom(m) ==
    IF m = "RELEASING"
    THEN {<<"request", "release">>, <<"release", "request", "release">>}
    ELSE {<<"request">>, <<"release", "request">>}

\* Nothing asked for; asked for but not yet handled; handled; over, for the
\* framework, which the machine has not heard yet.
Conversation(m, c, calls, a) ==
    \/ m = "RELEASED" /\ c = "down" /\ a = << >> /\ calls \in {<< >>, <<"release">>}
    \/ m \in {"PENDING", "RELEASING"} /\ c = "down" /\ a = << >> /\ calls \in CallsFrom(m)
    \/ /\ calls = Left(m)
       /\ \/ m \in {"PENDING", "RELEASING"} /\ c = "opening" /\ a = << >>
          \/ m \in {"PENDING", "RELEASING"} /\ c = "up" /\ a = <<"OpenSuccess">>
          \/ m \in {"ACQUIRED", "RELEASING"} /\ c = "up" /\ a = << >>
    \/ /\ c = "down" /\ calls \in {<< >>, Left(m)}
       /\ \/ m \in {"PENDING", "RELEASING"}
             /\ a \in {<<"OpenFailed">>, <<"OpenSuccess", "Closed">>}
          \/ m \in {"ACQUIRED", "RELEASING"} /\ a = <<"Closed">>

ConnectionInv ==
    Reliable =>
        /\ \A n \in Nifs : wds[n] = 0
        /\ \E a \in Seq(Outcomes) :
              Tells(msgs, a) /\ Conversation(mState["AGNSS"], conn, inbox, a)

\* A message that is no AGNSS answer adds nothing to what a queue tells.
LEMMA TellsPosted ==
    ASSUME NEW q \in Seq(Messages), NEW a \in Seq(Outcomes), Tells(q, a),
           NEW m \in Messages, \A t \in Outcomes \cup {"PdnType"} : m # AgnssAnswer(t)
    PROVE  Tells(Append(q, m), a)
  <1> DEFINE r == Append(q, m)
  <1>1. /\ Len(q) \in Nat /\ Len(a) \in Nat /\ Len(r) = Len(q) + 1
        /\ \A i \in 1..Len(q) : r[i] = q[i]
        /\ r[Len(q) + 1] = m
    OBVIOUS
  <1>2. PICK p \in [1..Len(a) -> 1..Len(q)] :
           /\ Increasing(p)
           /\ \A k \in 1..Len(a) : q[p[k]] = AgnssAnswer(a[k])
           /\ \A i \in 1..Len(q) : AnswerAt(q, i) => \E k \in 1..Len(a) : i = p[k]
    BY DEF Tells
  <1> HIDE DEF r
  <1>3. p \in [1..Len(a) -> 1..Len(r)]
    BY <1>1
  <1>4. \A k \in 1..Len(a) : r[p[k]] = AgnssAnswer(a[k])
    BY <1>1, <1>2
  <1>5. \A i \in 1..Len(r) : AnswerAt(r, i) => i \in 1..Len(q) /\ AnswerAt(q, i)
    <2> SUFFICES ASSUME NEW i \in 1..Len(r), AnswerAt(r, i)
                 PROVE  i \in 1..Len(q) /\ AnswerAt(q, i)
      OBVIOUS
    <2>1. i # Len(q) + 1
      BY <1>1 DEF AnswerAt
    <2>2. i \in 1..Len(q)
      BY <1>1, <2>1
    <2> QED BY <1>1, <2>2 DEF AnswerAt
  <1>6. \A i \in 1..Len(r) : AnswerAt(r, i) => \E k \in 1..Len(a) : i = p[k]
    BY <1>2, <1>5
  <1>7. Tells(r, a)
    BY <1>2, <1>3, <1>4, <1>6 DEF Tells
  <1> QED BY <1>7 DEF r

\* An AGNSS answer is the last thing a queue tells.
LEMMA TellsAnswered ==
    ASSUME NEW q \in Seq(Messages), NEW a \in Seq(Outcomes), Tells(q, a), NEW t \in Outcomes
    PROVE  Tells(Append(q, AgnssAnswer(t)), Append(a, t))
  <1> DEFINE r == Append(q, AgnssAnswer(t))
             b == Append(a, t)
  <1>1. /\ Len(q) \in Nat /\ Len(a) \in Nat /\ Len(r) = Len(q) + 1 /\ Len(b) = Len(a) + 1
        /\ \A i \in 1..Len(q) : r[i] = q[i]
        /\ r[Len(q) + 1] = AgnssAnswer(t)
        /\ \A k \in 1..Len(a) : b[k] = a[k]
        /\ b[Len(a) + 1] = t
    OBVIOUS
  <1>2. PICK p \in [1..Len(a) -> 1..Len(q)] :
           /\ Increasing(p)
           /\ \A k \in 1..Len(a) : q[p[k]] = AgnssAnswer(a[k])
           /\ \A i \in 1..Len(q) : AnswerAt(q, i) => \E k \in 1..Len(a) : i = p[k]
    BY DEF Tells
  <1> HIDE DEF r, b
  <1> DEFINE s == [k \in 1..Len(b) |-> IF k = Len(b) THEN Len(r) ELSE p[k]]
  <1>3. \A k \in 1..Len(a) : k \in 1..Len(b) /\ k # Len(b) /\ s[k] = p[k]
    BY <1>1
  <1>4. Len(b) \in 1..Len(b) /\ s[Len(b)] = Len(r)
    BY <1>1
  <1>5. \A k \in 1..Len(b) : k = Len(b) \/ k \in 1..Len(a)
    BY <1>1
  <1>6. s \in [1..Len(b) -> 1..Len(r)]
    BY <1>1, <1>5
  <1> HIDE DEF s
  <1>7. Increasing(s)
    <2> SUFFICES ASSUME NEW i \in 1..Len(b), NEW j \in 1..Len(b), i < j PROVE s[i] < s[j]
      BY <1>6 DEF Increasing
    <2>1. i \in 1..Len(a)
      BY <1>1
    <2>2. CASE j \in 1..Len(a)
      BY <1>2, <1>3, <2>1, <2>2 DEF Increasing
    <2>3. CASE j = Len(b)
      BY <1>1, <1>3, <1>4, <2>1, <2>3
    <2> QED BY <1>5, <2>2, <2>3
  <1>8. \A k \in 1..Len(b) : r[s[k]] = AgnssAnswer(b[k])
    <2> SUFFICES ASSUME NEW k \in 1..Len(b) PROVE r[s[k]] = AgnssAnswer(b[k])
      OBVIOUS
    <2>1. CASE k = Len(b)
      BY <1>1, <1>4, <2>1
    <2>2. CASE k \in 1..Len(a)
      <3>1. s[k] = p[k] /\ p[k] \in 1..Len(q) /\ b[k] = a[k]
        BY <1>1, <1>3, <2>2
      <3> QED BY <1>1, <1>2, <2>2, <3>1
    <2> QED BY <1>5, <2>1, <2>2
  <1>9. \A i \in 1..Len(r) : AnswerAt(r, i) => \E k \in 1..Len(b) : i = s[k]
    <2> SUFFICES ASSUME NEW i \in 1..Len(r), AnswerAt(r, i)
                 PROVE  \E k \in 1..Len(b) : i = s[k]
      OBVIOUS
    <2>1. CASE i \in 1..Len(q)
      <3>1. AnswerAt(q, i)
        BY <1>1, <2>1 DEF AnswerAt
      <3> QED BY <1>2, <1>3, <2>1, <3>1
    <2>2. CASE i \notin 1..Len(q)
      BY <1>1, <1>4, <2>2
    <2> QED BY <2>1, <2>2
  <1>10. Tells(r, b)
    BY <1>6, <1>7, <1>8, <1>9 DEF Tells
  <1> QED BY <1>10 DEF r, b

\* Taking a message that is no AGNSS answer leaves what the queue tells.
LEMMA TellsTaken ==
    ASSUME NEW q \in Seq(Messages), q # << >>, NEW a \in Seq(Outcomes), Tells(q, a),
           ~AnswerAt(q, 1)
    PROVE  Tells(Tail(q), a)
  <1> DEFINE r == Tail(q)
  <1>1. /\ Len(q) \in Nat \ {0} /\ Len(a) \in Nat /\ Len(r) = Len(q) - 1
        /\ \A i \in 1..Len(r) : r[i] = q[i + 1]
    OBVIOUS
  <1>2. PICK p \in [1..Len(a) -> 1..Len(q)] :
           /\ Increasing(p)
           /\ \A k \in 1..Len(a) : q[p[k]] = AgnssAnswer(a[k])
           /\ \A i \in 1..Len(q) : AnswerAt(q, i) => \E k \in 1..Len(a) : i = p[k]
    BY DEF Tells
  <1> HIDE DEF r
  <1>3. \A k \in 1..Len(a) : p[k] \in 1..Len(q) /\ p[k] # 1
    <2> SUFFICES ASSUME NEW k \in 1..Len(a), p[k] = 1 PROVE FALSE
      OBVIOUS
    <2>1. a[k] \in Outcomes /\ 1 \in 1..Len(q)
      BY <1>1
    <2>2. q[1] = AgnssAnswer(a[k])
      BY <1>2
    <2> QED BY <2>1, <2>2 DEF AnswerAt
  <1> DEFINE s == [k \in 1..Len(a) |-> p[k] - 1]
  <1>4. s \in [1..Len(a) -> 1..Len(r)] /\ \A k \in 1..Len(a) : s[k] = p[k] - 1
    BY <1>1, <1>3
  <1> HIDE DEF s
  <1>5. Increasing(s)
    BY <1>2, <1>3, <1>4 DEF Increasing
  <1>6. \A k \in 1..Len(a) : r[s[k]] = AgnssAnswer(a[k])
    <2> SUFFICES ASSUME NEW k \in 1..Len(a) PROVE r[s[k]] = AgnssAnswer(a[k])
      OBVIOUS
    <2>1. s[k] \in 1..Len(r) /\ s[k] + 1 = p[k]
      BY <1>3, <1>4
    <2> QED BY <1>1, <1>2, <2>1
  <1>7. \A i \in 1..Len(r) : AnswerAt(r, i) => \E k \in 1..Len(a) : i = s[k]
    <2> SUFFICES ASSUME NEW i \in 1..Len(r), AnswerAt(r, i)
                 PROVE  \E k \in 1..Len(a) : i = s[k]
      OBVIOUS
    <2>0. i + 1 \in 1..Len(q) /\ r[i] = q[i + 1]
      BY <1>1
    <2>1. i + 1 \in 1..Len(q) /\ AnswerAt(q, i + 1)
      BY <2>0, Zenon DEF AnswerAt
    <2>2. PICK k \in 1..Len(a) : i + 1 = p[k]
      BY <1>2, <2>1
    <2>3. s[k] = i
      BY <1>3, <1>4, <2>2
    <2> QED BY <2>3
  <1>8. Tells(r, a)
    BY <1>4, <1>5, <1>6, <1>7 DEF Tells
  <1> QED BY <1>8 DEF r

\* An AGNSS answer that is taken is the first thing the queue tells.
LEMMA TellsHeard ==
    ASSUME NEW q \in Seq(Messages), q # << >>, NEW a \in Seq(Outcomes), Tells(q, a),
           AnswerAt(q, 1)
    PROVE  a # << >> /\ q[1] = AgnssAnswer(Head(a)) /\ Tells(Tail(q), Tail(a))
  <1> DEFINE r == Tail(q)
             b == Tail(a)
  <1>1. PICK p \in [1..Len(a) -> 1..Len(q)] :
           /\ Increasing(p)
           /\ \A k \in 1..Len(a) : q[p[k]] = AgnssAnswer(a[k])
           /\ \A i \in 1..Len(q) : AnswerAt(q, i) => \E k \in 1..Len(a) : i = p[k]
    BY DEF Tells
  <1>2. /\ Len(q) \in Nat \ {0} /\ Len(a) \in Nat /\ Len(r) = Len(q) - 1
        /\ \A i \in 1..Len(r) : r[i] = q[i + 1]
    OBVIOUS
  <1>3. PICK h \in 1..Len(a) : p[h] = 1
    BY <1>1, <1>2
  <1>4. h = 1 /\ 1 \in 1..Len(a)
    <2>1. CASE h # 1
      <3>1. 1 \in 1..Len(a) /\ 1 < h
        BY <1>2, <2>1
      <3>2. p[1] < p[h] /\ p[1] \in 1..Len(q)
        BY <1>1, <3>1 DEF Increasing
      <3> QED BY <1>3, <3>2
    <2> QED BY <2>1
  <1>5. a # << >> /\ q[1] = AgnssAnswer(Head(a))
    BY <1>1, <1>3, <1>4
  <1>6. /\ Len(b) = Len(a) - 1 /\ Len(b) \in Nat
        /\ \A k \in 1..Len(b) : b[k] = a[k + 1]
    BY <1>5
  <1> HIDE DEF r, b
  <1>7. \A k \in 1..Len(b) : /\ k + 1 \in 1..Len(a) /\ p[k + 1] \in 1..Len(q)
                             /\ p[k + 1] # 1
    <2> SUFFICES ASSUME NEW k \in 1..Len(b)
                 PROVE  /\ k + 1 \in 1..Len(a) /\ p[k + 1] \in 1..Len(q)
                        /\ p[k + 1] # 1
      OBVIOUS
    <2>1. k + 1 \in 1..Len(a) /\ 1 < k + 1
      BY <1>2, <1>6
    <2>2. p[1] < p[k + 1]
      BY <1>1, <1>4, <2>1 DEF Increasing
    <2> QED BY <1>3, <1>4, <2>1, <2>2
  <1> DEFINE s == [k \in 1..Len(b) |-> p[k + 1] - 1]
  <1>8. s \in [1..Len(b) -> 1..Len(r)] /\ \A k \in 1..Len(b) : s[k] = p[k + 1] - 1
    BY <1>2, <1>7
  <1> HIDE DEF s
  <1>9. Increasing(s)
    <2> SUFFICES ASSUME NEW i \in 1..Len(b), NEW j \in 1..Len(b), i < j PROVE s[i] < s[j]
      BY <1>8 DEF Increasing
    <2>1. i + 1 < j + 1
      BY <1>6
    <2>2. p[i + 1] < p[j + 1]
      BY <1>1, <1>7, <2>1 DEF Increasing
    <2> QED BY <1>7, <1>8, <2>2
  <1>10. \A k \in 1..Len(b) : r[s[k]] = AgnssAnswer(b[k])
    <2> SUFFICES ASSUME NEW k \in 1..Len(b) PROVE r[s[k]] = AgnssAnswer(b[k])
      OBVIOUS
    <2>1. s[k] \in 1..Len(r) /\ s[k] + 1 = p[k + 1] /\ k + 1 \in 1..Len(a)
      BY <1>7, <1>8
    <2>2. r[s[k]] = q[p[k + 1]] /\ b[k] = a[k + 1]
      BY <1>2, <1>6, <2>1
    <2> QED BY <1>1, <2>1, <2>2
  <1>11. \A i \in 1..Len(r) : AnswerAt(r, i) => \E k \in 1..Len(b) : i = s[k]
    <2> SUFFICES ASSUME NEW i \in 1..Len(r), AnswerAt(r, i)
                 PROVE  \E k \in 1..Len(b) : i = s[k]
      OBVIOUS
    <2>0. i + 1 \in 1..Len(q) /\ r[i] = q[i + 1] /\ i + 1 # 1
      BY <1>2
    <2>1. i + 1 \in 1..Len(q) /\ AnswerAt(q, i + 1) /\ i + 1 # 1
      BY <2>0, Zenon DEF AnswerAt
    <2>2. PICK k \in 1..Len(a) : i + 1 = p[k]
      BY <1>1, <2>1
    <2>3. k # 1
      BY <1>3, <1>4, <2>1, <2>2
    <2>4. k - 1 \in 1..Len(b) /\ (k - 1) + 1 = k
      BY <1>2, <1>6, <2>3
    <2>5. s[k - 1] = p[k] - 1
      BY <1>8, <2>4
    <2>6. s[k - 1] = i
      BY <1>2, <2>2, <2>5
    <2> QED BY <2>4, <2>6
  <1>12. Tells(r, b)
    BY <1>8, <1>9, <1>10, <1>11 DEF Tells
  <1> QED BY <1>5, <1>12 DEF r, b

-----------------------------------------------------------------------------
(* The moves of the conversation.                                          *)

\* Sequences with the same elements are the same.
LEMMA SameSequence ==
    ASSUME NEW S, NEW p \in Seq(S), NEW q \in Seq(S), Len(p) = Len(q),
           \A i \in 1..Len(p) : p[i] = q[i]
    PROVE  p = q
  OBVIOUS

\* Appending to one and to two elements.
LEMMA ShortAppend ==
    ASSUME NEW S, NEW t \in S, NEW u \in S, NEW v \in S
    PROVE  /\ Append(<<t>>, u) = <<t, u>>
           /\ Append(<<t, u>>, v) = <<t, u, v>>
  <1>1. Append(<<t>>, u) = <<t, u>>
    <2> DEFINE p == Append(<<t>>, u)
               q == <<t, u>>
    <2>1. <<t>> \in Seq(S) /\ Len(<<t>>) = 1 /\ <<t>>[1] = t
      OBVIOUS
    <2>2. p \in Seq(S) /\ Len(p) = 2 /\ p[1] = t /\ p[2] = u
      BY <2>1
    <2>3. q \in Seq(S) /\ Len(q) = 2 /\ q[1] = t /\ q[2] = u
      OBVIOUS
    <2>4. \A i \in 1..2 : i = 1 \/ i = 2
      OBVIOUS
    <2> HIDE DEF p, q
    <2>5. p = q
      BY <2>2, <2>3, <2>4, SameSequence
    <2> QED BY <2>5 DEF p, q
  <1>2. Append(<<t, u>>, v) = <<t, u, v>>
    <2> DEFINE p == Append(<<t, u>>, v)
               q == <<t, u, v>>
    <2>1. <<t, u>> \in Seq(S) /\ Len(<<t, u>>) = 2 /\ <<t, u>>[1] = t /\ <<t, u>>[2] = u
      OBVIOUS
    <2>2. p \in Seq(S) /\ Len(p) = 3 /\ p[1] = t /\ p[2] = u /\ p[3] = v
      BY <2>1
    <2>3. q \in Seq(S) /\ Len(q) = 3 /\ q[1] = t /\ q[2] = u /\ q[3] = v
      OBVIOUS
    <2>4. \A i \in 1..3 : i = 1 \/ i = 2 \/ i = 3
      OBVIOUS
    <2> HIDE DEF p, q
    <2>5. p = q
      BY <2>2, <2>3, <2>4, SameSequence
    <2> QED BY <2>5 DEF p, q
  <1> QED BY <1>1, <1>2

\* The calls a framework can find, what is left of them and what they become.
LEMMA CallSequences ==
    /\ << >> # <<"release">> /\ << >> # <<"request">>
    /\ Append(<< >>, "request") = <<"request">>
    /\ Append(<< >>, "release") = <<"release">>
    /\ Append(<<"release">>, "request") = <<"release", "request">>
    /\ Append(<<"request">>, "release") = <<"request", "release">>
    /\ Append(<<"release", "request">>, "release") = <<"release", "request", "release">>
    /\ Head(<<"request">>) = "request" /\ Tail(<<"request">>) = << >>
    /\ Head(<<"release">>) = "release" /\ Tail(<<"release">>) = << >>
    /\ Head(<<"release", "request">>) = "release"
    /\ Tail(<<"release", "request">>) = <<"request">>
    /\ Head(<<"request", "release">>) = "request"
    /\ Tail(<<"request", "release">>) = <<"release">>
    /\ Head(<<"release", "request", "release">>) = "release"
    /\ Tail(<<"release", "request", "release">>) = <<"request", "release">>
  <1>1. /\ << >> # <<"release">> /\ << >> # <<"request">>
        /\ Append(<< >>, "request") = <<"request">>
        /\ Append(<< >>, "release") = <<"release">>
    OBVIOUS
  <1>0. \A t, u, v \in {"request", "release"} :
           Append(<<t>>, u) = <<t, u>> /\ Append(<<t, u>>, v) = <<t, u, v>>
    BY ShortAppend, Zenon
  <1>2. Append(<<"release">>, "request") = <<"release", "request">>
    BY <1>0
  <1>3. Append(<<"request">>, "release") = <<"request", "release">>
    BY <1>0
  <1>4. Append(<<"release", "request">>, "release") = <<"release", "request", "release">>
    BY <1>0
  <1>5. /\ Head(<<"request">>) = "request" /\ Tail(<<"request">>) = << >>
        /\ Head(<<"release">>) = "release" /\ Tail(<<"release">>) = << >>
    OBVIOUS
  <1>6. /\ Head(<<"release", "request">>) = "release"
        /\ Tail(<<"release", "request">>) = <<"request">>
    OBVIOUS
  <1>7. /\ Head(<<"request", "release">>) = "request"
        /\ Tail(<<"request", "release">>) = <<"release">>
    OBVIOUS
  <1>8. /\ Head(<<"release", "request", "release">>) = "release"
        /\ Tail(<<"release", "request", "release">>) = <<"request", "release">>
    OBVIOUS
  <1> QED BY <1>1, <1>2, <1>3, <1>4, <1>5, <1>6, <1>7, <1>8

\* The answers a machine can be told, what is left of them and what they become.
LEMMA AnswerSequences ==
    /\ \A t \in Outcomes : /\ << >> # <<t>> /\ Head(<<t>>) = t /\ Tail(<<t>>) = << >>
                           /\ Append(<< >>, t) = <<t>>
    /\ << >> # <<"OpenSuccess", "Closed">>
    /\ Head(<<"OpenSuccess", "Closed">>) = "OpenSuccess"
    /\ Tail(<<"OpenSuccess", "Closed">>) = <<"Closed">>
    /\ Append(<<"OpenSuccess">>, "Closed") = <<"OpenSuccess", "Closed">>
  <1>1. \A t \in Outcomes : << >> # <<t>>
    OBVIOUS
  <1>2. \A t \in Outcomes : Head(<<t>>) = t
    OBVIOUS
  <1>3. \A t \in Outcomes : Tail(<<t>>) = << >>
    OBVIOUS
  <1>4. \A t \in Outcomes : Append(<< >>, t) = <<t>>
    OBVIOUS
  <1>5. << >> # <<"OpenSuccess", "Closed">>
    OBVIOUS
  <1>6. /\ Head(<<"OpenSuccess", "Closed">>) = "OpenSuccess"
        /\ Tail(<<"OpenSuccess", "Closed">>) = <<"Closed">>
    OBVIOUS
  <1>7. \A t, u \in Outcomes : Append(<<t>>, u) = <<t, u>>
    BY ShortAppend, Zenon
  <1>8. Append(<<"OpenSuccess">>, "Closed") = <<"OpenSuccess", "Closed">>
    BY <1>7 DEF Outcomes
  <1> QED BY <1>1, <1>2, <1>3, <1>4, <1>5, <1>6, <1>8

\* The machine asks for a connection.
LEMMA ConversationAsks ==
    ASSUME NEW c, NEW I, NEW a, Conversation("RELEASED", c, I, a)
    PROVE  Conversation("PENDING", c, Append(I, "request"), a)
  BY CallSequences DEF Conversation, CallsFrom

\* The machine gives the connection back.
LEMMA ConversationGivesBack ==
    ASSUME NEW m \in {"PENDING", "ACQUIRED"}, NEW c, NEW I, NEW a, Conversation(m, c, I, a)
    PROVE  Conversation("RELEASING", c, Append(I, "release"), a)
  <1>1. CASE c = "down" /\ a = << >> /\ I \in CallsFrom(m) /\ m = "PENDING"
    BY <1>1, CallSequences DEF Conversation, CallsFrom
  <1>2. CASE I = << >>
    <2>1. Append(I, "release") = Left("RELEASING")
      BY <1>2, CallSequences DEF Left
    <2> QED BY <2>1, <1>2, CallSequences DEF Conversation, CallsFrom
  <1> QED BY <1>1, <1>2 DEF Conversation, Left

\* The machine hears that the connection is open.
LEMMA ConversationOpened ==
    ASSUME NEW m, NEW c, NEW I, NEW a, Conversation(m, c, I, a),
           a # << >>, Head(a) = "OpenSuccess"
    PROVE  Conversation(IF m = "PENDING" THEN "ACQUIRED" ELSE m, c, I, Tail(a))
  <1>1. a \in {<<"OpenSuccess">>, <<"OpenSuccess", "Closed">>} /\ m \in {"PENDING", "RELEASING"}
    BY AnswerSequences DEF Outcomes, Conversation
  <1>3. CASE a = <<"OpenSuccess">>
    <2>1. c = "up" /\ I = Left(m)
      BY <1>3, AnswerSequences DEF Outcomes, Conversation
    <2> QED BY <1>1, <1>3, <2>1, AnswerSequences DEF Outcomes, Conversation, Left
  <1>4. CASE a = <<"OpenSuccess", "Closed">>
    <2>1. c = "down" /\ I \in {<< >>, Left(m)}
      BY <1>4, AnswerSequences DEF Outcomes, Conversation
    <2> QED BY <1>1, <1>4, <2>1, AnswerSequences DEF Outcomes, Conversation, Left
  <1> QED BY <1>1, <1>3, <1>4

\* The machine hears that the connection is closed, or will not come.
LEMMA ConversationOver ==
    ASSUME NEW m, NEW c, NEW I, NEW a, Conversation(m, c, I, a),
           a # << >>, Head(a) \in {"Closed", "OpenFailed"}
    PROVE  /\ Head(a) = "Closed" => m \in {"ACQUIRED", "RELEASING"}
           /\ Head(a) = "OpenFailed" => m \in {"PENDING", "RELEASING"}
           /\ Conversation("RELEASED", c, I, Tail(a))
  BY AnswerSequences DEF Outcomes, Conversation, Left

\* The framework handles a request: the connection is down until then.
LEMMA ConversationRequested ==
    ASSUME NEW m, NEW c, NEW I, NEW a, Conversation(m, c, I, a),
           I # << >>, Head(I) = "request"
    PROVE  c = "down" /\ Conversation(m, "opening", Tail(I), a)
  BY CallSequences DEF Conversation, Left, CallsFrom

\* The framework handles a release, and answers if there was a connection.
LEMMA ConversationReleased ==
    ASSUME NEW m, NEW c, NEW I, NEW a, Conversation(m, c, I, a),
           I # << >>, Head(I) = "release"
    PROVE  Conversation(m, "down", Tail(I), IF c # "down" THEN Append(a, "Closed") ELSE a)
  <1>1. CASE c = "down"
    BY <1>1, CallSequences, AnswerSequences DEF Outcomes, Conversation, Left, CallsFrom
  <1>2. CASE c # "down"
    BY <1>2, CallSequences, AnswerSequences DEF Outcomes, Conversation, Left
  <1> QED BY <1>1, <1>2

\* The connection comes up, is refused, or is lost.
LEMMA ConversationNetwork ==
    ASSUME NEW m, NEW c, NEW I, NEW a, Conversation(m, c, I, a)
    PROVE  /\ c = "opening" => /\ Conversation(m, "up", I, Append(a, "OpenSuccess"))
                               /\ Conversation(m, "down", I, Append(a, "OpenFailed"))
           /\ c = "up" => Conversation(m, "down", I, Append(a, "Closed"))
  BY AnswerSequences DEF Outcomes, Conversation, Left

-----------------------------------------------------------------------------
(* Every step moves the conversation on.  One lemma per event; q is the    *)
(* queue without the message being handled, which tells a.                 *)

\* The queue tells a, and the rest of the conversation fits it.
Talk(a) == Tells(msgs, a) /\ Conversation(mState["AGNSS"], conn, inbox, a)

\* A call to the framework leaves what the queue tells; so does the answer of
\* NativeAgpsHandler, which is about the other machine.
LEMMA CallTells ==
    ASSUME NEW n \in Nifs, NEW request \in BOOLEAN, NEW q \in Seq(Messages),
           NEW a \in Seq(Outcomes), Tells(q, a),
           RequestOrReleaseDataConn(n, request, q) \/ NoDataConnCall(q)
    PROVE  Tells(msgs', a)
  <1>1. CASE msgs' = q
    BY <1>1
  <1>2. CASE \E b \in NativeAnswers(request) : msgs' = q \o b
    <2>1. PICK b \in NativeAnswers(request) : msgs' = q \o b
      BY <1>2
    <2>2. b = << >> \/ \E t \in Outcomes : b = <<[type |-> t, nif |-> "INTERNET"]>>
      BY Zenon DEF NativeAnswers, Outcomes
    <2>3. CASE b = << >>
      <3>1. msgs' = q
        BY <2>1, <2>3
      <3> QED BY <3>1
    <2>4. CASE \E t \in Outcomes : b = <<[type |-> t, nif |-> "INTERNET"]>>
      <3>1. PICK t \in Outcomes : b = <<[type |-> t, nif |-> "INTERNET"]>>
        BY <2>4
      <3> DEFINE m == [type |-> t, nif |-> "INTERNET"]
      <3>2. m \in Messages
        BY AnswersAreMessages DEF Outcomes
      <3>3. \A u \in Outcomes \cup {"PdnType"} : m # AgnssAnswer(u)
        BY DEF AgnssAnswer
      <3> HIDE DEF m
      <3>4. msgs' = Append(q, m)
        BY <2>1, <3>1, <3>2 DEF m
      <3> QED BY <3>2, <3>3, <3>4, TellsPosted
    <2> QED BY <2>2, <2>3, <2>4
  <1> QED BY <1>1, <1>2 DEF RequestOrReleaseDataConn, NoDataConnCall

\* A call of the AGNSS machine is one more for the framework to handle, none
\* of the other machine is.
LEMMA CallArrives ==
    ASSUME NEW request \in BOOLEAN, NEW q
    PROVE  /\ RequestOrReleaseDataConn("AGNSS", request, q) =>
                 inbox' = Append(inbox, IF request THEN "request" ELSE "release")
           /\ RequestOrReleaseDataConn("INTERNET", request, q) => inbox' = inbox
           /\ NoDataConnCall(q) => inbox' = inbox
  BY DEF RequestOrReleaseDataConn, NoDataConnCall

\* An event of the other machine leaves the conversation alone.
LEMMA OtherMachineTalks ==
    ASSUME TypeOK, NEW q \in Seq(Messages), NEW a \in Seq(Outcomes), Tells(q, a),
           Conversation(mState["AGNSS"], conn, inbox, a), conn' = conn,
           \/ \E h \in Handles : \/ ProcessAgpsEventSubscribe("INTERNET", h, q)
                                 \/ ProcessAgpsEventUnsubscribe("INTERNET", h, q)
           \/ ProcessAgpsEventGranted("INTERNET", q)
           \/ ProcessAgpsEventReleased("INTERNET", q)
           \/ ProcessAgpsEventDenied("INTERNET", q)
           \/ NoDataConnCall(q) /\ mState' = mState
    PROVE  Talk(a)'
  <1>1. /\ \/ \E request \in BOOLEAN : RequestOrReleaseDataConn("INTERNET", request, q)
           \/ NoDataConnCall(q)
        /\ mState' = mState \/ \E s \in States : mState' = [mState EXCEPT !["INTERNET"] = s]
    <2>1. CASE \E h \in Handles : \/ ProcessAgpsEventSubscribe("INTERNET", h, q)
                                  \/ ProcessAgpsEventUnsubscribe("INTERNET", h, q)
      BY <2>1, Zenon DEF ProcessAgpsEventSubscribe, ProcessAgpsEventUnsubscribe
    <2>2. CASE \/ ProcessAgpsEventReleased("INTERNET", q)
               \/ ProcessAgpsEventDenied("INTERNET", q)
      BY <2>2, Zenon DEF ProcessAgpsEventReleased, ProcessAgpsEventDenied, ReleasingDone,
                         AllSubscribersDone
    <2>3. CASE ProcessAgpsEventGranted("INTERNET", q)
      BY <2>3, Zenon DEF ProcessAgpsEventGranted
    <2> QED BY <2>1, <2>2, <2>3
  <1>2. mState'["AGNSS"] = mState["AGNSS"]
    BY <1>1 DEF TypeOK
  <1>3. inbox' = inbox
    BY <1>1, CallArrives
  <1>4. Tells(msgs', a)
    BY <1>1, CallTells
  <1> QED BY <1>2, <1>3, <1>4 DEF Talk

\* A subscriber comes or goes.
LEMMA SubscriberTalks ==
    ASSUME TypeOK, NEW q \in Seq(Messages), NEW a \in Seq(Outcomes), Tells(q, a),
           Conversation(mState["AGNSS"], conn, inbox, a), conn' = conn, NEW h \in Handles,
           \/ ProcessAgpsEventSubscribe("AGNSS", h, q)
           \/ ProcessAgpsEventUnsubscribe("AGNSS", h, q)
    PROVE  Talk(a)'
  <1>1. \/ /\ RequestOrReleaseDataConn("AGNSS", TRUE, q)
           /\ mState["AGNSS"] = "RELEASED"
           /\ mState' = [mState EXCEPT !["AGNSS"] = "PENDING"]
        \/ /\ RequestOrReleaseDataConn("AGNSS", FALSE, q)
           /\ mState["AGNSS"] \in {"PENDING", "ACQUIRED"}
           /\ mState' = [mState EXCEPT !["AGNSS"] = "RELEASING"]
        \/ NoDataConnCall(q) /\ mState' = mState
    BY Zenon DEF ProcessAgpsEventSubscribe, ProcessAgpsEventUnsubscribe
  <1>2. Tells(msgs', a)
    BY <1>1, CallTells
  <1>3. CASE /\ RequestOrReleaseDataConn("AGNSS", TRUE, q)
             /\ mState["AGNSS"] = "RELEASED"
             /\ mState' = [mState EXCEPT !["AGNSS"] = "PENDING"]
    <2>1. inbox' = Append(inbox, "request") /\ mState'["AGNSS"] = "PENDING"
      BY <1>3, CallArrives DEF TypeOK
    <2>2. Conversation("PENDING", conn, Append(inbox, "request"), a)
      BY <1>3, ConversationAsks
    <2> QED BY <1>2, <2>1, <2>2 DEF Talk
  <1>4. CASE /\ RequestOrReleaseDataConn("AGNSS", FALSE, q)
             /\ mState["AGNSS"] \in {"PENDING", "ACQUIRED"}
             /\ mState' = [mState EXCEPT !["AGNSS"] = "RELEASING"]
    <2>1. inbox' = Append(inbox, "release") /\ mState'["AGNSS"] = "RELEASING"
      BY <1>4, CallArrives DEF TypeOK
    <2>2. Conversation("RELEASING", conn, Append(inbox, "release"), a)
      BY <1>4, ConversationGivesBack
    <2> QED BY <1>2, <2>1, <2>2 DEF Talk
  <1>5. CASE NoDataConnCall(q) /\ mState' = mState
    BY <1>2, <1>5, CallArrives DEF Talk
  <1> QED BY <1>1, <1>3, <1>4, <1>5

\* The machine hears that the connection is open.
LEMMA GrantedTalks ==
    ASSUME TypeOK, NEW q \in Seq(Messages), NEW a \in Seq(Outcomes), Tells(q, Tail(a)),
           a # << >>, Head(a) = "OpenSuccess",
           Conversation(mState["AGNSS"], conn, inbox, a), conn' = conn,
           ProcessAgpsEventGranted("AGNSS", q)
    PROVE  Talk(Tail(a))'
  <1>1. mState'["AGNSS"] = IF mState["AGNSS"] = "PENDING" THEN "ACQUIRED" ELSE mState["AGNSS"]
    BY DEF ProcessAgpsEventGranted, TypeOK
  <1>2. msgs' = q /\ inbox' = inbox
    BY DEF ProcessAgpsEventGranted, NoDataConnCall
  <1>3. Conversation(mState'["AGNSS"], conn, inbox, Tail(a))
    BY <1>1, ConversationOpened
  <1> QED BY <1>2, <1>3 DEF Talk

\* The machine hears that the connection is closed, or will not come.
LEMMA OverTalks ==
    ASSUME TypeOK, NEW q \in Seq(Messages), NEW a \in Seq(Outcomes), Tells(q, Tail(a)),
           a # << >>, Conversation(mState["AGNSS"], conn, inbox, a), conn' = conn,
           \/ Head(a) = "Closed" /\ ProcessAgpsEventReleased("AGNSS", q)
           \/ Head(a) = "OpenFailed" /\ ProcessAgpsEventDenied("AGNSS", q)
    PROVE  Talk(Tail(a))'
  <1>1. /\ Head(a) = "Closed" => mState["AGNSS"] \in {"ACQUIRED", "RELEASING"}
        /\ Head(a) = "OpenFailed" => mState["AGNSS"] \in {"PENDING", "RELEASING"}
        /\ Conversation("RELEASED", conn, inbox, Tail(a))
    BY ConversationOver
  <1>2. ReleasingDone("AGNSS", q) \/ AllSubscribersDone("AGNSS", q)
    BY <1>1 DEF ProcessAgpsEventReleased, ProcessAgpsEventDenied
  <1>3. \/ /\ RequestOrReleaseDataConn("AGNSS", TRUE, q)
           /\ mState' = [mState EXCEPT !["AGNSS"] = "PENDING"]
        \/ /\ NoDataConnCall(q)
           /\ mState' = [mState EXCEPT !["AGNSS"] = "RELEASED"]
    BY <1>2, Zenon DEF ReleasingDone, AllSubscribersDone
  <1>4. Tail(a) \in Seq(Outcomes)
    OBVIOUS
  <1>5. Tells(msgs', Tail(a))
    BY <1>3, <1>4, CallTells
  <1>6. CASE /\ RequestOrReleaseDataConn("AGNSS", TRUE, q)
             /\ mState' = [mState EXCEPT !["AGNSS"] = "PENDING"]
    <2>1. inbox' = Append(inbox, "request") /\ mState'["AGNSS"] = "PENDING"
      BY <1>6, CallArrives DEF TypeOK
    <2>2. Conversation("PENDING", conn, Append(inbox, "request"), Tail(a))
      BY <1>1, ConversationAsks
    <2> QED BY <1>5, <2>1, <2>2 DEF Talk
  <1>7. CASE /\ NoDataConnCall(q)
             /\ mState' = [mState EXCEPT !["AGNSS"] = "RELEASED"]
    <2>1. inbox' = inbox /\ mState'["AGNSS"] = "RELEASED"
      BY <1>7, CallArrives DEF TypeOK
    <2> QED BY <1>1, <1>5, <2>1 DEF Talk
  <1> QED BY <1>3, <1>6, <1>7

\* A message taken is what the queue tells first, or nothing it tells.
LEMMA HeadTells ==
    ASSUME TypeOK, NEW a \in Seq(Outcomes), Tells(msgs, a), msgs # << >>
    PROVE  /\ Tail(msgs) \in Seq(Messages)
           /\ Head(msgs).type \in {"RequestATL", "ReleaseATL"} => Tells(Tail(msgs), a)
           /\ Head(msgs).type \notin {"RequestATL", "ReleaseATL"} /\ Head(msgs).nif # "AGNSS"
                 => Tells(Tail(msgs), a)
           /\ Head(msgs).type \notin {"RequestATL", "ReleaseATL"} /\ Head(msgs).nif = "AGNSS"
                 => /\ a # << >> /\ Head(a) = Head(msgs).type /\ Head(a) \in Outcomes
                    /\ Tells(Tail(msgs), Tail(a))
  <1>1. /\ Tail(msgs) \in Seq(Messages) /\ Head(msgs) = msgs[1] /\ msgs[1] \in Messages
        /\ msgs \in Seq(Messages) /\ 1 \in 1..Len(msgs)
    BY DEF TypeOK
  <1>2. \A t : AgnssAnswer(t).type = t /\ AgnssAnswer(t).nif = "AGNSS"
    BY DEF AgnssAnswer
  <1>3. CASE ~AnswerAt(msgs, 1)
    <2>1. Tells(Tail(msgs), a)
      BY <1>1, <1>3, TellsTaken
    <2>2. ~(msgs[1].type \notin {"RequestATL", "ReleaseATL"} /\ msgs[1].nif = "AGNSS")
      <3> SUFFICES ASSUME msgs[1].type \notin {"RequestATL", "ReleaseATL"},
                          msgs[1].nif = "AGNSS"
                   PROVE  FALSE
        OBVIOUS
      <3>1. PICK t \in Outcomes \cup {"PdnType"}, n \in Nifs : msgs[1] = [type |-> t, nif |-> n]
        BY <1>1 DEF Messages, Outcomes
      <3>2. msgs[1] = AgnssAnswer(t)
        BY <3>1 DEF AgnssAnswer
      <3> QED BY <1>1, <1>3, <3>2, Zenon DEF AnswerAt
    <2> QED BY <1>1, <2>1, <2>2
  <1>4. CASE AnswerAt(msgs, 1)
    <2>1. a # << >> /\ msgs[1] = AgnssAnswer(Head(a)) /\ Tells(Tail(msgs), Tail(a))
      BY <1>1, <1>4, TellsHeard
    <2>2. Head(a) \in Outcomes
      BY <2>1
    <2>3. Head(msgs).type = Head(a) /\ Head(msgs).nif = "AGNSS"
      BY <1>1, <1>2, <2>1
    <2> QED BY <1>1, <2>1, <2>2, <2>3 DEF Outcomes
  <1> QED BY <1>3, <1>4

\* Every step of a reliable world moves the conversation on.
LEMMA ConnectionStep ==
    ASSUME TypeOK, ConnectionInv, [Next]_vars
    PROVE  ConnectionInv'
  <1> SUFFICES ASSUME Reliable'
               PROVE  /\ \A n \in Nifs : wds'[n] = 0
                      /\ \E b \in Seq(Outcomes) : Talk(b)'
    BY DEF ConnectionInv, Talk
  <1>1. world' = world
    BY DEF Next, CreateAgpsStateMachine, ReportPdnTypeFromWds, ProcessMessage, RequestATL,
           ReleaseATL, ReportAtlOpenSuccess, ReportAtlPdn, ReportAtlOpenFailed, ReportAtlClosed,
           Framework, FrameworkRequest, FrameworkRelease, DataConnOpen, DataConnOpenLongApn,
           DataConnFailed, DataConnLost, NetworkInfo, ModemClose, ModemOpen, vars
  <1>2. Reliable /\ \A n \in Nifs : wds[n] = 0
    BY <1>1 DEF Reliable, ConnectionInv
  <1>3. PICK a \in Seq(Outcomes) : Talk(a)
    BY <1>2 DEF ConnectionInv, Talk
  <1>4. Tells(msgs, a) /\ Conversation(mState["AGNSS"], conn, inbox, a)
    BY <1>3 DEF Talk
  <1>5. Tail(a) \in Seq(Outcomes) \/ a = << >>
    OBVIOUS
  <1>6. wds' = wds
    <2>1. ~world.lookup /\ ~\E n \in Nifs : ReportPdnTypeFromWds(n)
      BY <1>2 DEF Reliable, ReportPdnTypeFromWds
    <2> QED
      BY <2>1
      DEF Next, CreateAgpsStateMachine, ProcessMessage, RequestATL,
          ReleaseATL, ReportAtlOpenSuccess, ReportAtlPdn, ReportAtlOpenFailed, ReportAtlClosed,
          Framework, FrameworkRequest, FrameworkRelease, DataConnOpen, DataConnOpenLongApn,
          DataConnFailed, DataConnLost, NetworkInfo, ModemClose, ModemOpen, vars
  <1> SUFFICES \E b \in Seq(Outcomes) : Talk(b)'
    BY <1>2, <1>6
  <1>7. CASE RequestATL \/ ReleaseATL
    <2>1. /\ msgs # << >> /\ Head(msgs).type \in {"RequestATL", "ReleaseATL"}
          /\ Head(msgs).handle \in Handles /\ conn' = conn
      BY <1>7, QueueHead, MessageFields DEF RequestATL, ReleaseATL, Received, external
    <2>2. Tail(msgs) \in Seq(Messages) /\ Tells(Tail(msgs), a)
      BY <1>4, <2>1, HeadTells
    <2>3. \/ \E n \in Nifs : \/ ProcessAgpsEventSubscribe(n, Head(msgs).handle, Tail(msgs))
                             \/ ProcessAgpsEventUnsubscribe(n, Head(msgs).handle, Tail(msgs))
          \/ NoDataConnCall(Tail(msgs)) /\ mState' = mState
      <3>1. RequestATL => Head(msgs).nif \in Nifs
        BY QueueHead, MessageFields DEF RequestATL
      <3> QED BY <1>7, <3>1 DEF RequestATL, ReleaseATL
    <2>4. Talk(a)'
      BY <1>4, <2>1, <2>2, <2>3, SubscriberTalks, OtherMachineTalks
    <2> QED BY <2>4
  <1>8. CASE ReportAtlOpenSuccess \/ ReportAtlPdn \/ ReportAtlOpenFailed \/ ReportAtlClosed
    <2>1. /\ msgs # << >> /\ Head(msgs).type \notin {"RequestATL", "ReleaseATL"}
          /\ Head(msgs).nif \in Nifs /\ conn' = conn
      BY <1>8, QueueHead, MessageFields
      DEF ReportAtlOpenSuccess, ReportAtlPdn, ReportAtlOpenFailed, ReportAtlClosed, Received,
          external
    <2>2. Tail(msgs) \in Seq(Messages)
      BY <1>4, <2>1, HeadTells
    <2>3. \/ /\ Head(msgs).type \in {"OpenSuccess", "PdnType"}
             /\ ProcessAgpsEventGranted(Head(msgs).nif, Tail(msgs))
          \/ /\ Head(msgs).type = "OpenFailed"
             /\ ProcessAgpsEventDenied(Head(msgs).nif, Tail(msgs))
          \/ /\ Head(msgs).type = "Closed"
             /\ ProcessAgpsEventReleased(Head(msgs).nif, Tail(msgs))
      BY <1>2, <1>8
      DEF Reliable, ReportAtlOpenSuccess, ReportAtlPdn, ReportAtlOpenFailed, ReportAtlClosed,
          Received
    <2>4. CASE Head(msgs).nif = "INTERNET"
      <3>1. Tells(Tail(msgs), a)
        BY <1>4, <2>1, <2>4, HeadTells
      <3>2. Talk(a)'
        BY <1>4, <2>1, <2>2, <2>3, <2>4, <3>1, OtherMachineTalks
      <3> QED BY <3>2
    <2>5. CASE Head(msgs).nif = "AGNSS"
      <3>1. /\ a # << >> /\ Head(a) = Head(msgs).type /\ Head(a) \in Outcomes
            /\ Tells(Tail(msgs), Tail(a))
        BY <1>4, <2>1, <2>5, HeadTells
      <3>2. Talk(Tail(a))'
        BY <1>4, <2>1, <2>2, <2>3, <2>5, <3>1, GrantedTalks, OverTalks DEF Outcomes
      <3> QED BY <1>5, <3>1, <3>2
    <2> QED BY <2>1, <2>4, <2>5
  <1>9. CASE FrameworkRequest
    <2>1. /\ inbox # << >> /\ Head(inbox) = "request"
          /\ msgs' = msgs /\ mState' = mState /\ inbox' = Tail(inbox) /\ conn' = "opening"
      BY <1>9 DEF FrameworkRequest
    <2>2. Conversation(mState["AGNSS"], "opening", Tail(inbox), a)
      BY <1>4, <2>1, ConversationRequested
    <2> QED BY <1>4, <2>1, <2>2 DEF Talk
  <1>10. CASE FrameworkRelease
    <2>1. /\ inbox # << >> /\ Head(inbox) = "release"
          /\ mState' = mState /\ inbox' = Tail(inbox) /\ conn' = "down"
          /\ msgs' = IF conn # "down" THEN Append(msgs, AgnssAnswer("Closed")) ELSE msgs
      BY <1>2, <1>10 DEF FrameworkRelease, FrameworkPost, AgnssAnswer, Reliable
    <2>0. PICK b \in Seq(Outcomes) : b = IF conn # "down" THEN Append(a, "Closed") ELSE a
      <3>1. "Closed" \in Outcomes
        BY DEF Outcomes
      <3>2. Append(a, "Closed") \in Seq(Outcomes)
        BY <3>1
      <3> QED BY <3>2
    <2>2. Conversation(mState["AGNSS"], "down", Tail(inbox), b)
      BY <1>4, <2>0, <2>1, ConversationReleased
    <2>3. Tells(msgs', b)
      <3>1. "Closed" \in Outcomes /\ msgs \in Seq(Messages)
        BY DEF Outcomes, TypeOK
      <3> QED BY <1>4, <2>0, <2>1, <3>1, TellsAnswered
    <2>4. Talk(b)'
      BY <2>1, <2>2, <2>3 DEF Talk
    <2> QED BY <2>3, <2>4
  <1>11. CASE DataConnOpen \/ DataConnFailed \/ DataConnLost
    <2>1. PICK t \in Outcomes, c \in {"up", "down"} :
             /\ msgs' = Append(msgs, AgnssAnswer(t)) /\ mState' = mState /\ inbox' = inbox
             /\ conn' = c
             /\ \/ conn = "opening" /\ c = "up" /\ t = "OpenSuccess"
                \/ conn = "opening" /\ c = "down" /\ t = "OpenFailed"
                \/ conn = "up" /\ c = "down" /\ t = "Closed"
      BY <1>11 DEF DataConnOpen, DataConnFailed, DataConnLost, FrameworkPost, AgnssAnswer, Outcomes
    <2>2. Conversation(mState["AGNSS"], c, inbox, Append(a, t))
      BY <1>4, <2>1, ConversationNetwork
    <2>3. Append(a, t) \in Seq(Outcomes) /\ Tells(msgs', Append(a, t))
      BY <1>4, <2>1, TellsAnswered DEF TypeOK
    <2>4. Talk(Append(a, t))'
      BY <2>1, <2>2, <2>3 DEF Talk
    <2> QED BY <2>3, <2>4
  <1>12. CASE \/ \E n \in Nifs : CreateAgpsStateMachine(n)
              \/ NetworkInfo
              \/ UNCHANGED vars
    <2>1. UNCHANGED <<msgs, mState, inbox, conn>>
      BY <1>12 DEF CreateAgpsStateMachine, NetworkInfo, vars, external
    <2> QED BY <1>4, <2>1 DEF Talk
  <1>13. CASE \E h \in Handles : ModemClose(h) \/ \E n \in Nifs : ModemOpen(h, n)
    <2>1. PICK m \in Messages : /\ msgs' = Append(msgs, m)
                                /\ m.type \in {"RequestATL", "ReleaseATL"}
      <3>1. PICK h \in Handles : ModemClose(h) \/ \E n \in Nifs : ModemOpen(h, n)
        BY <1>13
      <3>2. CASE ModemClose(h)
        BY <3>2, AnswersAreMessages DEF ModemClose
      <3>3. CASE \E n \in Nifs : ModemOpen(h, n)
        <4>1. PICK n \in Nifs : ModemOpen(h, n)
          BY <3>3
        <4> DEFINE m == [type |-> "RequestATL", handle |-> h, nif |-> n]
        <4>2. m \in Messages /\ msgs' = Append(msgs, m)
          BY <4>1, AnswersAreMessages DEF ModemOpen
        <4>3. m.type = "RequestATL"
          OBVIOUS
        <4> HIDE DEF m
        <4> QED BY <4>2, <4>3
      <3> QED BY <3>1, <3>2, <3>3
    <2>2. UNCHANGED <<mState, inbox, conn>>
      BY <1>13 DEF ModemClose, ModemOpen, external
    <2>3. \A t \in Outcomes \cup {"PdnType"} : m # AgnssAnswer(t)
      <3>1. \A t : AgnssAnswer(t).type = t
        BY DEF AgnssAnswer
      <3> QED BY <2>1, <3>1 DEF Outcomes
    <2>4. Tells(msgs', a)
      BY <1>4, <2>1, <2>3, TellsPosted DEF TypeOK
    <2> QED BY <1>4, <2>2, <2>4 DEF Talk
  <1>14. ~DataConnOpenLongApn /\ ~\E n \in Nifs : ReportPdnTypeFromWds(n)
    BY <1>2 DEF Reliable, DataConnOpenLongApn, ReportPdnTypeFromWds
  <1> QED BY <1>7, <1>8, <1>9, <1>10, <1>11, <1>12, <1>13, <1>14
          DEF Next, ProcessMessage, Framework

\* At first there is nothing to tell.
LEMMA ConnectionInit == Init => ConnectionInv
  <1> SUFFICES ASSUME Init PROVE ConnectionInv
    OBVIOUS
  <1>1. /\ \A n \in Nifs : wds[n] = 0
        /\ msgs = << >> /\ inbox = << >> /\ conn = "down" /\ mState["AGNSS"] = "RELEASED"
    BY DEF Init
  <1>2. Tells(<< >>, << >>)
    <2> DEFINE p == [k \in {} |-> k]
    <2>1. p \in [1..Len(<< >>) -> 1..Len(<< >>)] /\ DOMAIN p = {} /\ 1..Len(<< >>) = {}
      OBVIOUS
    <2>2. Increasing(p)
      BY <2>1 DEF Increasing
    <2> QED BY <2>1, <2>2 DEF Tells
  <1>3. Conversation("RELEASED", "down", << >>, << >>)
    BY DEF Conversation
  <1>4. << >> \in Seq(Outcomes)
    OBVIOUS
  <1> QED BY <1>1, <1>2, <1>3, <1>4 DEF ConnectionInv

\* In a reliable world the machine that says it has the connection has it, or
\* the news of its loss is under way; and the framework is never asked for a
\* connection it sets up or holds: for every number of handles and every
\* order of requests, releases, losses and refusals.
THEOREM ConnectionsKept == Spec => [](AcquiredMeansConnected /\ NeverAskedTwice)
  <1>1. ConnectionInv => AcquiredMeansConnected
    <2> SUFFICES ASSUME ConnectionInv, Reliable, mState["AGNSS"] = "ACQUIRED", conn # "up"
                 PROVE  QueuedFor("AGNSS", "Closed")
      BY DEF AcquiredMeansConnected
    <2>1. PICK a \in Seq(Outcomes) :
             Tells(msgs, a) /\ Conversation(mState["AGNSS"], conn, inbox, a)
      BY DEF ConnectionInv
    <2>2. a = <<"Closed">>
      BY <2>1 DEF Conversation
    <2>3. PICK p \in [1..Len(a) -> 1..Len(msgs)] :
             \A k \in 1..Len(a) : msgs[p[k]] = AgnssAnswer(a[k])
      BY <2>1 DEF Tells
    <2>4. 1 \in 1..Len(a) /\ a[1] = "Closed"
      BY <2>2
    <2>5. p[1] \in 1..Len(msgs) /\ msgs[p[1]] = AgnssAnswer("Closed")
      BY <2>3, <2>4
    <2> QED BY <2>5 DEF QueuedFor, Queued, AgnssAnswer
  <1>2. ConnectionInv => NeverAskedTwice
    <2> SUFFICES ASSUME ConnectionInv, Reliable, inbox # << >>, Head(inbox) = "request"
                 PROVE  conn = "down"
      BY DEF NeverAskedTwice
    <2> QED BY ConversationRequested DEF ConnectionInv
  <1>3. TypeOK /\ ConnectionInv /\ [Next]_vars => ConnectionInv'
    BY ConnectionStep
  <1> QED BY <1>1, <1>2, <1>3, ConnectionInit, TypeCorrect, PTL DEF Spec
=============================================================================
