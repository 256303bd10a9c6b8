-------------------------- MODULE Geofences_proofs --------------------------
(***************************************************************************)
(* Proofs about Geofences: the adapter's two maps agree, and a modem that  *)
(* has nothing left to do monitors what the maps say, for any clients,     *)
(* batches, refusals and number of restarts, whether or not the clients    *)
(* wait for their answers.                                                 *)
(*                                                                         *)
(* The invariant has two parts. One is about the names of the fences: a    *)
(* name is in one place at a time, in an item on its way to the modem, in  *)
(* an answer on its way back, or in the map (OneHolder). The other is      *)
(* about the handles of the modem: where one is in its life, told from the *)
(* answers on their way to the adapter. It is new as long as the answer    *)
(* that brings it is under way; the last change accepted by the modem is   *)
(* the last one in the queue; a modem that was opened again is empty until *)
(* engineUp has been posted, and what it is given then is answered behind. *)
(*                                                                         *)
(* The last section follows a fence through a restart of the modem: one    *)
(* whose client was told that it was added is in the map or on its way     *)
(* back to it, unless its client has given it up (SurvivalInv).            *)
(***************************************************************************)
EXTENDS Geofences, SequenceTheorems, FiniteSetTheorems, TLAPS

-----------------------------------------------------------------------------
(* Queues.                                                                 *)

\* A sequence, of whatever elements.
AnySeq(q) == \E S : q \in Seq(S)

\* What is in it.
In(q) == {q[i] : i \in 1..Len(q)}

\* One more.
LEMMA AppendAt ==
  ASSUME NEW q, NEW m, AnySeq(q)
  PROVE  /\ AnySeq(Append(q, m)) /\ Len(q) \in Nat /\ Len(Append(q, m)) = Len(q) + 1
         /\ \A i \in 1..Len(q) : Append(q, m)[i] = q[i]
         /\ Append(q, m)[Len(q) + 1] = m
         /\ In(Append(q, m)) = In(q) \cup {m} /\ Append(q, m) # << >>
  <1>1. PICK S : q \in Seq(S)
    BY DEF AnySeq
  <1> DEFINE T == S \union {m}
             r == Append(q, m)
  <1>2. q \in Seq(T) /\ m \in T
    BY <1>1, SeqMonotonic
  <1> HIDE DEF T
  <1>3. /\ r \in Seq(T) /\ Len(q) \in Nat /\ Len(r) = Len(q) + 1
        /\ \A i \in 1..Len(q) : r[i] = q[i]
        /\ r[Len(q) + 1] = m
    BY <1>2, AppendProperties, LenProperties
  <1> HIDE DEF r
  <1>4. 1..Len(r) = 1..Len(q) \cup {Len(q) + 1}
    BY <1>3
  <1>5. In(r) = In(q) \cup {m} /\ r # << >>
    BY <1>3, <1>4 DEF In
  <1> QED BY <1>3, <1>5 DEF AnySeq, r

\* Two in a row.
LEMMA ConcatAt ==
  ASSUME NEW q, NEW r, AnySeq(q), AnySeq(r)
  PROVE  /\ AnySeq(q \o r) /\ Len(q) \in Nat /\ Len(r) \in Nat /\ Len(q \o r) = Len(q) + Len(r)
         /\ \A i \in 1..Len(q) : (q \o r)[i] = q[i]
         /\ \A i \in 1..Len(r) : (q \o r)[Len(q) + i] = r[i]
         /\ In(q \o r) = In(q) \cup In(r)
  <1>1. PICK S : q \in Seq(S)
    BY DEF AnySeq
  <1>2. PICK R : r \in Seq(R)
    BY DEF AnySeq
  <1> DEFINE T == S \union R
             p == q \o r
  <1>3. q \in Seq(T) /\ r \in Seq(T)
    BY <1>1, <1>2, SeqMonotonic
  <1> HIDE DEF T
  <1>4. /\ p \in Seq(T) /\ Len(p) = Len(q) + Len(r)
        /\ \A i \in 1..Len(q) : p[i] = q[i]
        /\ \A i \in 1..Len(r) : p[Len(q) + i] = r[i]
    BY <1>3, ConcatProperties
  <1>5. Len(q) \in Nat /\ Len(r) \in Nat
    BY <1>3, LenProperties
  <1> HIDE DEF p
  <1>6. \A i \in 1..Len(p) : i \in 1..Len(q) \/ (i - Len(q) \in 1..Len(r) /\ p[i] = r[i - Len(q)])
    <2> SUFFICES ASSUME NEW i \in 1..Len(p), i \notin 1..Len(q)
                 PROVE  i - Len(q) \in 1..Len(r) /\ p[i] = r[i - Len(q)]
      OBVIOUS
    <2>1. i - Len(q) \in 1..Len(r) /\ Len(q) + (i - Len(q)) = i
      BY <1>4, <1>5
    <2> QED BY <1>4, <2>1
  <1>7. In(p) = In(q) \cup In(r)
    <2>1. ASSUME NEW x \in In(p) PROVE x \in In(q) \cup In(r)
      BY <1>4, <1>5, <1>6, <2>1 DEF In
    <2>2. ASSUME NEW x \in In(q) PROVE x \in In(p)
      BY <1>4, <1>5, <2>2 DEF In
    <2>3. ASSUME NEW x \in In(r) PROVE x \in In(p)
      <3>1. PICK i \in 1..Len(r) : x = r[i]
        BY <2>3 DEF In
      <3>2. Len(q) + i \in 1..Len(p)
        BY <1>4, <1>5
      <3> QED BY <1>4, <3>1, <3>2 DEF In
    <2> QED BY <2>1, <2>2, <2>3
  <1> QED BY <1>4, <1>5, <1>7 DEF AnySeq, p

\* Without the first.
LEMMA TailAt ==
  ASSUME NEW q, AnySeq(q), q # << >>
  PROVE  /\ AnySeq(Tail(q)) /\ Len(q) \in Nat \ {0} /\ Len(Tail(q)) \in Nat
         /\ Len(q) = Len(Tail(q)) + 1 /\ Head(q) = q[1]
         /\ \A i \in 1..Len(Tail(q)) : Tail(q)[i] = q[i + 1]
         /\ In(q) = In(Tail(q)) \cup {Head(q)}
  <1> DEFINE r == Tail(q)
  <1>1. PICK S : q \in Seq(S)
    BY DEF AnySeq
  <1>2. /\ r \in Seq(S) /\ Len(q) \in Nat \ {0} /\ Len(r) = Len(q) - 1
        /\ Head(q) = q[1]
        /\ \A i \in 1..Len(r) : r[i] = q[i + 1]
    BY <1>1, HeadTailProperties, LenProperties, EmptySeq
  <1>3. AnySeq(r)
    BY <1>2 DEF AnySeq
  <1> HIDE DEF r
  <1>4. /\ \A i \in 1..Len(r) : i + 1 \in 1..Len(q)
        /\ \A i \in 1..Len(q) : i # 1 => i - 1 \in 1..Len(r) /\ r[i - 1] = q[i]
        /\ 1 \in 1..Len(q)
    BY <1>2
  <1>5. In(q) = In(r) \cup {Head(q)}
    <2>1. ASSUME NEW x \in In(q) PROVE x \in In(r) \cup {Head(q)}
      BY <1>2, <1>4, <2>1 DEF In
    <2>2. ASSUME NEW x \in In(r) \cup {Head(q)} PROVE x \in In(q)
      BY <1>2, <1>4, <2>2 DEF In
    <2> QED BY <2>1, <2>2
  <1> QED BY <1>2, <1>3, <1>5 DEF r

\* None.
LEMMA NoneAt == AnySeq(<< >>) /\ In(<< >>) = {} /\ Len(<< >>) = 0
  <1>1. << >> \in Seq({}) /\ Len(<< >>) = 0
    OBVIOUS
  <1> QED BY <1>1 DEF AnySeq, In

\* A queue with none, or one, behind it.
LEMMA ConcatFew ==
  ASSUME NEW q, NEW m, AnySeq(q)
  PROVE  /\ q \o << >> = q
         /\ AnySeq(<<m>>) /\ In(<<m>>) = {m} /\ Len(<<m>>) = 1 /\ <<m>>[1] = m
         /\ Append(q, m) = q \o <<m>>
  <1> PICK S : q \in Seq(S) BY DEF AnySeq
  <1> DEFINE T == S \union {m}
  <1>1. q \in Seq(T) /\ m \in T
    BY SeqMonotonic
  <1> HIDE DEF T
  <1>2. Append(q, m) = q \o <<m>>
    BY <1>1, AppendIsConcat
  <1>3. q \o << >> = q
    BY ConcatEmptySeq
  <1>4. <<m>> \in Seq({m}) /\ Len(<<m>>) = 1 /\ <<m>>[1] = m /\ 1..1 = {1}
    OBVIOUS
  <1>5. AnySeq(<<m>>) /\ In(<<m>>) = {m}
    BY <1>4 DEF AnySeq, In
  <1> QED BY <1>2, <1>3, <1>4, <1>5

\* A sequence written as a function.
LEMMA Listed ==
  ASSUME NEW q, NEW S, NEW n \in Nat, q \in [1..n -> S]
  PROVE  AnySeq(q) /\ Len(q) = n /\ DOMAIN q = 1..n
  <1>1. q \in Seq(S)
    OBVIOUS
  <1>2. DOMAIN q = 1..Len(q) /\ Len(q) \in Nat
    BY <1>1
  <1>3. 1..Len(q) = 1..n
    BY <1>2
  <1>4. Len(q) = n
    BY <1>2, <1>3
  <1> QED BY <1>1, <1>2, <1>4 DEF AnySeq

\* Places and members.
LEMMA MembersAt ==
  ASSUME NEW q, AnySeq(q)
  PROVE  /\ Len(q) \in Nat /\ DOMAIN q = 1..Len(q)
         /\ \A i \in 1..Len(q) : q[i] \in In(q)
         /\ \A x \in In(q) : \E i \in 1..Len(q) : q[i] = x
         /\ q = << >> <=> Len(q) = 0
  <1> PICK S : q \in Seq(S) BY DEF AnySeq
  <1>1. Len(q) \in Nat /\ DOMAIN q = 1..Len(q) /\ (q = << >> <=> Len(q) = 0)
    BY EmptySeq
  <1> QED BY <1>1 DEF In

-----------------------------------------------------------------------------
(* What the messages and the calls say.                                    *)

\* The answers of the modem.
Answers == {"answer", "restored", "stopped"}

\* The call that an answer answers.
OpOf(C, m) ==
    IF m.type = "answer" THEN C[m.n].op
    ELSE IF m.type = "restored" THEN "restore" ELSE "remove"

\* What a message tells of the modem: the call it accepted, or that it was opened again.
What(C, m) ==
    IF m.type = "engineUp" THEN "up"
    ELSE IF m.type \in Answers /\ m.ok THEN OpOf(C, m) ELSE "none"

\* The handle it is about.
HandleOf(m) == IF m.type \in Answers THEN m.h ELSE 0

\* The calls that bring a handle.
Births == {"add", "restore"}

\* The name of the fence an item of a command is about.
ItemName(C, n, i) == <<C[n].client, C[n].sessions[i]>>

\* The names of the fences that are to be added when a message is handled, or a call made.
MsgNames(C, m) ==
    IF m.type = "command"
    THEN {ItemName(C, m.n, i) : i \in {j \in DOMAIN C[m.n].sessions : C[m.n].op = "add"}}
    ELSE IF m.type = "queued" THEN {x \in {ItemName(C, m.n, m.i)} : C[m.n].op = "add"}
    ELSE IF What(C, m) \in Births THEN {Key(m.fence)} ELSE {}
CallNames(C, e) ==
    IF e.op = "queue" THEN {x \in {ItemName(C, e.n, e.i)} : C[e.n].op = "add"}
    ELSE IF IsAdd(e) THEN {Key(e.fence)} ELSE {}

\* A name is in one place at a time: in one message, one call or one fence of the map.
OneHolder(C, M, E, F) ==
    /\ \A i, j \in 1..Len(M) : \A x \in MsgNames(C, M[i]) : x \in MsgNames(C, M[j]) => i = j
    /\ \A i, j \in 1..Len(E) : \A x \in CallNames(C, E[i]) : x \in CallNames(C, E[j]) => i = j
    /\ \A i \in 1..Len(M), j \in 1..Len(E) :
          \A x \in MsgNames(C, M[i]) : x \notin CallNames(C, E[j])
    /\ \A h \in DOMAIN F :
          /\ \A i \in 1..Len(M) : Key(F[h]) \notin MsgNames(C, M[i])
          /\ \A j \in 1..Len(E) : Key(F[h]) \notin CallNames(C, E[j])
          /\ \A g \in DOMAIN F : Key(F[g]) = Key(F[h]) => g = h

\* The messages and the calls, with the commands as they are now, name what they did.
NamesStay(C, D, M, E) ==
    /\ \A i \in 1..Len(M) : MsgNames(D, M[i]) = MsgNames(C, M[i])
    /\ \A i \in 1..Len(E) : CallNames(D, E[i]) = CallNames(C, E[i])

-----------------------------------------------------------------------------
(* Names move.                                                             *)

\* Where the names of a message m, or of the map F, go: the calls B and the map G.
NamesMove(C, X, m, F, B, G) ==
    /\ \A b \in 1..Len(B) : \A x \in CallNames(X, B[b]) :
          x \in MsgNames(C, m) \/ \E h \in DOMAIN F : x = Key(F[h])
    /\ \A g \in DOMAIN G :
          Key(G[g]) \in MsgNames(C, m) \/ \E h \in DOMAIN F : Key(G[g]) = Key(F[h])
    /\ \A a, b \in 1..Len(B) : \A x \in CallNames(X, B[a]) : x \in CallNames(X, B[b]) => a = b
    /\ \A g, h \in DOMAIN G : Key(G[g]) = Key(G[h]) => g = h
    /\ \A b \in 1..Len(B), g \in DOMAIN G : Key(G[g]) \notin CallNames(X, B[b])

\* A name that the adapter takes from the front message, or from the map, it puts into one
\* call or back into the map.
LEMMA AdapterMoves ==
  ASSUME NEW C, NEW D, NEW M, NEW E, NEW F, NEW B, NEW G,
         OneHolder(C, M, E, F), NamesStay(C, D, M, E),
         AnySeq(M), M # << >>, AnySeq(E), AnySeq(B),
         NamesMove(C, D, Head(M), F, B, G)
  PROVE  OneHolder(D, Tail(M), E \o B, G)
  <1> DEFINE T == Tail(M)
             R == E \o B
             P(x) == x \in MsgNames(C, Head(M)) \/ \E h \in DOMAIN F : x = Key(F[h])
  <1> /\ \A b \in 1..Len(B) : \A x \in CallNames(D, B[b]) : P(x)
      /\ \A g \in DOMAIN G : P(Key(G[g]))
      /\ \A a, b \in 1..Len(B) : \A x \in CallNames(D, B[a]) : x \in CallNames(D, B[b]) => a = b
      /\ \A g, h \in DOMAIN G : Key(G[g]) = Key(G[h]) => g = h
      /\ \A b \in 1..Len(B), g \in DOMAIN G : Key(G[g]) \notin CallNames(D, B[b])
    BY DEF NamesMove
  <1>1. /\ Len(T) \in Nat /\ Len(M) \in Nat /\ Len(M) = Len(T) + 1
        /\ Head(M) = M[1] /\ \A i \in 1..Len(T) : T[i] = M[i + 1]
    BY TailAt
  <1>2. /\ Len(E) \in Nat /\ Len(B) \in Nat /\ Len(R) = Len(E) + Len(B)
        /\ \A i \in 1..Len(E) : R[i] = E[i]
        /\ \A i \in 1..Len(B) : R[Len(E) + i] = B[i]
    BY ConcatAt
  <1> HIDE DEF T, R
  <1>3. \A i \in 1..Len(T) : i + 1 \in 1..Len(M) /\ MsgNames(D, T[i]) = MsgNames(C, M[i + 1])
    BY <1>1 DEF NamesStay
  <1>4. \A i \in 1..Len(E) : CallNames(D, R[i]) = CallNames(C, E[i])
    BY <1>2 DEF NamesStay
  <1>5. \A i \in 1..Len(R) : i \in 1..Len(E) \/ (i - Len(E) \in 1..Len(B) /\ R[i] = B[i - Len(E)])
    <2> SUFFICES ASSUME NEW i \in 1..Len(R), i \notin 1..Len(E)
                 PROVE  i - Len(E) \in 1..Len(B) /\ R[i] = B[i - Len(E)]
      OBVIOUS
    <2>1. i - Len(E) \in 1..Len(B) /\ Len(E) + (i - Len(E)) = i
      BY <1>2
    <2> QED BY <1>2, <2>1
  <1>6. ASSUME NEW x, P(x)
        PROVE  /\ \A i \in 1..Len(T) : x \notin MsgNames(D, T[i])
               /\ \A i \in 1..Len(E) : x \notin CallNames(D, R[i])
    <2>1. \A i \in 1..Len(T) : i + 1 # 1
      BY <1>1
    <2>2. 1 \in 1..Len(M)
      BY <1>1
    <2>3. CASE x \in MsgNames(C, M[1])
      BY <1>3, <1>4, <2>1, <2>2, <2>3 DEF OneHolder
    <2>4. CASE \E h \in DOMAIN F : x = Key(F[h])
      BY <1>3, <1>4, <2>4 DEF OneHolder
    <2> QED BY <1>1, <1>6, <2>3, <2>4
  <1>7. \A b \in 1..Len(B) : \A x \in CallNames(D, B[b]) : P(x)
    OBVIOUS
  <1>8. \A g \in DOMAIN G : P(Key(G[g]))
    OBVIOUS
  <1> HIDE DEF P
  <1>9. \A i, j \in 1..Len(T) : \A x \in MsgNames(D, T[i]) : x \in MsgNames(D, T[j]) => i = j
    <2> SUFFICES ASSUME NEW i \in 1..Len(T), NEW j \in 1..Len(T), NEW x \in MsgNames(D, T[i]),
                        x \in MsgNames(D, T[j])
                 PROVE  i = j
      OBVIOUS
    <2>1. i + 1 = j + 1
      BY <1>3 DEF OneHolder
    <2> QED BY <2>1
  <1>10. \A i, j \in 1..Len(R) : \A x \in CallNames(D, R[i]) : x \in CallNames(D, R[j]) => i = j
    <2> SUFFICES ASSUME NEW i \in 1..Len(R), NEW j \in 1..Len(R), NEW x \in CallNames(D, R[i]),
                        x \in CallNames(D, R[j])
                 PROVE  i = j
      OBVIOUS
    <2>1. CASE i \in 1..Len(E) /\ j \in 1..Len(E)
      BY <1>4, <2>1 DEF OneHolder
    <2>2. CASE i \notin 1..Len(E) /\ j \notin 1..Len(E)
      <3>1. i - Len(E) = j - Len(E)
        BY <1>5, <2>2
      <3> QED BY <1>2, <3>1
    <2>3. CASE i \in 1..Len(E) /\ j \notin 1..Len(E)
      BY <1>5, <1>6, <1>7, <2>3
    <2>4. CASE i \notin 1..Len(E) /\ j \in 1..Len(E)
      BY <1>5, <1>6, <1>7, <2>4
    <2> QED BY <2>1, <2>2, <2>3, <2>4
  <1>11. ASSUME NEW i \in 1..Len(T), NEW j \in 1..Len(R), NEW x \in MsgNames(D, T[i])
         PROVE  x \notin CallNames(D, R[j])
    <2>1. CASE j \in 1..Len(E)
      BY <1>3, <1>4, <2>1 DEF OneHolder
    <2>2. CASE j \notin 1..Len(E)
      BY <1>5, <1>6, <1>7, <2>2
    <2> QED BY <2>1, <2>2
  <1>12. ASSUME NEW h \in DOMAIN G
         PROVE  /\ \A i \in 1..Len(T) : Key(G[h]) \notin MsgNames(D, T[i])
                /\ \A j \in 1..Len(R) : Key(G[h]) \notin CallNames(D, R[j])
                /\ \A g \in DOMAIN G : Key(G[g]) = Key(G[h]) => g = h
    BY <1>5, <1>6, <1>8
  <1>13. OneHolder(D, T, R, G)
    BY <1>9, <1>10, <1>11, <1>12 DEF OneHolder
  <1> QED BY <1>13 DEF T, R

\* A name that the LocApi takes from the front call it puts into the answer.
LEMMA LocApiMoves ==
  ASSUME NEW C, NEW M, NEW E, NEW F, NEW m,
         OneHolder(C, M, E, F), AnySeq(M), AnySeq(E), E # << >>,
         MsgNames(C, m) \subseteq CallNames(C, Head(E))
  PROVE  OneHolder(C, Append(M, m), Tail(E), F)
  <1> DEFINE T == Tail(E)
             R == Append(M, m)
  <1>1. /\ Len(T) \in Nat /\ Len(E) \in Nat /\ Len(E) = Len(T) + 1
        /\ Head(E) = E[1] /\ \A i \in 1..Len(T) : T[i] = E[i + 1]
    BY TailAt
  <1>2. /\ Len(M) \in Nat /\ Len(R) = Len(M) + 1 /\ R[Len(M) + 1] = m
        /\ \A i \in 1..Len(M) : R[i] = M[i]
    BY AppendAt
  <1> HIDE DEF T, R
  <1>3. \A i \in 1..Len(T) : i + 1 \in 1..Len(E) /\ i + 1 # 1 /\ T[i] = E[i + 1]
    BY <1>1
  <1>4. \A i \in 1..Len(R) : i \in 1..Len(M) \/ (i = Len(M) + 1 /\ R[i] = m)
    BY <1>2
  <1>5. 1 \in 1..Len(E)
    BY <1>1
  <1>6. ASSUME NEW x \in MsgNames(C, m)
        PROVE  /\ \A i \in 1..Len(M) : x \notin MsgNames(C, R[i])
               /\ \A i \in 1..Len(T) : x \notin CallNames(C, T[i])
               /\ \A h \in DOMAIN F : x # Key(F[h])
    <2>1. x \in CallNames(C, E[1])
      BY <1>1
    <2>2. \A i \in 1..Len(M) : x \notin MsgNames(C, R[i])
      BY <1>2, <1>5, <2>1 DEF OneHolder
    <2>3. \A i \in 1..Len(T) : x \notin CallNames(C, T[i])
      BY <1>3, <1>5, <2>1 DEF OneHolder
    <2>4. \A h \in DOMAIN F : x # Key(F[h])
      BY <1>5, <2>1 DEF OneHolder
    <2> QED BY <2>2, <2>3, <2>4
  <1>7. \A i, j \in 1..Len(R) : \A x \in MsgNames(C, R[i]) : x \in MsgNames(C, R[j]) => i = j
    <2> SUFFICES ASSUME NEW i \in 1..Len(R), NEW j \in 1..Len(R), NEW x \in MsgNames(C, R[i]),
                        x \in MsgNames(C, R[j])
                 PROVE  i = j
      OBVIOUS
    <2>1. CASE i \in 1..Len(M) /\ j \in 1..Len(M)
      BY <1>2, <2>1 DEF OneHolder
    <2>2. CASE ~(i \in 1..Len(M) /\ j \in 1..Len(M))
      BY <1>4, <1>6, <2>2
    <2> QED BY <2>1, <2>2
  <1>8. \A i, j \in 1..Len(T) : \A x \in CallNames(C, T[i]) : x \in CallNames(C, T[j]) => i = j
    <2> SUFFICES ASSUME NEW i \in 1..Len(T), NEW j \in 1..Len(T), NEW x \in CallNames(C, T[i]),
                        x \in CallNames(C, T[j])
                 PROVE  i = j
      OBVIOUS
    <2>1. i + 1 = j + 1
      BY <1>3 DEF OneHolder
    <2> QED BY <2>1
  <1>9. ASSUME NEW i \in 1..Len(R), NEW j \in 1..Len(T), NEW x \in MsgNames(C, R[i])
        PROVE  x \notin CallNames(C, T[j])
    <2>1. CASE i \in 1..Len(M)
      BY <1>2, <1>3, <2>1 DEF OneHolder
    <2>2. CASE i \notin 1..Len(M)
      BY <1>4, <1>6, <2>2
    <2> QED BY <2>1, <2>2
  <1>10. ASSUME NEW h \in DOMAIN F
         PROVE  /\ \A i \in 1..Len(R) : Key(F[h]) \notin MsgNames(C, R[i])
                /\ \A j \in 1..Len(T) : Key(F[h]) \notin CallNames(C, T[j])
                /\ \A g \in DOMAIN F : Key(F[g]) = Key(F[h]) => g = h
    <2>1. \A i \in 1..Len(M) : Key(F[h]) \notin MsgNames(C, R[i])
      BY <1>2 DEF OneHolder
    <2>2. Key(F[h]) \notin MsgNames(C, m)
      BY <1>6
    <2>3. \A j \in 1..Len(T) : Key(F[h]) \notin CallNames(C, T[j])
      BY <1>3 DEF OneHolder
    <2> QED BY <1>4, <2>1, <2>2, <2>3 DEF OneHolder
  <1>11. OneHolder(C, R, T, F)
    BY <1>7, <1>8, <1>9, <1>10 DEF OneHolder
  <1> QED BY <1>11 DEF T, R

\* A message that brings new names, or none.
LEMMA NewNames ==
  ASSUME NEW C, NEW D, NEW M, NEW E, NEW F, NEW m,
         OneHolder(C, M, E, F), NamesStay(C, D, M, E), AnySeq(M),
         \A x \in MsgNames(D, m) :
            /\ \A i \in 1..Len(M) : x \notin MsgNames(C, M[i])
            /\ \A i \in 1..Len(E) : x \notin CallNames(C, E[i])
            /\ \A h \in DOMAIN F : x # Key(F[h])
  PROVE  OneHolder(D, Append(M, m), E, F)
  <1> DEFINE R == Append(M, m)
  <1>1. /\ Len(M) \in Nat /\ Len(R) = Len(M) + 1 /\ R[Len(M) + 1] = m
        /\ \A i \in 1..Len(M) : R[i] = M[i]
    BY AppendAt
  <1> HIDE DEF R
  <1>2. \A i \in 1..Len(R) : i \in 1..Len(M) \/ (i = Len(M) + 1 /\ R[i] = m)
    BY <1>1
  <1>3. /\ \A i \in 1..Len(M) : MsgNames(D, R[i]) = MsgNames(C, M[i])
        /\ \A i \in 1..Len(E) : CallNames(D, E[i]) = CallNames(C, E[i])
    BY <1>1 DEF NamesStay
  <1>4. \A i, j \in 1..Len(R) : \A x \in MsgNames(D, R[i]) : x \in MsgNames(D, R[j]) => i = j
    <2> SUFFICES ASSUME NEW i \in 1..Len(R), NEW j \in 1..Len(R), NEW x \in MsgNames(D, R[i]),
                        x \in MsgNames(D, R[j])
                 PROVE  i = j
      OBVIOUS
    <2>1. CASE i \in 1..Len(M) /\ j \in 1..Len(M)
      BY <1>3, <2>1 DEF OneHolder
    <2>2. CASE ~(i \in 1..Len(M) /\ j \in 1..Len(M))
      BY <1>2, <1>3, <2>2
    <2> QED BY <2>1, <2>2
  <1>5. ASSUME NEW i \in 1..Len(R), NEW j \in 1..Len(E), NEW x \in MsgNames(D, R[i])
        PROVE  x \notin CallNames(D, E[j])
    <2>1. CASE i \in 1..Len(M)
      BY <1>3, <2>1 DEF OneHolder
    <2>2. CASE i \notin 1..Len(M)
      BY <1>2, <1>3, <2>2
    <2> QED BY <2>1, <2>2
  <1>6. ASSUME NEW h \in DOMAIN F
        PROVE  /\ \A i \in 1..Len(R) : Key(F[h]) \notin MsgNames(D, R[i])
               /\ \A j \in 1..Len(E) : Key(F[h]) \notin CallNames(D, E[j])
               /\ \A g \in DOMAIN F : Key(F[g]) = Key(F[h]) => g = h
    <2>1. \A i \in 1..Len(M) : Key(F[h]) \notin MsgNames(D, R[i])
      BY <1>3 DEF OneHolder
    <2>2. Key(F[h]) \notin MsgNames(D, m)
      OBVIOUS
    <2> QED BY <1>2, <1>3, <2>1, <2>2 DEF OneHolder
  <1>7. \A i, j \in 1..Len(E) : \A x \in CallNames(D, E[i]) : x \in CallNames(D, E[j]) => i = j
    BY <1>3 DEF OneHolder
  <1>8. OneHolder(D, R, E, F)
    BY <1>4, <1>5, <1>6, <1>7 DEF OneHolder
  <1> QED BY <1>8 DEF R

-----------------------------------------------------------------------------
(* The life of a handle.                                                   *)

\* The calls that change a fence.
Changes == {"pause", "resume", "modify"}

\* A fence as it is added.
Unpaused(fence) == [fence EXCEPT !.paused = FALSE]

\* A fence that the modem monitors is in the map, and nothing in the queue will clear the
\* map, or the answer that brings it is under way, and nothing behind it will.
Monitored(C, M, F, D) ==
    \A h \in DOMAIN D :
       \/ h \in DOMAIN F /\ \A i \in 1..Len(M) : What(C, M[i]) # "up"
       \/ \E j \in 1..Len(M) : /\ What(C, M[j]) \in Births /\ M[j].h = h
                               /\ \A i \in 1..Len(M) : i > j => What(C, M[i]) # "up"

\* A handle whose first answer is under way is nowhere else; it is in the modem as the answer
\* says, or else the modem was lost since, and the map is to be cleared after the answer.
Fresh(C, M, E, F, D, u) ==
    \A j \in 1..Len(M) : What(C, M[j]) \in Births =>
       /\ M[j].h # 0 /\ M[j].h \notin DOMAIN F
       /\ \A i \in 1..Len(M) : HandleOf(M[i]) = M[j].h => i = j
       /\ \A e \in In(E) : e.h # M[j].h
       /\ M[j].h \in DOMAIN D => D[M[j].h] = Unpaused(M[j].fence)
       /\ M[j].h \notin DOMAIN D =>
             ~u \/ \E i \in 1..Len(M) : i > j /\ What(C, M[i]) = "up"

\* A fence whose removal is reported is not monitored any more.
Gone(C, M, D) == \A j \in 1..Len(M) : What(C, M[j]) = "remove" => M[j].h \notin DOMAIN D

\* A fence in the map is monitored, or its removal is under way, or the map is to be cleared.
Lasting(C, M, F, D, u, kn) ==
    \A h \in DOMAIN F : F[h].client \in kn =>
       \/ h \in DOMAIN D \/ ~u
       \/ \E i \in 1..Len(M) : What(C, M[i]) = "up" \/ (What(C, M[i]) = "remove" /\ M[i].h = h)

\* It is monitored as the map says, but for the changes whose answers are under way.
Alike(C, M, F, D) ==
    \A h \in DOMAIN F : h \in DOMAIN D =>
       /\ Key(D[h]) = Key(F[h])
       /\ \/ D[h].options = F[h].options
          \/ \E i \in 1..Len(M) : What(C, M[i]) = "modify" /\ M[i].h = h
       /\ \/ F[h].paused => D[h].paused
          \/ \E i \in 1..Len(M) : What(C, M[i]) \in {"pause", "resume"} /\ M[i].h = h

\* The last of those is what the fence is now.
Changed(C, M, D) ==
    \A j \in 1..Len(M) : What(C, M[j]) \in Changes /\ M[j].h \in DOMAIN D =>
       /\ What(C, M[j]) = "modify" => D[M[j].h].options = Modified
       /\ What(C, M[j]) = "pause" =>
             \/ D[M[j].h].paused
             \/ \E i \in 1..Len(M) : i > j /\ What(C, M[i]) = "resume" /\ M[i].h = M[j].h

\* The two maps, as MapsAgree says it.
Agree(F, H, kn) ==
    /\ \A k \in DOMAIN H : H[k] \in DOMAIN F /\ Key(F[H[k]]) = k
    /\ \A h \in DOMAIN F : F[h].client \in kn => Key(F[h]) \in DOMAIN H /\ H[Key(F[h])] = h

\* The handle of a fence that stopClientSessions removes has no name any more.
Nameless(M, E, H) ==
    /\ \A e \in In(E) : e.op = "remove" /\ e.n = 0 => \A k \in DOMAIN H : H[k] # e.h
    /\ \A i \in 1..Len(M) : M[i].type = "stopped" => \A k \in DOMAIN H : H[k] # M[i].h

\* All of it: what is known of the handles.
Lives(C, M, E, F, D, u, kn, H) ==
    /\ Monitored(C, M, F, D) /\ Fresh(C, M, E, F, D, u) /\ Gone(C, M, D)
    /\ Lasting(C, M, F, D, u, kn) /\ Alike(C, M, F, D) /\ Changed(C, M, D)
    /\ Agree(F, H, kn) /\ Nameless(M, E, H)

\* The messages tell what they did with the commands as they are now.
TalesStay(C, X, M) == \A i \in 1..Len(M) : What(X, M[i]) = What(C, M[i])

\* R is M with m behind it, and T is M without its first.
Grown(C, X, M, R, m) ==
    /\ Len(M) \in Nat /\ Len(R) = Len(M) + 1
    /\ Len(M) + 1 \in 1..Len(R) /\ R[Len(M) + 1] = m
    /\ \A i \in 1..Len(M) : /\ i \in 1..Len(R) /\ R[i] = M[i] /\ i < Len(M) + 1
                            /\ What(X, R[i]) = What(C, M[i])
    /\ \A i \in 1..Len(R) : i \in 1..Len(M) \/ i = Len(M) + 1
Shrunk(C, X, M, T) ==
    /\ Len(T) \in Nat /\ Len(M) = Len(T) + 1 /\ 1 \in 1..Len(M) /\ Head(M) = M[1]
    /\ \A i \in 1..Len(T) : /\ i + 1 \in 1..Len(M) /\ T[i] = M[i + 1] /\ i + 1 # 1
                            /\ What(X, T[i]) = What(C, M[i + 1])
    /\ \A i \in 1..Len(M) : i # 1 => /\ i - 1 \in 1..Len(T) /\ T[i - 1] = M[i]
                                     /\ What(X, T[i - 1]) = What(C, M[i])

\* One more message.
LEMMA Posted ==
  ASSUME NEW C, NEW X, NEW M, NEW m, AnySeq(M), TalesStay(C, X, M)
  PROVE  Grown(C, X, M, Append(M, m), m)
  <1> DEFINE R == Append(M, m)
  <1>1. /\ Len(M) \in Nat /\ Len(R) = Len(M) + 1 /\ R[Len(M) + 1] = m
        /\ \A i \in 1..Len(M) : R[i] = M[i]
    BY AppendAt
  <1> HIDE DEF R
  <1> QED BY <1>1 DEF TalesStay, Grown

\* One less.
LEMMA Taken ==
  ASSUME NEW C, NEW X, NEW M, AnySeq(M), M # << >>, TalesStay(C, X, M)
  PROVE  Shrunk(C, X, M, Tail(M))
  <1> DEFINE T == Tail(M)
  <1>1. /\ Len(M) \in Nat \ {0} /\ Len(T) \in Nat
        /\ Len(M) = Len(T) + 1 /\ Head(M) = M[1]
        /\ \A i \in 1..Len(T) : T[i] = M[i + 1]
    BY TailAt
  <1> HIDE DEF T
  <1>2. \A i \in 1..Len(T) : i + 1 \in 1..Len(M) /\ i + 1 # 1
    BY <1>1
  <1>3. \A i \in 1..Len(M) : i # 1 => i - 1 \in 1..Len(T) /\ T[i - 1] = M[i]
    <2> SUFFICES ASSUME NEW i \in 1..Len(M), i # 1 PROVE i - 1 \in 1..Len(T) /\ T[i - 1] = M[i]
      OBVIOUS
    <2>1. i - 1 \in 1..Len(T) /\ (i - 1) + 1 = i
      BY <1>1
    <2> QED BY <1>1, <2>1
  <1>4. 1 \in 1..Len(M)
    BY <1>1
  <1> QED BY <1>1, <1>2, <1>3, <1>4 DEF TalesStay, Shrunk

\* What tells of a call tells of its handle.
LEMMA ToldOf ==
  ASSUME NEW C, NEW m, What(C, m) \in Births \cup Changes \cup {"remove"}
  PROVE  HandleOf(m) = m.h /\ m.type \in Answers /\ m.ok
  BY DEF What, HandleOf, Births, Changes

\* What a message that the LocApi posts tells, where the modem has D2 after the call for the
\* handle g and had D before it.
Truthful(X, M, E, F, D, m, g, D2) ==
    /\ \A j \in 1..Len(M) : What(X, M[j]) \in Births => M[j].h # g /\ M[j].h # HandleOf(m)
    /\ \A h \in DOMAIN D \cup DOMAIN D2 : h # g =>
          h \in DOMAIN D /\ h \in DOMAIN D2 /\ D2[h] = D[h]
    /\ g \in DOMAIN D \ DOMAIN D2 => What(X, m) = "remove" /\ m.h = g
    /\ g \in DOMAIN D2 \ DOMAIN D =>
          /\ What(X, m) \in Births /\ m.h = g /\ g \notin DOMAIN F
          /\ \A i \in 1..Len(M) : HandleOf(M[i]) # g
    /\ g \in DOMAIN D2 \cap DOMAIN D =>
          /\ Key(D2[g]) = Key(D[g])
          /\ D2[g].options = D[g].options \/ (What(X, m) = "modify" /\ m.h = g)
          /\ (D[g].paused => D2[g].paused) \/ (What(X, m) = "resume" /\ m.h = g)
          /\ D[g].options = Modified => D2[g].options = Modified
    /\ What(X, m) = "up" => DOMAIN D2 = {}
    /\ What(X, m) = "remove" => m.h \notin DOMAIN D2
    /\ What(X, m) = "modify" => m.h = g /\ D2[g].options = Modified
    /\ What(X, m) = "pause" => m.h = g /\ D2[g].paused
    /\ What(X, m) \in Births =>
          /\ m.h # 0 /\ m.h \notin DOMAIN F /\ D2[m.h] = Unpaused(m.fence) /\ m.h \in DOMAIN D2
          /\ \A i \in 1..Len(M) : HandleOf(M[i]) # m.h
          /\ \A e \in In(E) : e.h # m.h
    /\ m.type = "stopped" => \E e \in In(E) : e.op = "remove" /\ e.n = 0 /\ e.h = m.h

\* Such a message leaves the lives of the handles in order.
LEMMA TruthLives ==
  ASSUME NEW C, NEW X, NEW M, NEW E, NEW F, NEW D, NEW u, NEW kn, NEW H, NEW m, NEW E2,
         NEW g, NEW D2, NEW u2,
         Lives(C, M, E, F, D, u, kn, H), AnySeq(M), TalesStay(C, X, M),
         Truthful(X, M, E, F, D, m, g, D2), u2 = u \/ What(X, m) = "up",
         \A e \in In(E2) : e \in In(E)
  PROVE  Lives(X, Append(M, m), E2, F, D2, u2, kn, H)
  <1> DEFINE R == Append(M, m)
             n == Len(M) + 1
  <1>0. Grown(C, X, M, R, m)
    BY Posted
  <1> HIDE DEF R
  <1>1. /\ Len(M) \in Nat /\ Len(R) = n /\ R[n] = m /\ n \in 1..Len(R)
        /\ \A i \in 1..Len(M) : i \in 1..Len(R) /\ R[i] = M[i] /\ i < n
                                /\ What(X, R[i]) = What(C, M[i])
        /\ \A i \in 1..Len(R) : i \in 1..Len(M) \/ i = n
        /\ \A i \in 1..Len(R) : ~(i > n)
    BY <1>0 DEF Grown
  <1>2. \A i \in 1..Len(M) : What(X, M[i]) = What(C, M[i])
    BY <1>1
  <1> HIDE DEF n
  <1>3. /\ Births \cap (Changes \cup {"up", "remove"}) = {}
        /\ Changes \cap {"up", "remove"} = {}
        /\ "modify" \in Changes /\ "pause" \in Changes /\ "resume" \in Changes
    BY DEF Births, Changes
  <1>a. \A i \in 1..Len(M) : What(C, M[i]) \in Births \cup Changes \cup {"remove"} =>
           HandleOf(M[i]) = M[i].h
    BY ToldOf
  <1>b. What(X, m) \in Births \cup Changes \cup {"remove"} => HandleOf(m) = m.h
    BY ToldOf
  <1>4. Monitored(X, R, F, D2)
    <2> SUFFICES ASSUME NEW h \in DOMAIN D2
                 PROVE  \/ h \in DOMAIN F /\ \A i \in 1..Len(R) : What(X, R[i]) # "up"
                        \/ \E j \in 1..Len(R) :
                              /\ What(X, R[j]) \in Births /\ R[j].h = h
                              /\ \A i \in 1..Len(R) : i > j => What(X, R[i]) # "up"
      BY DEF Monitored
    <2>0. What(X, m) # "up"
      BY DEF Truthful
    <2>1. CASE h \notin DOMAIN D
      <3>1. What(X, m) \in Births /\ m.h = h
        BY <2>1 DEF Truthful
      <3> QED BY <1>1, <3>1
    <2>2. CASE h \in DOMAIN D
      <3>1. CASE h \in DOMAIN F /\ \A i \in 1..Len(M) : What(C, M[i]) # "up"
        BY <1>1, <2>0, <3>1
      <3>2. CASE \E j \in 1..Len(M) : /\ What(C, M[j]) \in Births /\ M[j].h = h
                                      /\ \A i \in 1..Len(M) : i > j => What(C, M[i]) # "up"
        BY <1>1, <2>0, <3>2
      <3> QED BY <2>2, <3>1, <3>2 DEF Lives, Monitored
    <2> QED BY <2>1, <2>2
  <1>5. Fresh(X, R, E2, F, D2, u2)
    <2> SUFFICES ASSUME NEW j \in 1..Len(R), What(X, R[j]) \in Births
                 PROVE  /\ R[j].h # 0 /\ R[j].h \notin DOMAIN F
                        /\ \A i \in 1..Len(R) : HandleOf(R[i]) = R[j].h => i = j
                        /\ \A e \in In(E2) : e.h # R[j].h
                        /\ R[j].h \in DOMAIN D2 => D2[R[j].h] = Unpaused(R[j].fence)
                        /\ R[j].h \notin DOMAIN D2 =>
                              ~u2 \/ \E i \in 1..Len(R) : i > j /\ What(X, R[i]) = "up"
      BY DEF Fresh
    <2>1. CASE j = n
      <3>1. What(X, m) \in Births
        BY <1>1, <2>1
      <3>2. /\ m.h # 0 /\ m.h \notin DOMAIN F /\ D2[m.h] = Unpaused(m.fence)
            /\ m.h \in DOMAIN D2
            /\ \A i \in 1..Len(M) : HandleOf(M[i]) # m.h
            /\ \A e \in In(E) : e.h # m.h
        BY <3>1 DEF Truthful
      <3>3. \A i \in 1..Len(R) : HandleOf(R[i]) = m.h => i = n
        BY <1>1, <3>2
      <3> QED BY <1>1, <2>1, <3>2, <3>3
    <2>2. CASE j # n
      <3>1. j \in 1..Len(M) /\ R[j] = M[j] /\ What(C, M[j]) \in Births
        BY <1>1, <2>2
      <3>2. /\ M[j].h # 0 /\ M[j].h \notin DOMAIN F
            /\ \A i \in 1..Len(M) : HandleOf(M[i]) = M[j].h => i = j
            /\ \A e \in In(E) : e.h # M[j].h
            /\ M[j].h \in DOMAIN D => D[M[j].h] = Unpaused(M[j].fence)
            /\ M[j].h \notin DOMAIN D =>
                  ~u \/ \E i \in 1..Len(M) : i > j /\ What(C, M[i]) = "up"
        BY <3>1 DEF Lives, Fresh
      <3>3. M[j].h # g /\ M[j].h # HandleOf(m)
        BY <1>2, <3>1 DEF Truthful
      <3>4. \A i \in 1..Len(R) : HandleOf(R[i]) = R[j].h => i = j
        BY <1>1, <3>1, <3>2, <3>3
      <3>5. R[j].h \in DOMAIN D2 => M[j].h \in DOMAIN D /\ D2[M[j].h] = D[M[j].h]
        BY <3>1, <3>3 DEF Truthful
      <3>6. R[j].h \in DOMAIN D2 => D2[R[j].h] = Unpaused(R[j].fence)
        BY <3>1, <3>2, <3>5
      <3>7. ASSUME R[j].h \notin DOMAIN D2
            PROVE  ~u2 \/ \E i \in 1..Len(R) : i > j /\ What(X, R[i]) = "up"
        <4>1. CASE What(X, m) = "up"
          BY <1>1, <3>1, <4>1
        <4>2. CASE What(X, m) # "up"
          <5>1. u2 = u
            BY <4>2
          <5>2. M[j].h \notin DOMAIN D
            BY <3>1, <3>3, <3>7 DEF Truthful
          <5> QED BY <1>1, <3>2, <5>1, <5>2
        <4> QED BY <4>1, <4>2
      <3> QED BY <3>1, <3>2, <3>4, <3>6, <3>7
    <2> QED BY <2>1, <2>2
  <1>6. Gone(X, R, D2)
    <2> SUFFICES ASSUME NEW j \in 1..Len(R), What(X, R[j]) = "remove" PROVE R[j].h \notin DOMAIN D2
      BY DEF Gone
    <2>1. CASE j = n
      BY <1>1, <2>1 DEF Truthful
    <2>2. CASE j # n
      <3>1. j \in 1..Len(M) /\ R[j] = M[j] /\ What(C, M[j]) = "remove"
        BY <1>1, <2>2
      <3>2. M[j].h \notin DOMAIN D /\ HandleOf(M[j]) = M[j].h
        BY <1>a, <3>1 DEF Lives, Gone
      <3> QED BY <3>1, <3>2 DEF Truthful
    <2> QED BY <2>1, <2>2
  <1>7. Lasting(X, R, F, D2, u2, kn)
    <2> SUFFICES ASSUME NEW h \in DOMAIN F, F[h].client \in kn, h \notin DOMAIN D2, u2
                 PROVE  \E i \in 1..Len(R) : \/ What(X, R[i]) = "up"
                                             \/ What(X, R[i]) = "remove" /\ R[i].h = h
      BY DEF Lasting
    <2>1. CASE What(X, m) = "up"
      BY <1>1, <2>1
    <2>2. CASE What(X, m) # "up" /\ h \in DOMAIN D
      <3>1. What(X, m) = "remove" /\ m.h = h
        BY <2>2 DEF Truthful
      <3> QED BY <1>1, <3>1
    <2>3. CASE What(X, m) # "up" /\ h \notin DOMAIN D
      <3>1. \E i \in 1..Len(M) : What(C, M[i]) = "up" \/ (What(C, M[i]) = "remove" /\ M[i].h = h)
        BY <2>3 DEF Lives, Lasting
      <3> QED BY <1>1, <3>1
    <2> QED BY <2>1, <2>2, <2>3
  <1>8. Alike(X, R, F, D2)
    <2> SUFFICES ASSUME NEW h \in DOMAIN F, h \in DOMAIN D2
                 PROVE  /\ Key(D2[h]) = Key(F[h])
                        /\ \/ D2[h].options = F[h].options
                           \/ \E i \in 1..Len(R) : What(X, R[i]) = "modify" /\ R[i].h = h
                        /\ \/ F[h].paused => D2[h].paused
                           \/ \E i \in 1..Len(R) :
                                 What(X, R[i]) \in {"pause", "resume"} /\ R[i].h = h
      BY DEF Alike
    <2>1. h \in DOMAIN D
      BY DEF Truthful
    <2>2. /\ Key(D[h]) = Key(F[h])
          /\ \/ D[h].options = F[h].options
             \/ \E i \in 1..Len(R) : What(X, R[i]) = "modify" /\ R[i].h = h
          /\ \/ F[h].paused => D[h].paused
             \/ \E i \in 1..Len(R) : What(X, R[i]) \in {"pause", "resume"} /\ R[i].h = h
      <3>1. /\ Key(D[h]) = Key(F[h])
            /\ \/ D[h].options = F[h].options
               \/ \E i \in 1..Len(M) : What(C, M[i]) = "modify" /\ M[i].h = h
            /\ \/ F[h].paused => D[h].paused
               \/ \E i \in 1..Len(M) : What(C, M[i]) \in {"pause", "resume"} /\ M[i].h = h
        BY <2>1 DEF Lives, Alike
      <3> QED BY <1>1, <3>1
    <2>3. CASE h # g
      BY <2>1, <2>2, <2>3 DEF Truthful
    <2>4. CASE h = g
      <3>1. /\ Key(D2[h]) = Key(D[h])
            /\ D2[h].options = D[h].options \/ (What(X, m) = "modify" /\ m.h = h)
            /\ (D[h].paused => D2[h].paused) \/ (What(X, m) = "resume" /\ m.h = h)
        BY <2>1, <2>4 DEF Truthful
      <3>2. R[n] = m /\ n \in 1..Len(R)
        BY <1>1
      <3> QED BY <2>2, <3>1, <3>2
    <2> QED BY <2>3, <2>4
  <1>9. Changed(X, R, D2)
    <2> SUFFICES ASSUME NEW j \in 1..Len(R), What(X, R[j]) \in Changes, R[j].h \in DOMAIN D2
                 PROVE  /\ What(X, R[j]) = "modify" => D2[R[j].h].options = Modified
                        /\ What(X, R[j]) = "pause" =>
                              \/ D2[R[j].h].paused
                              \/ \E i \in 1..Len(R) :
                                    i > j /\ What(X, R[i]) = "resume" /\ R[i].h = R[j].h
      BY DEF Changed
    <2>1. CASE j = n
      BY <1>1, <2>1 DEF Truthful
    <2>2. CASE j # n
      <3>1. /\ j \in 1..Len(M) /\ R[j] = M[j] /\ What(X, R[j]) = What(C, M[j])
            /\ HandleOf(M[j]) = M[j].h
        BY <1>1, <1>a, <2>2
      <3>2. M[j].h \in DOMAIN D
        BY <3>1 DEF Truthful
      <3>3. /\ What(C, M[j]) = "modify" => D[M[j].h].options = Modified
            /\ What(C, M[j]) = "pause" =>
                  \/ D[M[j].h].paused
                  \/ \E i \in 1..Len(M) : i > j /\ What(C, M[i]) = "resume" /\ M[i].h = M[j].h
        BY <3>1, <3>2 DEF Lives, Changed
      <3>4. What(C, M[j]) = "pause" =>
                  \/ D[M[j].h].paused
                  \/ \E i \in 1..Len(R) : i > j /\ What(X, R[i]) = "resume" /\ R[i].h = M[j].h
        BY <1>1, <3>3
      <3>5. CASE M[j].h # g
        <4>1. D2[M[j].h] = D[M[j].h]
          BY <3>2, <3>5 DEF Truthful
        <4> QED BY <3>1, <3>3, <3>4, <4>1
      <3>6. CASE M[j].h = g
        <4>1. /\ (D[g].paused => D2[g].paused) \/ (What(X, m) = "resume" /\ m.h = g)
              /\ D[g].options = Modified => D2[g].options = Modified
          BY <3>1, <3>2, <3>6 DEF Truthful
        <4>2. n \in 1..Len(R) /\ n > j /\ R[n] = m
          BY <1>1, <3>1
        <4> QED BY <3>1, <3>3, <3>4, <3>6, <4>1, <4>2
      <3> QED BY <3>5, <3>6
    <2> QED BY <2>1, <2>2
  <1>10. Nameless(R, E2, H)
    <2>1. \A e \in In(E2) : e.op = "remove" /\ e.n = 0 => \A k \in DOMAIN H : H[k] # e.h
      BY DEF Lives, Nameless
    <2>2. m.type = "stopped" => \A k \in DOMAIN H : H[k] # m.h
      BY DEF Lives, Nameless, Truthful
    <2>3. \A i \in 1..Len(R) : R[i].type = "stopped" => \A k \in DOMAIN H : H[k] # R[i].h
      BY <1>1, <2>2 DEF Lives, Nameless
    <2> QED BY <2>1, <2>3 DEF Nameless
  <1>11. Lives(X, R, E2, F, D2, u2, kn, H)
    BY <1>4, <1>5, <1>6, <1>7, <1>8, <1>9, <1>10 DEF Lives
  <1> QED BY <1>11 DEF R

\* The modem is lost.
LEMMA CrashLives ==
  ASSUME NEW C, NEW M, NEW E, NEW F, NEW D, NEW u, NEW kn, NEW H, NEW D2, NEW E2,
         Lives(C, M, E, F, D, u, kn, H), DOMAIN D2 = {},
         \A e \in In(E2) : e \in In(E) \/ (e.h = 0 /\ e.op # "remove")
  PROVE  Lives(C, M, E2, F, D2, FALSE, kn, H)
  <1>1. Monitored(C, M, F, D2) /\ Alike(C, M, F, D2) /\ Changed(C, M, D2) /\ Gone(C, M, D2)
    BY DEF Monitored, Alike, Changed, Gone
  <1>2. Fresh(C, M, E2, F, D2, FALSE)
    BY DEF Lives, Fresh
  <1>3. Lasting(C, M, F, D2, FALSE, kn)
    BY DEF Lasting
  <1>4. Nameless(M, E2, H)
    BY DEF Lives, Nameless
  <1> QED BY <1>1, <1>2, <1>3, <1>4 DEF Lives

\* A call without an answer: a fence restored is paused again.
LEMMA SilentLives ==
  ASSUME NEW C, NEW M, NEW E, NEW F, NEW D, NEW u, NEW kn, NEW H, NEW D2, NEW E2, NEW g,
         Lives(C, M, E, F, D, u, kn, H), DOMAIN D2 = DOMAIN D,
         \A h \in DOMAIN D : h # g => D2[h] = D[h],
         g \in DOMAIN D => /\ Key(D2[g]) = Key(D[g]) /\ D2[g].options = D[g].options
                           /\ D[g].paused => D2[g].paused,
         \E e \in In(E) : e.h = g, \A e \in In(E2) : e \in In(E)
  PROVE  Lives(C, M, E2, F, D2, u, kn, H)
  <1>1. Monitored(C, M, F, D2)
    BY DEF Lives, Monitored
  <1>2. Gone(C, M, D2) /\ Lasting(C, M, F, D2, u, kn)
    BY DEF Lives, Gone, Lasting
  <1>3. Alike(C, M, F, D2)
    <2> SUFFICES ASSUME NEW h \in DOMAIN F, h \in DOMAIN D
                 PROVE  /\ Key(D2[h]) = Key(F[h])
                        /\ \/ D2[h].options = F[h].options
                           \/ \E i \in 1..Len(M) : What(C, M[i]) = "modify" /\ M[i].h = h
                        /\ \/ F[h].paused => D2[h].paused
                           \/ \E i \in 1..Len(M) : /\ What(C, M[i]) \in {"pause", "resume"}
                                                  /\ M[i].h = h
      BY DEF Alike
    <2>1. /\ Key(D[h]) = Key(F[h])
          /\ \/ D[h].options = F[h].options
             \/ \E i \in 1..Len(M) : What(C, M[i]) = "modify" /\ M[i].h = h
          /\ \/ F[h].paused => D[h].paused
             \/ \E i \in 1..Len(M) : What(C, M[i]) \in {"pause", "resume"} /\ M[i].h = h
      BY DEF Lives, Alike
    <2>2. CASE h = g
      BY <2>1, <2>2
    <2>3. CASE h # g
      BY <2>1, <2>3
    <2> QED BY <2>2, <2>3
  <1>4. Fresh(C, M, E2, F, D2, u)
    <2> SUFFICES ASSUME NEW j \in 1..Len(M), What(C, M[j]) \in Births
                 PROVE  /\ M[j].h # 0 /\ M[j].h \notin DOMAIN F
                        /\ \A i \in 1..Len(M) : HandleOf(M[i]) = M[j].h => i = j
                        /\ \A e \in In(E2) : e.h # M[j].h
                        /\ M[j].h \in DOMAIN D => D2[M[j].h] = Unpaused(M[j].fence)
                        /\ M[j].h \notin DOMAIN D =>
                              ~u \/ \E i \in 1..Len(M) : i > j /\ What(C, M[i]) = "up"
      BY DEF Fresh
    <2>1. /\ M[j].h # 0 /\ M[j].h \notin DOMAIN F
          /\ \A i \in 1..Len(M) : HandleOf(M[i]) = M[j].h => i = j
          /\ \A e \in In(E) : e.h # M[j].h
          /\ M[j].h \in DOMAIN D => D[M[j].h] = Unpaused(M[j].fence)
          /\ M[j].h \notin DOMAIN D =>
                ~u \/ \E i \in 1..Len(M) : i > j /\ What(C, M[i]) = "up"
      BY DEF Lives, Fresh
    <2>2. M[j].h # g
      BY <2>1
    <2> QED BY <2>1, <2>2
  <1>5. Changed(C, M, D2)
    <2> SUFFICES ASSUME NEW j \in 1..Len(M), What(C, M[j]) \in Changes, M[j].h \in DOMAIN D
                 PROVE  /\ What(C, M[j]) = "modify" => D2[M[j].h].options = Modified
                        /\ What(C, M[j]) = "pause" =>
                              \/ D2[M[j].h].paused
                              \/ \E i \in 1..Len(M) :
                                    i > j /\ What(C, M[i]) = "resume" /\ M[i].h = M[j].h
      BY DEF Changed
    <2>1. /\ What(C, M[j]) = "modify" => D[M[j].h].options = Modified
          /\ What(C, M[j]) = "pause" =>
                \/ D[M[j].h].paused
                \/ \E i \in 1..Len(M) : i > j /\ What(C, M[i]) = "resume" /\ M[i].h = M[j].h
      BY DEF Lives, Changed
    <2>2. CASE M[j].h = g
      BY <2>1, <2>2
    <2>3. CASE M[j].h # g
      BY <2>1, <2>3
    <2> QED BY <2>2, <2>3
  <1>6. Nameless(M, E2, H)
    BY DEF Lives, Nameless
  <1> QED BY <1>1, <1>2, <1>3, <1>4, <1>5, <1>6 DEF Lives

\* What the adapter makes of a message m about the handle g: the map is F2 and was F.
Heeded(C, E, F, kn, m, g, F2, kn2, E2) ==
    /\ What(C, m) # "up" /\ kn2 \subseteq kn
    /\ \A h \in DOMAIN F \cup DOMAIN F2 : h # g =>
          h \in DOMAIN F /\ h \in DOMAIN F2 /\ F2[h] = F[h]
    /\ g \in DOMAIN F \ DOMAIN F2 => What(C, m) = "remove" /\ m.h = g
    /\ What(C, m) = "remove" => m.h = g /\ (g \in DOMAIN F2 => F2[g].client \notin kn2)
    /\ g \in DOMAIN F2 \ DOMAIN F => What(C, m) \in Births
    /\ What(C, m) \in Births => m.h = g /\ g \in DOMAIN F2 /\ F2[g] = Unpaused(m.fence)
    /\ g \in DOMAIN F \cap DOMAIN F2 =>
          /\ Key(F2[g]) = Key(F[g]) /\ F2[g].client = F[g].client
          /\ F2[g].options = F[g].options \/ (What(C, m) = "modify" /\ m.h = g)
          /\ F2[g].paused = F[g].paused \/ (What(C, m) \in {"pause", "resume"} /\ m.h = g)
    /\ What(C, m) \in Changes /\ m.h \in DOMAIN F =>
          /\ m.h = g
          /\ What(C, m) = "modify" => F2[g].options = Modified
          /\ What(C, m) = "resume" => ~F2[g].paused
    /\ \A e \in In(E2) : \/ e \in In(E) \/ e.h = 0 \/ e.h \in DOMAIN F
                         \/ What(C, m) \in Births /\ e.h = g

\* That leaves the lives in order, if the maps agree and stopped fences are nameless.
LEMMA HeedLives ==
  ASSUME NEW C, NEW X, NEW M, NEW E, NEW F, NEW D, NEW u, NEW kn, NEW H, NEW E2,
         NEW g, NEW F2, NEW kn2, NEW H2,
         Lives(C, M, E, F, D, u, kn, H), AnySeq(M), M # << >>, TalesStay(C, X, M),
         Heeded(C, E, F, kn, Head(M), g, F2, kn2, E2),
         Agree(F2, H2, kn2), Nameless(Tail(M), E2, H2)
  PROVE  Lives(X, Tail(M), E2, F2, D, u, kn2, H2)
  <1> DEFINE T == Tail(M)
  <1>0. Shrunk(C, X, M, T)
    BY Taken
  <1> HIDE DEF T
  <1>1. /\ Len(T) \in Nat /\ Len(M) = Len(T) + 1 /\ 1 \in 1..Len(M) /\ Head(M) = M[1]
        /\ \A i \in 1..Len(T) : /\ i + 1 \in 1..Len(M) /\ T[i] = M[i + 1] /\ i + 1 # 1
                                /\ What(X, T[i]) = What(C, M[i + 1])
        /\ \A i \in 1..Len(M) : i # 1 => /\ i - 1 \in 1..Len(T) /\ T[i - 1] = M[i]
                                         /\ What(X, T[i - 1]) = What(C, M[i])
    BY <1>0 DEF Shrunk
  <1>2. /\ \A i \in 1..Len(T), j \in 1..Len(M) : i > j - 1 => i + 1 > j
        /\ \A i \in 1..Len(M), j \in 1..Len(T) : i > j + 1 => i - 1 > j
        /\ \A i, j \in 1..Len(T) : i + 1 = j + 1 => i = j
        /\ \A i \in 1..Len(T) : i + 1 > 1
        /\ \A i, j \in 1..Len(M) : j > i => j # 1
    BY <1>1
  <1>3. /\ Births \cap (Changes \cup {"up", "remove"}) = {}
        /\ Changes \cap {"up", "remove"} = {}
        /\ "modify" \in Changes /\ "pause" \in Changes /\ "resume" \in Changes
    BY DEF Births, Changes
  <1> DEFINE m == M[1]
  <1>m. Heeded(C, E, F, kn, m, g, F2, kn2, E2)
    BY <1>1
  <1>n. What(C, m) \in Births => HandleOf(m) = m.h
    BY ToldOf
  <1> HIDE DEF m
  <1>4. Monitored(X, T, F2, D)
    <2> SUFFICES ASSUME NEW h \in DOMAIN D
                 PROVE  \/ h \in DOMAIN F2 /\ \A i \in 1..Len(T) : What(X, T[i]) # "up"
                        \/ \E j \in 1..Len(T) :
                              /\ What(X, T[j]) \in Births /\ T[j].h = h
                              /\ \A i \in 1..Len(T) : i > j => What(X, T[i]) # "up"
      BY DEF Monitored
    <2>1. CASE h \in DOMAIN F /\ \A i \in 1..Len(M) : What(C, M[i]) # "up"
      <3>1. What(C, m) = "remove" => m.h # h
        BY <1>1 DEF Lives, Gone, m
      <3>2. h \in DOMAIN F2
        BY <1>m, <2>1, <3>1 DEF Heeded
      <3> QED BY <1>1, <2>1, <3>2
    <2>2. ASSUME NEW j \in 1..Len(M), What(C, M[j]) \in Births, M[j].h = h,
                 \A i \in 1..Len(M) : i > j => What(C, M[i]) # "up"
          PROVE  \/ h \in DOMAIN F2 /\ \A i \in 1..Len(T) : What(X, T[i]) # "up"
                 \/ \E k \in 1..Len(T) :
                       /\ What(X, T[k]) \in Births /\ T[k].h = h
                       /\ \A i \in 1..Len(T) : i > k => What(X, T[i]) # "up"
      <3>1. CASE j = 1
        <4>1. h \in DOMAIN F2
          BY <1>m, <2>2, <3>1 DEF Heeded, m
        <4>2. \A i \in 1..Len(T) : What(X, T[i]) # "up"
          BY <1>1, <1>2, <2>2, <3>1
        <4> QED BY <4>1, <4>2
      <3>2. CASE j # 1
        <4>1. j - 1 \in 1..Len(T) /\ T[j - 1] = M[j] /\ What(X, T[j - 1]) = What(C, M[j])
          BY <1>1, <3>2
        <4>2. \A i \in 1..Len(T) : i > j - 1 => What(X, T[i]) # "up"
          BY <1>1, <1>2, <2>2
        <4> QED BY <2>2, <4>1, <4>2
      <3> QED BY <3>1, <3>2
    <2> QED BY <2>1, <2>2 DEF Lives, Monitored
  <1>5. Fresh(X, T, E2, F2, D, u)
    <2> SUFFICES ASSUME NEW j \in 1..Len(T), What(X, T[j]) \in Births
                 PROVE  /\ T[j].h # 0 /\ T[j].h \notin DOMAIN F2
                        /\ \A i \in 1..Len(T) : HandleOf(T[i]) = T[j].h => i = j
                        /\ \A e \in In(E2) : e.h # T[j].h
                        /\ T[j].h \in DOMAIN D => D[T[j].h] = Unpaused(T[j].fence)
                        /\ T[j].h \notin DOMAIN D =>
                              ~u \/ \E i \in 1..Len(T) : i > j /\ What(X, T[i]) = "up"
      BY DEF Fresh
    <2> DEFINE k == j + 1
    <2>1. /\ k \in 1..Len(M) /\ k # 1 /\ T[j] = M[k] /\ What(C, M[k]) \in Births
      BY <1>1
    <2>2. /\ M[k].h # 0 /\ M[k].h \notin DOMAIN F
          /\ \A i \in 1..Len(M) : HandleOf(M[i]) = M[k].h => i = k
          /\ \A e \in In(E) : e.h # M[k].h
          /\ M[k].h \in DOMAIN D => D[M[k].h] = Unpaused(M[k].fence)
          /\ M[k].h \notin DOMAIN D =>
                ~u \/ \E i \in 1..Len(M) : i > k /\ What(C, M[i]) = "up"
      BY <2>1 DEF Lives, Fresh
    <2>3. What(C, m) \in Births => M[k].h # g
      BY <1>1, <1>m, <1>n, <2>1, <2>2 DEF Heeded, m
    <2>4. T[j].h \notin DOMAIN F2
      BY <1>m, <2>1, <2>2, <2>3 DEF Heeded
    <2>5. \A i \in 1..Len(T) : HandleOf(T[i]) = T[j].h => i = j
      <3> SUFFICES ASSUME NEW i \in 1..Len(T), HandleOf(T[i]) = T[j].h PROVE i = j
        OBVIOUS
      <3>1. i + 1 \in 1..Len(M) /\ HandleOf(M[i + 1]) = M[k].h
        BY <1>1, <2>1
      <3>2. i + 1 = k
        BY <2>2, <3>1
      <3> QED BY <3>2
    <2>6. \A e \in In(E2) : e.h # T[j].h
      BY <1>m, <2>1, <2>2, <2>3 DEF Heeded
    <2>7. T[j].h \notin DOMAIN D => ~u \/ \E i \in 1..Len(T) : i > j /\ What(X, T[i]) = "up"
      <3> SUFFICES ASSUME M[k].h \notin DOMAIN D, u
                   PROVE  \E i \in 1..Len(T) : i > j /\ What(X, T[i]) = "up"
        BY <2>1
      <3>1. PICK i \in 1..Len(M) : i > k /\ What(C, M[i]) = "up"
        BY <2>2
      <3>2. i - 1 \in 1..Len(T) /\ i - 1 > j /\ T[i - 1] = M[i]
        BY <1>1, <2>1, <3>1
      <3>3. What(X, T[i - 1]) = "up"
        BY <1>1, <3>1, <3>2
      <3> QED BY <3>2, <3>3
    <2> QED BY <2>1, <2>2, <2>4, <2>5, <2>6, <2>7
  <1>6. Gone(X, T, D)
    BY <1>1 DEF Lives, Gone
  <1>7. Lasting(X, T, F2, D, u, kn2)
    <2> SUFFICES ASSUME NEW h \in DOMAIN F2, F2[h].client \in kn2, h \notin DOMAIN D, u
                 PROVE  \E i \in 1..Len(T) : \/ What(X, T[i]) = "up"
                                             \/ What(X, T[i]) = "remove" /\ T[i].h = h
      BY DEF Lasting
    <2>1. CASE h \in DOMAIN F
      <3>1. F[h].client \in kn
        BY <1>m, <2>1 DEF Heeded
      <3>2. PICK i \in 1..Len(M) : \/ What(C, M[i]) = "up"
                                   \/ What(C, M[i]) = "remove" /\ M[i].h = h
        BY <2>1, <3>1 DEF Lives, Lasting
      <3>3. i # 1
        BY <1>m, <3>2 DEF Heeded, m
      <3> QED BY <1>1, <3>2, <3>3
    <2>2. CASE h \notin DOMAIN F
      <3>1. What(C, m) \in Births /\ m.h = h
        BY <1>m, <2>2 DEF Heeded
      <3>2. PICK i \in 1..Len(M) : i > 1 /\ What(C, M[i]) = "up"
        BY <1>1, <3>1 DEF Lives, Fresh, m
      <3> QED BY <1>1, <1>2, <3>2
    <2> QED BY <2>1, <2>2
  <1>8. Alike(X, T, F2, D)
    <2> SUFFICES ASSUME NEW h \in DOMAIN F2, h \in DOMAIN D
                 PROVE  /\ Key(D[h]) = Key(F2[h])
                        /\ \/ D[h].options = F2[h].options
                           \/ \E i \in 1..Len(T) : What(X, T[i]) = "modify" /\ T[i].h = h
                        /\ \/ F2[h].paused => D[h].paused
                           \/ \E i \in 1..Len(T) :
                                 What(X, T[i]) \in {"pause", "resume"} /\ T[i].h = h
      BY DEF Alike
    <2>1. CASE h \notin DOMAIN F
      <3>1. What(C, m) \in Births /\ m.h = h /\ F2[h] = Unpaused(m.fence)
        BY <1>m, <2>1 DEF Heeded
      <3>2. D[h] = Unpaused(m.fence)
        BY <1>1, <3>1 DEF Lives, Fresh, m
      <3> QED BY <3>1, <3>2
    <2>2. CASE h \in DOMAIN F
      <3>1. /\ Key(D[h]) = Key(F[h])
            /\ \/ D[h].options = F[h].options
               \/ \E i \in 1..Len(M) : What(C, M[i]) = "modify" /\ M[i].h = h
            /\ \/ F[h].paused => D[h].paused
               \/ \E i \in 1..Len(M) : What(C, M[i]) \in {"pause", "resume"} /\ M[i].h = h
        BY <2>2 DEF Lives, Alike
      <3>2. Key(F2[h]) = Key(F[h])
        BY <1>m, <2>2 DEF Heeded
      <3>3. \/ D[h].options = F2[h].options
            \/ \E i \in 1..Len(T) : What(X, T[i]) = "modify" /\ T[i].h = h
        <4>1. CASE What(C, m) = "modify" /\ m.h = h
          <5>1. F2[h].options = Modified
            BY <1>3, <1>m, <2>2, <4>1 DEF Heeded
          <5>2. D[h].options = Modified
            BY <1>1, <1>3, <4>1 DEF Lives, Changed, m
          <5> QED BY <5>1, <5>2
        <4>2. CASE ~(What(C, m) = "modify" /\ m.h = h)
          <5>1. F2[h].options = F[h].options
            BY <1>m, <2>2, <4>2 DEF Heeded
          <5> QED BY <1>1, <3>1, <4>2, <5>1 DEF m
        <4> QED BY <4>1, <4>2
      <3>4. \/ F2[h].paused => D[h].paused
            \/ \E i \in 1..Len(T) : What(X, T[i]) \in {"pause", "resume"} /\ T[i].h = h
        <4>1. CASE What(C, m) = "pause" /\ m.h = h
          <5>1. \/ D[h].paused
                \/ \E i \in 1..Len(M) : i > 1 /\ What(C, M[i]) = "resume" /\ M[i].h = h
            BY <1>1, <1>3, <4>1 DEF Lives, Changed, m
          <5> QED BY <1>1, <1>2, <5>1
        <4>2. CASE What(C, m) = "resume" /\ m.h = h
          <5>1. ~F2[h].paused
            BY <1>3, <1>m, <2>2, <4>2 DEF Heeded
          <5> QED BY <5>1
        <4>3. CASE ~(What(C, m) \in {"pause", "resume"} /\ m.h = h)
          <5>1. F2[h].paused = F[h].paused
            BY <1>m, <2>2, <4>3 DEF Heeded
          <5> QED BY <1>1, <3>1, <4>3, <5>1 DEF m
        <4> QED BY <4>1, <4>2, <4>3
      <3> QED BY <3>1, <3>2, <3>3, <3>4
    <2> QED BY <2>1, <2>2
  <1>9. Changed(X, T, D)
    <2> SUFFICES ASSUME NEW j \in 1..Len(T), What(X, T[j]) \in Changes, T[j].h \in DOMAIN D
                 PROVE  /\ What(X, T[j]) = "modify" => D[T[j].h].options = Modified
                        /\ What(X, T[j]) = "pause" =>
                              \/ D[T[j].h].paused
                              \/ \E i \in 1..Len(T) :
                                    i > j /\ What(X, T[i]) = "resume" /\ T[i].h = T[j].h
      BY DEF Changed
    <2> DEFINE k == j + 1
    <2>1. /\ k \in 1..Len(M) /\ k # 1 /\ T[j] = M[k] /\ What(X, T[j]) = What(C, M[k])
      BY <1>1
    <2>2. /\ What(C, M[k]) = "modify" => D[M[k].h].options = Modified
          /\ What(C, M[k]) = "pause" =>
                \/ D[M[k].h].paused
                \/ \E i \in 1..Len(M) : i > k /\ What(C, M[i]) = "resume" /\ M[i].h = M[k].h
      BY <2>1 DEF Lives, Changed
    <2>3. ASSUME NEW i \in 1..Len(M), i > k
          PROVE  i - 1 \in 1..Len(T) /\ i - 1 > j /\ T[i - 1] = M[i]
                 /\ What(X, T[i - 1]) = What(C, M[i])
      BY <1>1, <1>2, <2>1, <2>3
    <2> QED BY <2>1, <2>2, <2>3
  <1>10. Lives(X, T, E2, F2, D, u, kn2, H2)
    BY <1>4, <1>5, <1>6, <1>7, <1>8, <1>9 DEF Lives, T
  <1> QED BY <1>10 DEF T

\* The maps are cleared.
LEMMA ClearLives ==
  ASSUME NEW C, NEW M, NEW E, NEW F, NEW D, NEW u, NEW kn, NEW H, NEW E2, NEW F2, NEW H2,
         Lives(C, M, E, F, D, u, kn, H), AnySeq(M), M # << >>,
         What(C, Head(M)) = "up", DOMAIN F2 = {}, DOMAIN H2 = {},
         \A e \in In(E2) : e \in In(E) \/ e.h = 0
  PROVE  Lives(C, Tail(M), E2, F2, D, u, kn, H2)
  <1> DEFINE T == Tail(M)
  <1>a. TalesStay(C, C, M)
    BY DEF TalesStay
  <1>0. Shrunk(C, C, M, T)
    BY <1>a, Taken
  <1> HIDE DEF T
  <1>1. /\ Len(T) \in Nat /\ Len(M) = Len(T) + 1 /\ 1 \in 1..Len(M) /\ Head(M) = M[1]
        /\ \A i \in 1..Len(T) : /\ i + 1 \in 1..Len(M) /\ T[i] = M[i + 1] /\ i + 1 # 1
                                /\ What(C, T[i]) = What(C, M[i + 1])
        /\ \A i \in 1..Len(M) : i # 1 => /\ i - 1 \in 1..Len(T) /\ T[i - 1] = M[i]
                                         /\ What(C, T[i - 1]) = What(C, M[i])
    BY <1>0 DEF Shrunk
  <1>2. /\ \A i \in 1..Len(T), j \in 1..Len(M) : i > j - 1 => i + 1 > j
        /\ \A i \in 1..Len(M), j \in 1..Len(T) : i > j + 1 => i - 1 > j
        /\ \A i, j \in 1..Len(T) : i + 1 = j + 1 => i = j
        /\ \A i, j \in 1..Len(M) : j > i => j # 1
    BY <1>1
  <1>3. "up" \notin Births
    BY DEF Births
  <1>4. Monitored(C, T, F2, D)
    <2> SUFFICES ASSUME NEW h \in DOMAIN D
                 PROVE  \E j \in 1..Len(T) :
                              /\ What(C, T[j]) \in Births /\ T[j].h = h
                              /\ \A i \in 1..Len(T) : i > j => What(C, T[i]) # "up"
      BY DEF Monitored
    <2>1. PICK j \in 1..Len(M) : /\ What(C, M[j]) \in Births /\ M[j].h = h
                                 /\ \A i \in 1..Len(M) : i > j => What(C, M[i]) # "up"
      BY <1>1 DEF Lives, Monitored
    <2>2. j # 1
      BY <1>1, <1>3, <2>1
    <2>3. j - 1 \in 1..Len(T) /\ T[j - 1] = M[j] /\ What(C, T[j - 1]) = What(C, M[j])
      BY <1>1, <2>2
    <2>4. \A i \in 1..Len(T) : i > j - 1 => What(C, T[i]) # "up"
      BY <1>1, <1>2, <2>1
    <2> QED BY <2>1, <2>3, <2>4
  <1>5. Fresh(C, T, E2, F2, D, u)
    <2> SUFFICES ASSUME NEW j \in 1..Len(T), What(C, T[j]) \in Births
                 PROVE  /\ T[j].h # 0
                        /\ \A i \in 1..Len(T) : HandleOf(T[i]) = T[j].h => i = j
                        /\ \A e \in In(E2) : e.h # T[j].h
                        /\ T[j].h \in DOMAIN D => D[T[j].h] = Unpaused(T[j].fence)
                        /\ T[j].h \notin DOMAIN D =>
                              ~u \/ \E i \in 1..Len(T) : i > j /\ What(C, T[i]) = "up"
      BY DEF Fresh
    <2> DEFINE k == j + 1
    <2>1. /\ k \in 1..Len(M) /\ k # 1 /\ T[j] = M[k] /\ What(C, M[k]) \in Births
      BY <1>1
    <2>2. /\ M[k].h # 0
          /\ \A i \in 1..Len(M) : HandleOf(M[i]) = M[k].h => i = k
          /\ \A e \in In(E) : e.h # M[k].h
          /\ M[k].h \in DOMAIN D => D[M[k].h] = Unpaused(M[k].fence)
          /\ M[k].h \notin DOMAIN D =>
                ~u \/ \E i \in 1..Len(M) : i > k /\ What(C, M[i]) = "up"
      BY <2>1 DEF Lives, Fresh
    <2>3. \A i \in 1..Len(T) : HandleOf(T[i]) = T[j].h => i = j
      BY <1>1, <1>2, <2>1, <2>2
    <2>4. T[j].h \notin DOMAIN D => ~u \/ \E i \in 1..Len(T) : i > j /\ What(C, T[i]) = "up"
      <3> SUFFICES ASSUME M[k].h \notin DOMAIN D, u
                   PROVE  \E i \in 1..Len(T) : i > j /\ What(C, T[i]) = "up"
        BY <2>1
      <3>1. PICK i \in 1..Len(M) : i > k /\ What(C, M[i]) = "up"
        BY <2>2
      <3>2. i # 1
        BY <1>2, <2>1, <3>1
      <3> QED BY <1>1, <1>2, <3>1, <3>2
    <2> QED BY <2>1, <2>2, <2>3, <2>4
  <1>6. Gone(C, T, D)
    BY <1>1 DEF Lives, Gone
  <1>7. Lasting(C, T, F2, D, u, kn) /\ Alike(C, T, F2, D) /\ Agree(F2, H2, kn)
        /\ Nameless(T, E2, H2)
    BY DEF Lasting, Alike, Agree, Nameless
  <1>8. Changed(C, T, D)
    <2> SUFFICES ASSUME NEW j \in 1..Len(T), What(C, T[j]) \in Changes, T[j].h \in DOMAIN D
                 PROVE  /\ What(C, T[j]) = "modify" => D[T[j].h].options = Modified
                        /\ What(C, T[j]) = "pause" =>
                              \/ D[T[j].h].paused
                              \/ \E i \in 1..Len(T) :
                                    i > j /\ What(C, T[i]) = "resume" /\ T[i].h = T[j].h
      BY DEF Changed
    <2> DEFINE k == j + 1
    <2>1. /\ k \in 1..Len(M) /\ k # 1 /\ T[j] = M[k] /\ What(C, T[j]) = What(C, M[k])
      BY <1>1
    <2>2. /\ What(C, M[k]) = "modify" => D[M[k].h].options = Modified
          /\ What(C, M[k]) = "pause" =>
                \/ D[M[k].h].paused
                \/ \E i \in 1..Len(M) : i > k /\ What(C, M[i]) = "resume" /\ M[i].h = M[k].h
      BY <2>1 DEF Lives, Changed
    <2>3. ASSUME NEW i \in 1..Len(M), i > k
          PROVE  i - 1 \in 1..Len(T) /\ i - 1 > j /\ T[i - 1] = M[i]
                 /\ What(C, T[i - 1]) = What(C, M[i])
      BY <1>1, <1>2, <2>1, <2>3
    <2> QED BY <2>1, <2>2, <2>3
  <1>9. Lives(C, T, E2, F2, D, u, kn, H2)
    BY <1>4, <1>5, <1>6, <1>7, <1>8 DEF Lives
  <1> QED BY <1>9 DEF T

-----------------------------------------------------------------------------
(* What the queues, the maps and the commands hold.                        *)

\* A fence, with one of the s sessions given so far.
FenceOK(f, s) == f \in FenceRecords /\ f.session \in 1..s

\* A map from some of the t handles given so far.
MapOK(F, s, t) == \A h \in DOMAIN F : h \in 1..t /\ FenceOK(F[h], s)

\* A command; an add has sessions of its own.
Shaped(x, s) ==
    /\ x.client \in Clients /\ x.op \in Operations
    /\ {"client", "op", "sessions"} \subseteq DOMAIN x
    /\ AnySeq(x.sessions)
    /\ x.op = "add" => \A i, j \in 1..Len(x.sessions) :
          x.sessions[i] \in 1..s /\ (x.sessions[i] = x.sessions[j] => i = j)

\* An item of a command.
Item(C, n, i) == n \in 1..Len(C) /\ i \in 1..Len(C[n].sessions)

\* A call.
CallOK(C, e, s, t) ==
    /\ e.op \in Operations \cup {"queue", "restore", "repause", "open"} /\ e.h \in 0..t
    /\ e.op \in {"queue", "add"} => Item(C, e.n, e.i) /\ e.h = 0
    /\ e.op = "add" => C[e.n].op = "add"
    /\ IsAdd(e) => FenceOK(e.fence, s) /\ e.h = 0
    /\ e.op \in Changes => e.n # 0
    /\ e.op \in Changes \cup {"remove"} /\ e.n # 0 => Item(C, e.n, e.i) /\ C[e.n].op = e.op
    /\ e.op = "open" => e.h = 0

\* A message.
MsgOK(C, m, s, t) ==
    /\ m.type \in Answers \cup {"command", "queued", "removeClient", "engineUp"}
    /\ m.type = "command" => m.n \in 1..Len(C)
    /\ m.type \in {"queued", "answer"} => Item(C, m.n, m.i)
    /\ m.type \in Answers => m.ok \in BOOLEAN /\ m.h \in 0..t
    /\ What(C, m) \in Births => m.h # 0 /\ FenceOK(m.fence, s)

\* The commands.
CommandsOK(C, s) == AnySeq(C) /\ \A n \in 1..Len(C) : Shaped(C[n], s)

\* All of them.
Typed(C, M, E, F, D, s, t) ==
    /\ s \in Nat /\ t \in Nat
    /\ CommandsOK(C, s)
    /\ AnySeq(M) /\ \A m \in In(M) : MsgOK(C, m, s, t)
    /\ AnySeq(E) /\ \A e \in In(E) : CallOK(C, e, s, t)
    /\ MapOK(F, s, t) /\ MapOK(D, s, t)

\* The modem is open unless the LocApi still has to open it, and lost until then.
Opening(E, D, u) ==
    /\ u \in BOOLEAN
    /\ u <=> \A e \in In(E) : e.op # "open"
    /\ \A i, j \in 1..Len(E) : E[i].op = "open" /\ E[j].op = "open" => i = j
    /\ ~u => DOMAIN D = {}

\* The commands, later: none is forgotten, and what it asks for stays.
Later(C, X) ==
    /\ AnySeq(C) /\ AnySeq(X) /\ Len(C) <= Len(X)
    /\ \A n \in 1..Len(C) : /\ X[n].client = C[n].client /\ X[n].op = C[n].op
                            /\ X[n].sessions = C[n].sessions

\* The same with the sessions and the handles given so far.
Onward(C, X, s, t, s2, t2) ==
    Later(C, X) /\ {s, t, s2, t2} \subseteq Nat /\ s <= s2 /\ t <= t2

\* An item stays what it is.
LEMMA ItemsStay ==
  ASSUME NEW C, NEW X, Later(C, X), NEW n, NEW i, Item(C, n, i)
  PROVE  Item(X, n, i) /\ X[n].op = C[n].op /\ ItemName(X, n, i) = ItemName(C, n, i)
         /\ n \in 1..Len(C) /\ n \in 1..Len(X)
  <1>1. Len(C) \in Nat /\ Len(X) \in Nat
    BY MembersAt DEF Later
  <1>2. n \in 1..Len(C) /\ n \in 1..Len(X)
    BY <1>1 DEF Later, Item
  <1> QED BY <1>2 DEF Later, Item, ItemName

\* A message tells and names what it did.
LEMMA MessageStays ==
  ASSUME NEW C, NEW X, NEW s, NEW t, NEW s2, NEW t2, NEW m,
         MsgOK(C, m, s, t), Onward(C, X, s, t, s2, t2)
  PROVE  MsgOK(X, m, s2, t2) /\ What(X, m) = What(C, m) /\ MsgNames(X, m) = MsgNames(C, m)
  <1>0. Later(C, X) /\ {s, t, s2, t2} \subseteq Nat /\ s <= s2 /\ t <= t2
    BY DEF Onward
  <1>1. Len(C) \in Nat /\ Len(X) \in Nat
    BY <1>0, MembersAt DEF Later
  <1>2. m.type = "command" =>
           /\ m.n \in 1..Len(X) /\ X[m.n].op = C[m.n].op /\ X[m.n].client = C[m.n].client
           /\ X[m.n].sessions = C[m.n].sessions
    BY <1>0, <1>1 DEF MsgOK, Later
  <1>3. m.type \in {"queued", "answer"} =>
           /\ Item(X, m.n, m.i) /\ X[m.n].op = C[m.n].op
           /\ ItemName(X, m.n, m.i) = ItemName(C, m.n, m.i)
    BY <1>0, ItemsStay DEF MsgOK
  <1>4. What(X, m) = What(C, m)
    BY <1>3 DEF What, OpOf, Answers
  <1>5. MsgNames(X, m) = MsgNames(C, m)
    <2>1. CASE m.type = "command"
      BY <1>2, <2>1 DEF MsgNames, ItemName
    <2>2. CASE m.type = "queued"
      BY <1>3, <2>2 DEF MsgNames
    <2>3. CASE m.type \notin {"command", "queued"}
      BY <1>4, <2>3 DEF MsgNames
    <2> QED BY <2>1, <2>2, <2>3
  <1>6. m.type \in Answers => m.h \in 0..t2
    BY <1>0 DEF MsgOK
  <1>7. What(X, m) \in Births => m.h # 0 /\ FenceOK(m.fence, s2)
    BY <1>0, <1>4 DEF MsgOK, FenceOK
  <1>8. MsgOK(X, m, s2, t2)
    BY <1>2, <1>3, <1>6, <1>7 DEF MsgOK
  <1> QED BY <1>4, <1>5, <1>8

\* So does a call.
LEMMA CallStays ==
  ASSUME NEW C, NEW X, NEW s, NEW t, NEW s2, NEW t2, NEW e,
         CallOK(C, e, s, t), Onward(C, X, s, t, s2, t2)
  PROVE  CallOK(X, e, s2, t2) /\ CallNames(X, e) = CallNames(C, e)
  <1>0. Later(C, X) /\ {s, t, s2, t2} \subseteq Nat /\ s <= s2 /\ t <= t2
    BY DEF Onward
  <1>1. /\ e.op \in {"queue", "add"} => Item(C, e.n, e.i)
        /\ e.op \in Changes \cup {"remove"} /\ e.n # 0 => Item(C, e.n, e.i)
    BY DEF CallOK
  <1>2. Item(C, e.n, e.i) =>
           /\ Item(X, e.n, e.i) /\ X[e.n].op = C[e.n].op
           /\ ItemName(X, e.n, e.i) = ItemName(C, e.n, e.i)
    BY <1>0, ItemsStay
  <1>3. CallNames(X, e) = CallNames(C, e)
    BY <1>1, <1>2 DEF CallNames
  <1>4. e.h \in 0..t2 /\ (IsAdd(e) => FenceOK(e.fence, s2))
    BY <1>0 DEF CallOK, FenceOK
  <1>5. CallOK(X, e, s2, t2)
    <2>1. /\ e.op \in {"queue", "add"} => Item(X, e.n, e.i)
          /\ e.op = "add" => X[e.n].op = "add"
          /\ e.op \in Changes \cup {"remove"} /\ e.n # 0 => Item(X, e.n, e.i) /\ X[e.n].op = e.op
      BY <1>1, <1>2 DEF CallOK
    <2> QED BY <1>4, <2>1 DEF CallOK
  <1> QED BY <1>3, <1>5

\* Everything stays typed, and tells and names what it did.
LEMMA TypesStay ==
  ASSUME NEW C, NEW X, NEW M, NEW E, NEW F, NEW D, NEW s, NEW t, NEW s2, NEW t2,
         Typed(C, M, E, F, D, s, t), Onward(C, X, s, t, s2, t2)
  PROVE  /\ \A m \in In(M) : MsgOK(X, m, s2, t2)
         /\ \A e \in In(E) : CallOK(X, e, s2, t2)
         /\ MapOK(F, s2, t2) /\ MapOK(D, s2, t2)
         /\ TalesStay(C, X, M) /\ NamesStay(C, X, M, E)
  <1>0. s \in Nat /\ t \in Nat /\ AnySeq(M) /\ AnySeq(E)
    BY DEF Typed
  <1>1. ASSUME NEW m \in In(M)
        PROVE  /\ MsgOK(X, m, s2, t2) /\ What(X, m) = What(C, m)
               /\ MsgNames(X, m) = MsgNames(C, m)
    <2>1. MsgOK(C, m, s, t)
      BY DEF Typed
    <2> QED BY <2>1, MessageStays
  <1>2. ASSUME NEW e \in In(E)
        PROVE  CallOK(X, e, s2, t2) /\ CallNames(X, e) = CallNames(C, e)
    <2>1. CallOK(C, e, s, t)
      BY DEF Typed
    <2> QED BY <2>1, CallStays
  <1>3. MapOK(F, s2, t2) /\ MapOK(D, s2, t2)
    <2>1. MapOK(F, s, t) /\ MapOK(D, s, t)
      BY DEF Typed
    <2> QED BY <1>0, <2>1 DEF MapOK, FenceOK, Onward
  <1>4. TalesStay(C, X, M) /\ NamesStay(C, X, M, E)
    BY <1>0, <1>1, <1>2, MembersAt DEF TalesStay, NamesStay
  <1> QED BY <1>1, <1>2, <1>3, <1>4
\* The names under way, and those of the fences in the map, have been given.
LEMMA NamesGiven ==
  ASSUME NEW C, NEW M, NEW E, NEW F, NEW D, NEW s, NEW t, Typed(C, M, E, F, D, s, t)
  PROVE  /\ \A m \in In(M) : \A x \in MsgNames(C, m) : x[2] \in 1..s
         /\ \A e \in In(E) : \A x \in CallNames(C, e) : x[2] \in 1..s
         /\ \A h \in DOMAIN F : Key(F[h])[2] \in 1..s
  <1>1. ASSUME NEW n, NEW i, Item(C, n, i), C[n].op = "add"
        PROVE  ItemName(C, n, i)[2] \in 1..s
    <2>1. Shaped(C[n], s)
      BY <1>1 DEF Typed, CommandsOK, Item
    <2> QED BY <1>1, <2>1 DEF Shaped, Item, ItemName
  <1>2. ASSUME NEW f, FenceOK(f, s) PROVE Key(f)[2] \in 1..s
    BY <1>2 DEF FenceOK, Key
  <1>3. ASSUME NEW m \in In(M), NEW x \in MsgNames(C, m) PROVE x[2] \in 1..s
    <2>1. MsgOK(C, m, s, t)
      BY DEF Typed
    <2>2. CASE m.type = "command"
      <3>1. m.n \in 1..Len(C) /\ AnySeq(C[m.n].sessions)
        BY <2>1, <2>2 DEF MsgOK, Typed, CommandsOK, Shaped
      <3>2. PICK i \in DOMAIN C[m.n].sessions : x = ItemName(C, m.n, i) /\ C[m.n].op = "add"
        BY <2>2 DEF MsgNames
      <3>3. Item(C, m.n, i)
        BY <3>1, <3>2, MembersAt DEF Item
      <3> QED BY <1>1, <3>2, <3>3
    <2>3. CASE m.type = "queued"
      <3>1. Item(C, m.n, m.i) /\ x = ItemName(C, m.n, m.i) /\ C[m.n].op = "add"
        BY <2>1, <2>3 DEF MsgOK, MsgNames
      <3> QED BY <1>1, <3>1
    <2>4. CASE m.type \notin {"command", "queued"}
      <3>1. FenceOK(m.fence, s) /\ x = Key(m.fence)
        BY <2>1, <2>4 DEF MsgOK, MsgNames
      <3> QED BY <1>2, <3>1
    <2> QED BY <2>2, <2>3, <2>4
  <1>4. ASSUME NEW e \in In(E), NEW x \in CallNames(C, e) PROVE x[2] \in 1..s
    <2>1. CallOK(C, e, s, t)
      BY DEF Typed
    <2>2. CASE e.op = "queue"
      <3>1. Item(C, e.n, e.i) /\ x = ItemName(C, e.n, e.i) /\ C[e.n].op = "add"
        BY <2>1, <2>2 DEF CallOK, CallNames
      <3> QED BY <1>1, <3>1
    <2>3. CASE e.op # "queue"
      <3>1. FenceOK(e.fence, s) /\ x = Key(e.fence)
        BY <2>1, <2>3 DEF CallOK, CallNames
      <3> QED BY <1>2, <3>1
    <2> QED BY <2>2, <2>3
  <1>5. ASSUME NEW h \in DOMAIN F PROVE Key(F[h])[2] \in 1..s
    BY <1>2 DEF Typed, MapOK
  <1> QED BY <1>3, <1>4, <1>5

-----------------------------------------------------------------------------
(* The commands are edited.                                                *)

\* The same commands, asking for the same.
SameTask(C, X, s) == Later(C, X) /\ CommandsOK(X, s)

\* One record is replaced.
LEMMA Edited ==
  ASSUME NEW C, NEW s, CommandsOK(C, s), NEW n, NEW y,
         n \in 1..Len(C) => /\ {"client", "op", "sessions"} \subseteq DOMAIN y
                            /\ y.client = C[n].client /\ y.op = C[n].op
                            /\ y.sessions = C[n].sessions
  PROVE  SameTask(C, [C EXCEPT ![n] = y], s)
  <1> DEFINE X == [C EXCEPT ![n] = y]
  <1>1. AnySeq(C) /\ Len(C) \in Nat /\ DOMAIN C = 1..Len(C)
    BY MembersAt DEF CommandsOK
  <1>2. /\ DOMAIN X = DOMAIN C /\ X \in [DOMAIN C -> {X[i] : i \in DOMAIN C}]
        /\ \A i \in DOMAIN C : X[i] = IF i = n THEN y ELSE C[i]
    OBVIOUS
  <1> HIDE DEF X
  <1>3. AnySeq(X) /\ Len(X) = Len(C)
    BY <1>1, <1>2, Listed
  <1>4. \A i \in 1..Len(C) : /\ X[i].client = C[i].client /\ X[i].op = C[i].op
                             /\ X[i].sessions = C[i].sessions
    BY <1>1, <1>2
  <1>5. \A i \in 1..Len(C) : {"client", "op", "sessions"} \subseteq DOMAIN X[i]
    BY <1>1, <1>2 DEF CommandsOK, Shaped
  <1>6. \A i \in 1..Len(X) : Shaped(X[i], s)
    BY <1>3, <1>4, <1>5 DEF CommandsOK, Shaped
  <1>7. Later(C, X)
    BY <1>1, <1>3, <1>4 DEF Later
  <1>8. CommandsOK(X, s)
    BY <1>3, <1>6 DEF CommandsOK
  <1> QED BY <1>7, <1>8 DEF SameTask, X

\* Twice in a row.
LEMMA EditedTwice ==
  ASSUME NEW C, NEW X, NEW Y, NEW s, SameTask(C, X, s), SameTask(X, Y, s)
  PROVE  SameTask(C, Y, s)
  <1>1. Len(C) \in Nat /\ Len(X) \in Nat /\ Len(Y) \in Nat
    BY MembersAt DEF SameTask, Later
  <1> QED BY <1>1 DEF SameTask, Later

\* The result of an item, of two, and the response.
LEMMA ItemEdited ==
  ASSUME NEW C, NEW s, CommandsOK(C, s), NEW n, NEW i, NEW v
  PROVE  /\ SameTask(C, [C EXCEPT ![n].errs[i] = v], s)
         /\ SameTask(C, [C EXCEPT ![n].made[i] = v], s)
  <1>1. n \in 1..Len(C) => {"client", "op", "sessions"} \subseteq DOMAIN C[n]
    BY DEF CommandsOK, Shaped
  <1> DEFINE y == [C[n] EXCEPT !.errs[i] = v]
             z == [C[n] EXCEPT !.made[i] = v]
  <1>2. n \in 1..Len(C) => /\ {"client", "op", "sessions"} \subseteq DOMAIN y
                           /\ y.client = C[n].client /\ y.op = C[n].op
                           /\ y.sessions = C[n].sessions
    BY <1>1
  <1>3. n \in 1..Len(C) => /\ {"client", "op", "sessions"} \subseteq DOMAIN z
                           /\ z.client = C[n].client /\ z.op = C[n].op
                           /\ z.sessions = C[n].sessions
    BY <1>1
  <1>4. [C EXCEPT ![n].errs[i] = v] = [C EXCEPT ![n] = y]
    OBVIOUS
  <1>5. [C EXCEPT ![n].made[i] = v] = [C EXCEPT ![n] = z]
    OBVIOUS
  <1> HIDE DEF y, z
  <1>6. SameTask(C, [C EXCEPT ![n] = y], s) /\ SameTask(C, [C EXCEPT ![n] = z], s)
    BY <1>2, <1>3, Edited
  <1> QED BY <1>4, <1>5, <1>6

\* Two fields at once.
LEMMA BothEdited ==
  ASSUME NEW C, NEW s, CommandsOK(C, s), NEW n, NEW i, NEW v, NEW w, NEW p
  PROVE  /\ SameTask(C, [C EXCEPT ![n].errs[i] = v, ![n].made[i] = w], s)
         /\ SameTask(C, [C EXCEPT ![n].made[i] = v, ![n].errs[i] = IF p THEN @ ELSE w], s)
         /\ SameTask(C, [C EXCEPT ![n].given = @ + 1, ![n].for = v], s)
  <1> DEFINE y == [C[n] EXCEPT !.errs[i] = v, !.made[i] = w]
             z == [C[n] EXCEPT !.made[i] = v, !.errs[i] = IF p THEN C[n].errs[i] ELSE w]
             x == [C[n] EXCEPT !.given = @ + 1, !.for = v]
  <1>1. n \in 1..Len(C) => {"client", "op", "sessions"} \subseteq DOMAIN C[n]
    BY DEF CommandsOK, Shaped
  <1>2. n \in 1..Len(C) => /\ {"client", "op", "sessions"} \subseteq DOMAIN y
                           /\ y.client = C[n].client /\ y.op = C[n].op
                           /\ y.sessions = C[n].sessions
    BY <1>1
  <1>3. n \in 1..Len(C) => /\ {"client", "op", "sessions"} \subseteq DOMAIN z
                           /\ z.client = C[n].client /\ z.op = C[n].op
                           /\ z.sessions = C[n].sessions
    BY <1>1
  <1>4. n \in 1..Len(C) => /\ {"client", "op", "sessions"} \subseteq DOMAIN x
                           /\ x.client = C[n].client /\ x.op = C[n].op
                           /\ x.sessions = C[n].sessions
    BY <1>1
  <1>5. DOMAIN C = 1..Len(C)
    BY MembersAt DEF CommandsOK
  <1>6. [C EXCEPT ![n].errs[i] = v, ![n].made[i] = w] = [C EXCEPT ![n] = y]
    BY <1>5
  <1>7. [C EXCEPT ![n].made[i] = v, ![n].errs[i] = IF p THEN @ ELSE w] = [C EXCEPT ![n] = z]
    BY <1>5
  <1>8. [C EXCEPT ![n].given = @ + 1, ![n].for = v] = [C EXCEPT ![n] = x]
    BY <1>5
  <1> HIDE DEF x, y, z
  <1>9. /\ SameTask(C, [C EXCEPT ![n] = y], s) /\ SameTask(C, [C EXCEPT ![n] = z], s)
        /\ SameTask(C, [C EXCEPT ![n] = x], s)
    BY <1>2, <1>3, <1>4, Edited
  <1> QED BY <1>6, <1>7, <1>8, <1>9

-----------------------------------------------------------------------------
(* The two maps.                                                           *)

\* The fields of a fence that is paused, resumed or modified.
LEMMA FenceEdited ==
  ASSUME NEW f, NEW s, FenceOK(f, s), NEW b \in BOOLEAN
  PROVE  /\ FenceOK([f EXCEPT !.paused = b], s) /\ FenceOK([f EXCEPT !.options = Modified], s)
         /\ Key([f EXCEPT !.paused = b]) = Key(f) /\ Key([f EXCEPT !.options = Modified]) = Key(f)
         /\ [f EXCEPT !.paused = b].options = f.options /\ [f EXCEPT !.paused = b].paused = b
         /\ [f EXCEPT !.options = Modified].options = Modified
         /\ [f EXCEPT !.options = Modified].paused = f.paused
         /\ [f EXCEPT !.paused = b].client = f.client
         /\ [f EXCEPT !.options = Modified].client = f.client
  BY DEF FenceOK, FenceRecords, Key

\* What saving the fence f as h makes of the maps.
Placed(F, H, kn, f, h, F2, H2) ==
    /\ Agree(F2, H2, kn)
    /\ DOMAIN F2 = DOMAIN F \cup {h} /\ F2[h] = Unpaused(f) /\ Key(F2[h]) = Key(f)
    /\ \A g \in DOMAIN F : F2[g] = F[g]
    /\ \A k \in DOMAIN H2 : H2[k] = h \/ (k \in DOMAIN H /\ H2[k] = H[k])

\* A fence is saved.
LEMMA Saved ==
  ASSUME NEW F, NEW H, NEW kn, NEW f, NEW h, NEW F2, NEW H2, NEW s, FenceOK(f, s),
         Agree(F, H, kn), h \notin DOMAIN F, \A g \in DOMAIN F : Key(F[g]) # Key(f),
         F2 = Extend(F, h, Unpaused(f)), H2 = Extend(H, Key(f), h)
  PROVE  Placed(F, H, kn, f, h, F2, H2)
  <1>1. /\ DOMAIN F2 = DOMAIN F \cup {h} /\ F2[h] = Unpaused(f)
        /\ \A g \in DOMAIN F : F2[g] = F[g]
    BY DEF Extend
  <1>2. /\ DOMAIN H2 = DOMAIN H \cup {Key(f)} /\ H2[Key(f)] = h
        /\ \A k \in DOMAIN H : k # Key(f) => H2[k] = H[k]
    BY DEF Extend
  <1>3. Key(F2[h]) = Key(f)
    <2>1. Key([f EXCEPT !.paused = FALSE]) = Key(f)
      BY FenceEdited
    <2> QED BY <1>1, <2>1 DEF Unpaused
  <1>4. ASSUME NEW k \in DOMAIN H2 PROVE H2[k] \in DOMAIN F2 /\ Key(F2[H2[k]]) = k
    BY <1>1, <1>2, <1>3 DEF Agree
  <1>5. ASSUME NEW g \in DOMAIN F2, F2[g].client \in kn
        PROVE  Key(F2[g]) \in DOMAIN H2 /\ H2[Key(F2[g])] = g
    BY <1>1, <1>2, <1>3, <1>5 DEF Agree
  <1>6. Agree(F2, H2, kn)
    BY <1>4, <1>5 DEF Agree
  <1> QED BY <1>1, <1>2, <1>3, <1>6 DEF Placed

\* What removing the fence h makes of the maps.
Cleared(F, H, kn, h, F2, H2) ==
    /\ Agree(F2, H2, kn)
    /\ DOMAIN F2 = DOMAIN F \ {h} /\ \A g \in DOMAIN F2 : F2[g] = F[g]
    /\ \A k \in DOMAIN H2 : k \in DOMAIN H /\ H2[k] = H[k]

\* A name is that of one fence.
NamesDiffer(F) == \A g, k \in DOMAIN F : Key(F[g]) = Key(F[k]) => g = k

\* A fence and its name are removed.
LEMMA Removed ==
  ASSUME NEW F, NEW H, NEW kn, NEW h, h \in DOMAIN F, NEW F2, NEW H2,
         Agree(F, H, kn), NamesDiffer(F), F2 = Without(F, h), H2 = Without(H, Key(F[h]))
  PROVE  Cleared(F, H, kn, h, F2, H2)
  <1>1. DOMAIN F2 = DOMAIN F \ {h} /\ \A g \in DOMAIN F2 : F2[g] = F[g]
    BY DEF Without, Restrict
  <1>2. DOMAIN H2 = DOMAIN H \ {Key(F[h])} /\ \A k \in DOMAIN H2 : H2[k] = H[k]
    BY DEF Without, Restrict
  <1>3. ASSUME NEW k \in DOMAIN H2 PROVE H2[k] \in DOMAIN F2 /\ Key(F2[H2[k]]) = k
    BY <1>1, <1>2 DEF Agree
  <1>4. ASSUME NEW g \in DOMAIN F2, F2[g].client \in kn
        PROVE  Key(F2[g]) \in DOMAIN H2 /\ H2[Key(F2[g])] = g
    BY <1>1, <1>2, <1>4 DEF Agree, NamesDiffer
  <1>5. Agree(F2, H2, kn)
    BY <1>3, <1>4 DEF Agree
  <1> QED BY <1>1, <1>2, <1>5 DEF Cleared

\* H2 is H without the names of c.
Narrowed(H, H2, c) ==
    /\ \A k : k \in DOMAIN H2 <=> k \in DOMAIN H /\ k[1] # c
    /\ \A k \in DOMAIN H2 : H2[k] = H[k]

\* A client is forgotten with its names, which only its fences had.
LEMMA Forgotten ==
  ASSUME NEW F, NEW H, NEW kn, NEW c, NEW H2,
         Agree(F, H, kn), Narrowed(H, H2, c)
  PROVE  /\ Agree(F, H2, kn \ {c})
         /\ \A k \in DOMAIN H : k[1] = c => \A j \in DOMAIN H2 : H2[j] # H[k]
  <1>1. /\ \A k : k \in DOMAIN H2 <=> k \in DOMAIN H /\ k[1] # c
        /\ \A k \in DOMAIN H2 : H2[k] = H[k]
    BY DEF Narrowed
  <1>2. ASSUME NEW h \in DOMAIN F, F[h].client \in kn \ {c}
        PROVE  Key(F[h]) \in DOMAIN H2 /\ H2[Key(F[h])] = h
    <2>1. Key(F[h]) \in DOMAIN H /\ H[Key(F[h])] = h /\ Key(F[h])[1] # c
      BY <1>2 DEF Agree, Key
    <2> QED BY <1>1, <2>1
  <1>3. Agree(F, H2, kn \ {c})
    BY <1>1, <1>2 DEF Agree
  <1>4. \A k \in DOMAIN H : k[1] = c => \A j \in DOMAIN H2 : H2[j] # H[k]
    BY <1>1 DEF Agree
  <1> QED BY <1>1, <1>3, <1>4

-----------------------------------------------------------------------------
(* The invariant, and what the steps do to it.                             *)

\* Commands C, messages M, calls E, maps F and H, modem D, open if u, known clients kn.
Whole(C, M, E, F, D, u, kn, H, s, t) ==
    /\ Typed(C, M, E, F, D, s, t)
    /\ Opening(E, D, u)
    /\ OneHolder(C, M, E, F)
    /\ Lives(C, M, E, F, D, u, kn, H)

\* The call that opens the modem stays the only one.
LEMMA OpeningStays ==
  ASSUME NEW E, NEW D, NEW u, NEW B, Opening(E, D, u), AnySeq(E), AnySeq(B),
         \A b \in In(B) : b.op # "open"
  PROVE  Opening(E \o B, D, u)
  <1> DEFINE R == E \o B
  <1>1. /\ Len(E) \in Nat /\ Len(B) \in Nat /\ Len(R) = Len(E) + Len(B)
        /\ \A i \in 1..Len(E) : R[i] = E[i]
        /\ \A i \in 1..Len(B) : R[Len(E) + i] = B[i]
        /\ In(R) = In(E) \cup In(B)
    BY ConcatAt
  <1>2. \A i \in 1..Len(B) : B[i] \in In(B)
    BY DEF In
  <1> HIDE DEF R
  <1>3. \A i \in 1..Len(R) : R[i].op = "open" => i \in 1..Len(E) /\ R[i] = E[i]
    <2> SUFFICES ASSUME NEW i \in 1..Len(R), i \notin 1..Len(E) PROVE R[i].op # "open"
      BY <1>1
    <2>1. i - Len(E) \in 1..Len(B) /\ Len(E) + (i - Len(E)) = i
      BY <1>1
    <2>2. R[i] = B[i - Len(E)]
      BY <1>1, <2>1
    <2> QED BY <1>2, <2>1, <2>2
  <1>4. \A i, j \in 1..Len(R) : R[i].op = "open" /\ R[j].op = "open" => i = j
    BY <1>3 DEF Opening
  <1>5. (\A e \in In(R) : e.op # "open") <=> \A e \in In(E) : e.op # "open"
    BY <1>1
  <1> QED BY <1>4, <1>5 DEF Opening, R

\* Another call is made, or that one.
LEMMA OpeningNext ==
  ASSUME NEW E, NEW D, NEW u, NEW D2, Opening(E, D, u), AnySeq(E), E # << >>,
         u \/ DOMAIN D2 = {}
  PROVE  /\ Head(E).op # "open" => Opening(Tail(E), D2, u)
         /\ Head(E).op = "open" => Opening(Tail(E), D2, TRUE)
  <1> DEFINE T == Tail(E)
  <1>1. /\ Len(T) \in Nat /\ Len(E) = Len(T) + 1 /\ Head(E) = E[1] /\ AnySeq(T)
        /\ \A i \in 1..Len(T) : T[i] = E[i + 1]
        /\ In(E) = In(T) \cup {Head(E)}
    BY TailAt
  <1> HIDE DEF T
  <1>2. \A i \in 1..Len(T) : i + 1 \in 1..Len(E) /\ i + 1 # 1 /\ 1 \in 1..Len(E)
    BY <1>1
  <1>3. \A i, j \in 1..Len(T) : T[i].op = "open" /\ T[j].op = "open" => i = j
    <2> SUFFICES ASSUME NEW i \in 1..Len(T), NEW j \in 1..Len(T), T[i].op = "open", T[j].op = "open"
                 PROVE  i = j
      OBVIOUS
    <2>1. i + 1 = j + 1
      BY <1>1, <1>2 DEF Opening
    <2> QED BY <2>1
  <1>4. CASE Head(E).op # "open"
    <2>1. u <=> \A e \in In(T) : e.op # "open"
      BY <1>1, <1>4 DEF Opening
    <2> QED BY <1>3, <1>4, <2>1 DEF Opening, T
  <1>5. CASE Head(E).op = "open"
    <2>1. \A i \in 1..Len(T) : T[i].op # "open"
      BY <1>1, <1>2, <1>5 DEF Opening
    <2>2. \A e \in In(T) : e.op # "open"
      BY <1>1, <2>1, MembersAt
    <2> QED BY <1>3, <1>5, <2>2 DEF Opening, T
  <1> QED BY <1>4, <1>5

\* The modem is lost, and the call is put into the queue.
LEMMA OpeningCalled ==
  ASSUME NEW E, NEW D, NEW D2, NEW e, Opening(E, D, TRUE), AnySeq(E), e.op = "open",
         DOMAIN D2 = {}
  PROVE  Opening(Append(E, e), D2, FALSE)
  <1> DEFINE R == Append(E, e)
  <1>1. /\ AnySeq(R) /\ Len(E) \in Nat /\ Len(R) = Len(E) + 1
        /\ \A i \in 1..Len(E) : R[i] = E[i]
        /\ R[Len(E) + 1] = e /\ In(R) = In(E) \cup {e}
    BY AppendAt
  <1>2. \A i \in 1..Len(E) : E[i].op # "open"
    BY DEF Opening, In
  <1> HIDE DEF R
  <1>3. \A i \in 1..Len(R) : i \in 1..Len(E) \/ i = Len(E) + 1
    BY <1>1
  <1>4. \A i \in 1..Len(R) : R[i].op = "open" => i = Len(E) + 1
    BY <1>1, <1>2, <1>3
  <1>5. ~\A x \in In(R) : x.op # "open"
    BY <1>1
  <1>6. \A i, j \in 1..Len(R) : R[i].op = "open" /\ R[j].op = "open" => i = j
    BY <1>4
  <1> QED BY <1>5, <1>6 DEF Opening, R
\* Nothing is asked of the commands but what was.
LEMMA Unedited ==
  ASSUME NEW C, NEW s, CommandsOK(C, s)
  PROVE  SameTask(C, C, s)
  <1>1. Len(C) \in Nat
    BY MembersAt DEF CommandsOK
  <1> QED BY <1>1 DEF SameTask, Later, CommandsOK

\* New calls of the adapter.
NewCalls(X, B, s, t) ==
    AnySeq(B) /\ \A b \in In(B) : CallOK(X, b, s, t) /\ b.op # "open"

\* What every step of the adapter leaves in order, apart from the lives.
LEMMA AdapterTyped ==
  ASSUME NEW C, NEW X, NEW M, NEW E, NEW F, NEW D, NEW u, NEW s, NEW t, NEW B, NEW F2,
         Typed(C, M, E, F, D, s, t), Opening(E, D, u), OneHolder(C, M, E, F), M # << >>,
         SameTask(C, X, s), NewCalls(X, B, s, t), MapOK(F2, s, t),
         NamesMove(C, X, Head(M), F, B, F2)
  PROVE  /\ Typed(X, Tail(M), E \o B, F2, D, s, t) /\ Opening(E \o B, D, u)
         /\ OneHolder(X, Tail(M), E \o B, F2) /\ TalesStay(C, X, M)
         /\ AnySeq(M)
  <1>1. AnySeq(M) /\ AnySeq(E) /\ AnySeq(B)
    BY DEF Typed, NewCalls
  <1>2. Onward(C, X, s, t, s, t)
    BY DEF Typed, SameTask, Onward
  <1>3. /\ MapOK(D, s, t) /\ TalesStay(C, X, M) /\ NamesStay(C, X, M, E)
    BY <1>2, TypesStay
  <1>4. AnySeq(Tail(M)) /\ \A m \in In(Tail(M)) : m \in In(M)
    BY <1>1, TailAt
  <1>5. AnySeq(E \o B) /\ In(E \o B) = In(E) \cup In(B)
    BY <1>1, ConcatAt
  <1>6. Typed(X, Tail(M), E \o B, F2, D, s, t)
    <2>1. \A m \in In(Tail(M)) : MsgOK(X, m, s, t)
      <3>1. \A m \in In(M) : MsgOK(X, m, s, t)
        BY <1>2, TypesStay
      <3> QED BY <1>4, <3>1
    <2>2. \A e \in In(E \o B) : CallOK(X, e, s, t)
      <3>1. \A e \in In(E) : CallOK(X, e, s, t)
        BY <1>2, TypesStay
      <3> QED BY <1>5, <3>1 DEF NewCalls
    <2>3. s \in Nat /\ t \in Nat /\ CommandsOK(X, s)
      BY DEF Typed, SameTask
    <2> QED BY <1>3, <1>4, <1>5, <2>1, <2>2, <2>3 DEF Typed
  <1>7. Opening(E \o B, D, u)
    BY <1>1, OpeningStays DEF NewCalls
  <1>8. OneHolder(X, Tail(M), E \o B, F2)
    BY <1>1, <1>3, AdapterMoves
  <1> QED BY <1>1, <1>3, <1>6, <1>7, <1>8

\* The adapter handles a message.
LEMMA AdapterSteps ==
  ASSUME NEW C, NEW X, NEW M, NEW E, NEW F, NEW D, NEW u, NEW kn, NEW H, NEW s, NEW t,
         NEW B, NEW g, NEW F2, NEW kn2, NEW H2,
         Whole(C, M, E, F, D, u, kn, H, s, t), M # << >>,
         SameTask(C, X, s), NewCalls(X, B, s, t), MapOK(F2, s, t),
         NamesMove(C, X, Head(M), F, B, F2),
         Heeded(C, E, F, kn, Head(M), g, F2, kn2, E \o B),
         Agree(F2, H2, kn2), Nameless(Tail(M), E \o B, H2)
  PROVE  Whole(X, Tail(M), E \o B, F2, D, u, kn2, H2, s, t)
  <1>1. /\ Typed(C, M, E, F, D, s, t) /\ Opening(E, D, u) /\ OneHolder(C, M, E, F)
        /\ Lives(C, M, E, F, D, u, kn, H)
    BY DEF Whole
  <1>2. /\ Typed(X, Tail(M), E \o B, F2, D, s, t) /\ Opening(E \o B, D, u)
        /\ OneHolder(X, Tail(M), E \o B, F2) /\ TalesStay(C, X, M) /\ AnySeq(M)
    BY <1>1, AdapterTyped
  <1>3. Lives(X, Tail(M), E \o B, F2, D, u, kn2, H2)
    BY <1>1, <1>2, HeedLives
  <1> QED BY <1>2, <1>3 DEF Whole

\* It handles one that tells nothing of the modem, and changes no fence.
LEMMA QuietSteps ==
  ASSUME NEW C, NEW X, NEW M, NEW E, NEW F, NEW D, NEW u, NEW kn, NEW H, NEW s, NEW t,
         NEW B, NEW kn2, NEW H2,
         Whole(C, M, E, F, D, u, kn, H, s, t), M # << >>, What(C, Head(M)) = "none",
         SameTask(C, X, s), NewCalls(X, B, s, t), kn2 \subseteq kn,
         NamesMove(C, X, Head(M), F, B, F),
         \A b \in In(B) : b.h = 0 \/ b.h \in DOMAIN F,
         Agree(F, H2, kn2), Nameless(Tail(M), E \o B, H2)
  PROVE  Whole(X, Tail(M), E \o B, F, D, u, kn2, H2, s, t)
  <1>1. In(E \o B) = In(E) \cup In(B)
    BY ConcatAt DEF Whole, Typed, NewCalls
  <1>2. \A e \in In(E \o B) : e \in In(E) \/ e.h = 0 \/ e.h \in DOMAIN F
    BY <1>1
  <1>3. /\ "none" \notin Births \cup Changes
    BY DEF Births, Changes
  <1>4. Heeded(C, E, F, kn, Head(M), 0, F, kn2, E \o B)
    BY <1>2, <1>3 DEF Heeded
  <1>5. MapOK(F, s, t)
    BY DEF Whole, Typed
  <1> QED BY <1>4, <1>5, AdapterSteps

\* What a step of the LocApi that posts a message leaves in order, apart from the lives.
LEMMA LocApiTyped ==
  ASSUME NEW C, NEW M, NEW E, NEW F, NEW D, NEW u, NEW s, NEW t, NEW t2 \in Nat, NEW m, NEW D2,
         Typed(C, M, E, F, D, s, t), Opening(E, D, u), OneHolder(C, M, E, F), E # << >>,
         MsgOK(C, m, s, t2), MsgNames(C, m) \subseteq CallNames(C, Head(E)),
         MapOK(D2, s, t2), t <= t2
  PROVE  /\ Typed(C, Append(M, m), Tail(E), F, D2, s, t2)
         /\ OneHolder(C, Append(M, m), Tail(E), F)
         /\ \A e \in In(Tail(E)) : e \in In(E)
         /\ AnySeq(M) /\ TalesStay(C, C, M)
  <1>1. AnySeq(M) /\ AnySeq(E) /\ s \in Nat /\ t \in Nat
    BY DEF Typed
  <1>2. Onward(C, C, s, t, s, t2)
    BY <1>1, Unedited DEF Typed, SameTask, Onward
  <1>3. \A x \in In(M) : MsgOK(C, x, s, t2)
    BY <1>2, TypesStay
  <1>4. \A e \in In(E) : CallOK(C, e, s, t2)
    BY <1>2, TypesStay
  <1>5. MapOK(F, s, t2)
    BY <1>2, TypesStay
  <1>6. AnySeq(Tail(E)) /\ \A e \in In(Tail(E)) : e \in In(E)
    BY <1>1, TailAt
  <1>7. AnySeq(Append(M, m)) /\ In(Append(M, m)) = In(M) \cup {m}
    BY <1>1, AppendAt
  <1>8. \A x \in In(Append(M, m)) : MsgOK(C, x, s, t2)
    BY <1>3, <1>7
  <1>9. Typed(C, Append(M, m), Tail(E), F, D2, s, t2)
    BY <1>1, <1>4, <1>5, <1>6, <1>7, <1>8 DEF Typed
  <1>10. OneHolder(C, Append(M, m), Tail(E), F)
    BY <1>1, LocApiMoves
  <1> QED BY <1>1, <1>6, <1>9, <1>10 DEF TalesStay

\* The LocApi makes a call that is answered.
LEMMA LocApiSteps ==
  ASSUME NEW C, NEW M, NEW E, NEW F, NEW D, NEW u, NEW kn, NEW H, NEW s, NEW t, NEW t2 \in Nat,
         NEW m, NEW g, NEW D2, NEW u2,
         Whole(C, M, E, F, D, u, kn, H, s, t), E # << >>,
         MsgOK(C, m, s, t2), MsgNames(C, m) \subseteq CallNames(C, Head(E)),
         MapOK(D2, s, t2), t <= t2, u \/ DOMAIN D2 = {},
         Truthful(C, M, E, F, D, m, g, D2),
         IF Head(E).op = "open" THEN u2 = TRUE /\ What(C, m) = "up" ELSE u2 = u
  PROVE  Whole(C, Append(M, m), Tail(E), F, D2, u2, kn, H, s, t2)
  <1>1. /\ Typed(C, M, E, F, D, s, t) /\ Opening(E, D, u) /\ OneHolder(C, M, E, F)
        /\ Lives(C, M, E, F, D, u, kn, H)
    BY DEF Whole
  <1>2. /\ Typed(C, Append(M, m), Tail(E), F, D2, s, t2)
        /\ OneHolder(C, Append(M, m), Tail(E), F)
        /\ \A e \in In(Tail(E)) : e \in In(E)
        /\ AnySeq(M) /\ TalesStay(C, C, M)
    BY <1>1, LocApiTyped
  <1>3. Opening(Tail(E), D2, u2)
    BY <1>1, OpeningNext DEF Typed
  <1>4. u2 = u \/ What(C, m) = "up"
    OBVIOUS
  <1>5. Lives(C, Append(M, m), Tail(E), F, D2, u2, kn, H)
    BY <1>1, <1>2, <1>4, TruthLives
  <1> QED BY <1>2, <1>3, <1>5 DEF Whole

\* A message that tells nothing of the modem, about no handle that is new.
LEMMA QuietTruthful ==
  ASSUME NEW C, NEW X, NEW M, NEW E, NEW F, NEW D, NEW u, NEW m,
         Fresh(C, M, E, F, D, u), TalesStay(C, X, M), 0 \notin DOMAIN D, What(X, m) = "none",
         HandleOf(m) # 0 => \E e \in In(E) : e.h = HandleOf(m),
         m.type = "stopped" => \E e \in In(E) : e.op = "remove" /\ e.n = 0 /\ e.h = m.h
  PROVE  Truthful(X, M, E, F, D, m, 0, D)
  <1>1. "none" \notin Births \cup Changes \cup {"remove", "up", "modify", "pause"}
    BY DEF Births, Changes
  <1>2. ASSUME NEW j \in 1..Len(M), What(X, M[j]) \in Births
        PROVE  M[j].h # 0 /\ M[j].h # HandleOf(m)
    BY <1>2 DEF Fresh, TalesStay
  <1> QED BY <1>1, <1>2 DEF Truthful

\* A client calls: the new message tells nothing, and its names are new.
LEMMA ClientSteps ==
  ASSUME NEW C, NEW X, NEW M, NEW E, NEW F, NEW D, NEW u, NEW kn, NEW H, NEW s, NEW t,
         NEW s2 \in Nat, NEW m,
         Whole(C, M, E, F, D, u, kn, H, s, t), Later(C, X), CommandsOK(X, s2), s <= s2,
         MsgOK(X, m, s2, t), m.type \in {"command", "removeClient"},
         \A x \in MsgNames(X, m) : x[2] \notin 1..s
  PROVE  Whole(X, Append(M, m), E, F, D, u, kn, H, s2, t)
  <1>1. /\ Typed(C, M, E, F, D, s, t) /\ Opening(E, D, u) /\ OneHolder(C, M, E, F)
        /\ Lives(C, M, E, F, D, u, kn, H)
    BY DEF Whole
  <1>2. AnySeq(M) /\ AnySeq(E) /\ s \in Nat /\ t \in Nat
    BY <1>1 DEF Typed
  <1>3. Onward(C, X, s, t, s2, t)
    BY <1>2 DEF Onward
  <1>4. \A x \in In(M) : MsgOK(X, x, s2, t)
    BY <1>1, <1>3, TypesStay
  <1>5. \A e \in In(E) : CallOK(X, e, s2, t)
    BY <1>1, <1>3, TypesStay
  <1>6. MapOK(F, s2, t) /\ MapOK(D, s2, t) /\ TalesStay(C, X, M) /\ NamesStay(C, X, M, E)
    BY <1>1, <1>3, TypesStay
  <1>7. AnySeq(Append(M, m)) /\ In(Append(M, m)) = In(M) \cup {m}
    BY <1>2, AppendAt
  <1>8. Typed(X, Append(M, m), E, F, D, s2, t)
    <2>1. \A x \in In(Append(M, m)) : MsgOK(X, x, s2, t)
      BY <1>4, <1>7
    <2> QED BY <1>2, <1>5, <1>6, <1>7, <2>1 DEF Typed
  <1>9. OneHolder(X, Append(M, m), E, F)
    <2>1. ASSUME NEW x \in MsgNames(X, m)
          PROVE  /\ \A i \in 1..Len(M) : x \notin MsgNames(C, M[i])
                 /\ \A i \in 1..Len(E) : x \notin CallNames(C, E[i])
                 /\ \A h \in DOMAIN F : x # Key(F[h])
      <3>1. x[2] \notin 1..s
        OBVIOUS
      <3>2. /\ \A y \in In(M) : \A z \in MsgNames(C, y) : z[2] \in 1..s
            /\ \A e \in In(E) : \A z \in CallNames(C, e) : z[2] \in 1..s
            /\ \A h \in DOMAIN F : Key(F[h])[2] \in 1..s
        BY <1>1, NamesGiven
      <3>3. /\ \A i \in 1..Len(M) : M[i] \in In(M)
            /\ \A i \in 1..Len(E) : E[i] \in In(E)
        BY DEF In
      <3> QED BY <3>1, <3>2, <3>3
    <2> QED BY <1>1, <1>2, <1>6, <2>1, NewNames
  <1>10. Lives(X, Append(M, m), E, F, D, u, kn, H)
    <2>1. What(X, m) = "none" /\ HandleOf(m) = 0 /\ m.type # "stopped"
      BY DEF What, HandleOf, Answers
    <2>2. 0 \notin DOMAIN D
      BY <1>2, <1>6 DEF MapOK
    <2>3. Truthful(X, M, E, F, D, m, 0, D)
      BY <1>1, <1>6, <2>1, <2>2, QuietTruthful DEF Lives
    <2> QED BY <1>1, <1>2, <1>6, <2>3, TruthLives
  <1> QED BY <1>1, <1>8, <1>9, <1>10 DEF Whole

-----------------------------------------------------------------------------
(* The steps.                                                              *)

\* The invariant.
GeofenceInv ==
    /\ used \in [sessions : Nat, handles : Nat, refusals : Nat, crashes : Nat]
    /\ Whole(commands, msgs, engq, fences, modem, up, known, handles,
             used.sessions, used.handles)

\* The names of the map are not in a message, so the calls that take the message's leave them.
LEMMA MapStays ==
  ASSUME NEW C, NEW X, NEW M, NEW E, NEW F, NEW B, OneHolder(C, M, E, F), AnySeq(M), M # << >>,
         \A b \in 1..Len(B) : \A x \in CallNames(X, B[b]) : x \in MsgNames(C, Head(M)),
         \A a, b \in 1..Len(B) : \A x \in CallNames(X, B[a]) : x \in CallNames(X, B[b]) => a = b
  PROVE  NamesMove(C, X, Head(M), F, B, F)
  <1>1. Head(M) = M[1] /\ 1 \in 1..Len(M)
    BY TailAt
  <1>2. \A g \in DOMAIN F : /\ Key(F[g]) \notin MsgNames(C, Head(M))
                            /\ \A h \in DOMAIN F : Key(F[h]) = Key(F[g]) => h = g
    BY <1>1 DEF OneHolder
  <1> QED BY <1>2 DEF NamesMove

\* Fewer names, and new removals of what has none.
LEMMA NamelessStays ==
  ASSUME NEW M, NEW E, NEW H, NEW B, NEW H2, Nameless(M, E, H), AnySeq(M), M # << >>,
         AnySeq(E), AnySeq(B), \A k \in DOMAIN H2 : k \in DOMAIN H /\ H2[k] = H[k],
         \A b \in In(B) : b.op = "remove" /\ b.n = 0 => \A k \in DOMAIN H2 : H2[k] # b.h
  PROVE  Nameless(Tail(M), E \o B, H2)
  <1>1. In(E \o B) = In(E) \cup In(B)
    BY ConcatAt
  <1>2. \A i \in 1..Len(Tail(M)) : i + 1 \in 1..Len(M) /\ Tail(M)[i] = M[i + 1]
    BY TailAt
  <1> QED BY <1>1, <1>2 DEF Nameless

\* A response, if the item is the last, leaves the commands what they are.
LEMMA Finished ==
  ASSUME NEW C, NEW X, NEW Y, NEW s, NEW n, SameTask(C, X, s),
         Y = X \/ \E v : Y = [X EXCEPT ![n].given = @ + 1, ![n].for = v]
  PROVE  SameTask(C, Y, s)
  <1>1. CASE Y = X
    BY <1>1
  <1>2. CASE Y # X
    <2>1. PICK v : Y = [X EXCEPT ![n].given = @ + 1, ![n].for = v]
      BY <1>2
    <2>2. SameTask(X, Y, s)
      BY <2>1, BothEdited DEF SameTask
    <2> QED BY <2>2, EditedTwice
  <1> QED BY <1>1, <1>2

\* What is known of the message in front.
LEMMA InFront ==
  ASSUME GeofenceInv, msgs # << >>
  PROVE  /\ MsgOK(commands, Head(msgs), used.sessions, used.handles)
         /\ Head(msgs) = msgs[1] /\ 1 \in 1..Len(msgs)
         /\ AnySeq(msgs) /\ AnySeq(engq) /\ CommandsOK(commands, used.sessions)
         /\ OneHolder(commands, msgs, engq, fences) /\ Agree(fences, handles, known)
         /\ Nameless(msgs, engq, handles) /\ MapOK(fences, used.sessions, used.handles)
  <1>1. AnySeq(msgs)
    BY DEF GeofenceInv, Whole, Typed
  <1>2. Head(msgs) \in In(msgs) /\ Head(msgs) = msgs[1] /\ 1 \in 1..Len(msgs)
    BY <1>1, TailAt
  <1> QED BY <1>1, <1>2 DEF GeofenceInv, Whole, Typed, Lives

\* The fence of an item.
LEMMA FenceNamed ==
  ASSUME NEW c \in Clients, NEW s \in Nat, NEW x \in 1..s
  PROVE  /\ FenceOK([NoFence EXCEPT !.client = c, !.session = x], s)
         /\ Key([NoFence EXCEPT !.client = c, !.session = x]) = <<c, x>>
  <1> DEFINE f == [NoFence EXCEPT !.client = c, !.session = x]
  <1>1. f.client = c /\ f.session = x /\ f.options = Default /\ f.paused = FALSE
    BY DEF NoFence
  <1> DEFINE R == [client : Clients \cup {"none"}, session : Nat, options : {Default, Modified},
                   paused : BOOLEAN]
  <1>2. NoFence \in R
    BY DEF NoFence
  <1>3. f \in R
    <2>1. [NoFence EXCEPT !.client = c] \in R
      BY <1>2
    <2>2. \A g \in R : [g EXCEPT !.session = x] \in R
      OBVIOUS
    <2> QED BY <2>1, <2>2, Zenon
  <1> HIDE DEF f
  <1>4. f \in FenceRecords
    BY <1>1, <1>3 DEF FenceRecords
  <1> QED BY <1>1, <1>4 DEF FenceOK, Key, f

\* ProcCommand: the names of the items go to the calls that queue them.
LEMMA ProcCommandKeeps ==
  ASSUME GeofenceInv, ProcCommand PROVE GeofenceInv'
  <1> DEFINE C == commands
             m == Head(msgs)
             q == C[m.n].sessions
             B == [i \in DOMAIN q |-> Call("queue", m.n, i, 0, NoFence)]
             s == used.sessions
             t == used.handles
  <1>1. /\ msgs # << >> /\ m.type = "command" /\ msgs' = Tail(msgs) /\ engq' = engq \o B
        /\ UNCHANGED <<known, fences, handles, modem, up, commands, used>>
    BY DEF ProcCommand, Receive, adapter
  <1>2. /\ MsgOK(C, m, s, t) /\ AnySeq(msgs) /\ AnySeq(engq) /\ CommandsOK(C, s)
        /\ OneHolder(C, msgs, engq, fences) /\ Agree(fences, handles, known)
        /\ Nameless(msgs, engq, handles)
    BY <1>1, InFront
  <1>3. m.n \in 1..Len(C) /\ Shaped(C[m.n], s)
    BY <1>1, <1>2 DEF MsgOK, CommandsOK
  <1>4. AnySeq(q) /\ Len(q) \in Nat /\ DOMAIN q = 1..Len(q)
    BY <1>3, MembersAt DEF Shaped
  <1>5. B \in [1..Len(q) -> {B[i] : i \in 1..Len(q)}]
    BY <1>4
  <1>6. AnySeq(B) /\ Len(B) = Len(q)
    BY <1>4, <1>5, Listed
  <1>7. \A i \in 1..Len(q) : /\ B[i].op = "queue" /\ B[i].n = m.n /\ B[i].i = i
                             /\ B[i].h = 0
    BY <1>4 DEF Call
  <1> HIDE DEF B
  <1>8. \A i \in 1..Len(B) : CallNames(C, B[i]) = {x \in {ItemName(C, m.n, i)} : C[m.n].op = "add"}
    BY <1>6, <1>7 DEF CallNames
  <1>9. \A i \in 1..Len(B) : \A x \in CallNames(C, B[i]) : x \in MsgNames(C, m)
    BY <1>1, <1>4, <1>6, <1>8 DEF MsgNames
  <1>10. \A i, j \in 1..Len(B) : \A x \in CallNames(C, B[i]) : x \in CallNames(C, B[j]) => i = j
    <2> SUFFICES ASSUME NEW i \in 1..Len(B), NEW j \in 1..Len(B), NEW x \in CallNames(C, B[i]),
                        x \in CallNames(C, B[j])
                 PROVE  i = j
      OBVIOUS
    <2>1. C[m.n].op = "add" /\ ItemName(C, m.n, i) = ItemName(C, m.n, j)
      BY <1>8
    <2>2. q[i] = q[j]
      BY <2>1 DEF ItemName
    <2> QED BY <1>3, <1>6, <2>1, <2>2 DEF Shaped
  <1>11. NamesMove(C, C, m, fences, B, fences)
    BY <1>1, <1>2, <1>9, <1>10, MapStays
  <1>12. \A b \in In(B) : CallOK(C, b, s, t) /\ b.op = "queue" /\ b.h = 0
    <2> SUFFICES ASSUME NEW i \in 1..Len(q)
                 PROVE  CallOK(C, B[i], s, t) /\ B[i].op = "queue" /\ B[i].h = 0
      BY <1>6 DEF In
    <2>1. Item(C, B[i].n, B[i].i) /\ 0 \in 0..t
      BY <1>3, <1>7 DEF Item, GeofenceInv
    <2> QED BY <1>7, <2>1 DEF CallOK, IsAdd, Changes, Operations
  <1>13. NewCalls(C, B, s, t)
    BY <1>6, <1>12 DEF NewCalls
  <1>14. Nameless(Tail(msgs), engq \o B, handles)
    BY <1>1, <1>2, <1>6, <1>12, NamelessStays
  <1>15. What(C, m) = "none"
    BY <1>1 DEF What, Answers
  <1>16. SameTask(C, C, s)
    BY <1>2, Unedited
  <1>17. Whole(C, Tail(msgs), engq \o B, fences, modem, up, known, handles, s, t)
    BY <1>1, <1>2, <1>11, <1>12, <1>13, <1>14, <1>15, <1>16, QuietSteps DEF GeofenceInv
  <1> QED BY <1>1, <1>17 DEF GeofenceInv

\* ProcQueued: the name of an item that is added goes to the call that adds it.
LEMMA ProcQueuedKeeps ==
  ASSUME GeofenceInv, ProcQueued PROVE GeofenceInv'
  <1> DEFINE C == commands
             m == Head(msgs)
             n == m.n
             i == m.i
             op == C[n].op
             k == Key(FenceOf(n, i))
             s == used.sessions
             t == used.handles
  <1>1. /\ msgs # << >> /\ m.type = "queued" /\ msgs' = Tail(msgs)
        /\ UNCHANGED <<known, fences, handles, modem, up, used>>
    BY DEF ProcQueued, Receive, adapter
  <1>2. /\ MsgOK(C, m, s, t) /\ AnySeq(msgs) /\ AnySeq(engq) /\ CommandsOK(C, s)
        /\ OneHolder(C, msgs, engq, fences) /\ Agree(fences, handles, known)
        /\ Nameless(msgs, engq, handles) /\ MapOK(fences, s, t)
    BY <1>1, InFront
  <1>3. Item(C, n, i) /\ Shaped(C[n], s) /\ s \in Nat /\ t \in Nat
    BY <1>1, <1>2 DEF MsgOK, CommandsOK, Item, GeofenceInv
  <1>4. op \in Operations /\ n # 0
    BY <1>3 DEF Shaped, Item
  <1>5. What(C, m) = "none"
    BY <1>1 DEF What, Answers
  <1>6. SameTask(C, C, s)
    BY <1>2, Unedited
  \* One call, or none, is made.
  <1>7. ASSUME NEW X, NEW B, SameTask(C, X, s), NewCalls(X, B, s, t),
               \A b \in 1..Len(B) : \A x \in CallNames(X, B[b]) : x \in MsgNames(C, m),
               Len(B) \in {0, 1},
               \A b \in In(B) : (b.h = 0 \/ b.h \in DOMAIN fences) /\ b.n # 0
        PROVE  Whole(X, Tail(msgs), engq \o B, fences, modem, up, known, handles, s, t)
    <2>1. AnySeq(B)
      BY <1>7 DEF NewCalls
    <2>2. \A a, b \in 1..Len(B) : a = b
      <3>1. CASE Len(B) = 0
        BY <3>1
      <3>2. CASE Len(B) = 1
        BY <3>2
      <3> QED BY <1>7, <3>1, <3>2
    <2>3. NamesMove(C, X, m, fences, B, fences)
      BY <1>1, <1>2, <1>7, <2>2, MapStays
    <2>4. Nameless(Tail(msgs), engq \o B, handles)
      BY <1>1, <1>2, <1>7, <2>1, NamelessStays
    <2> QED BY <1>1, <1>2, <1>5, <1>7, <2>3, <2>4, QuietSteps DEF GeofenceInv
  <1>8. CASE op = "add"
    <2> DEFINE e == Call("add", n, i, 0, FenceOf(n, i))
               B == <<e>>
    <2>1. engq' = Append(engq, e) /\ commands' = commands
      BY <1>8 DEF ProcQueued
    <2>2. /\ e.op = "add" /\ e.n = n /\ e.i = i /\ e.h = 0 /\ e.fence = FenceOf(n, i)
      BY DEF Call
    <2>3. FenceOK(FenceOf(n, i), s) /\ Key(FenceOf(n, i)) = ItemName(C, n, i)
      <3>1. C[n].client \in Clients /\ C[n].sessions[i] \in 1..s
        BY <1>3, <1>8 DEF Shaped, Item
      <3> QED BY <1>3, <3>1, FenceNamed DEF FenceOf, ItemName
    <2> HIDE DEF e
    <2>4. CallOK(C, e, s, t)
      BY <1>3, <1>8, <2>2, <2>3 DEF CallOK, IsAdd, Changes, Operations
    <2>5. engq' = engq \o B /\ AnySeq(B) /\ In(B) = {e} /\ Len(B) = 1 /\ B[1] = e
      BY <1>2, <2>1, ConcatFew
    <2> HIDE DEF B
    <2>6. CallNames(C, e) = {ItemName(C, n, i)} /\ ItemName(C, n, i) \in MsgNames(C, m)
      BY <1>1, <1>8, <2>2, <2>3 DEF CallNames, MsgNames, IsAdd
    <2>7. NewCalls(C, B, s, t)
      BY <2>2, <2>4, <2>5 DEF NewCalls
    <2>8. \A b \in 1..Len(B) : \A x \in CallNames(C, B[b]) : x \in MsgNames(C, m)
      BY <2>5, <2>6
    <2>9. Whole(C, Tail(msgs), engq \o B, fences, modem, up, known, handles, s, t)
      BY <1>4, <1>6, <1>7, <2>2, <2>5, <2>7, <2>8
    <2> QED BY <1>1, <2>1, <2>5, <2>9 DEF GeofenceInv
  <1>9. CASE op # "add" /\ k \in DOMAIN handles
    <2> DEFINE e == Call(op, n, i, handles[k], NoFence)
               B == <<e>>
               X == [C EXCEPT ![n].errs[i] = "ok"]
    <2>1. engq' = Append(engq, e) /\ commands' = X
      BY <1>9 DEF ProcQueued
    <2>2. e.op = op /\ e.n = n /\ e.i = i /\ e.h = handles[k]
      BY DEF Call
    <2>3. handles[k] \in DOMAIN fences /\ handles[k] \in 0..t
      BY <1>2, <1>3, <1>9 DEF Agree, MapOK
    <2>4. SameTask(C, X, s)
      BY <1>2, ItemEdited
    <2> HIDE DEF e, X
    <2>5. Item(X, n, i) /\ X[n].op = op
      BY <1>3, <2>4, ItemsStay DEF SameTask
    <2>6. CallOK(X, e, s, t)
      BY <1>3, <1>4, <1>9, <2>2, <2>3, <2>5 DEF CallOK, IsAdd, Operations, Changes
    <2>7. engq' = engq \o B /\ AnySeq(B) /\ In(B) = {e} /\ Len(B) = 1 /\ B[1] = e
      BY <1>2, <2>1, ConcatFew
    <2> HIDE DEF B
    <2>8. CallNames(X, e) = {} /\ e.op # "open"
      BY <1>4, <1>9, <2>2 DEF CallNames, IsAdd, Operations
    <2>9. NewCalls(X, B, s, t)
      BY <2>6, <2>7, <2>8 DEF NewCalls
    <2>10. \A b \in 1..Len(B) : \A x \in CallNames(X, B[b]) : x \in MsgNames(C, m)
      BY <2>7, <2>8
    <2>11. Whole(X, Tail(msgs), engq \o B, fences, modem, up, known, handles, s, t)
      BY <1>4, <1>7, <2>2, <2>3, <2>4, <2>7, <2>9, <2>10
    <2> QED BY <1>1, <2>1, <2>7, <2>11 DEF GeofenceInv
  <1>10. CASE op # "add" /\ k \notin DOMAIN handles
    <2> DEFINE X == [C EXCEPT ![n].errs[i] = "unknown", ![n].made[i] = "unknown"]
    <2>1. engq' = engq /\ Finish(n, i, X)
      BY <1>10 DEF ProcQueued
    <2>2. SameTask(C, X, s)
      BY <1>2, BothEdited
    <2> HIDE DEF X
    <2>3. commands' = X \/ \E v : commands' = [X EXCEPT ![n].given = @ + 1, ![n].for = v]
      BY <2>1 DEF Finish, Respond
    <2>4. SameTask(C, commands', s)
      BY <2>2, <2>3, Finished
    <2>5. engq \o << >> = engq
      BY <1>2, ConcatFew
    <2>6. NewCalls(commands', << >>, s, t) /\ Len(<< >>) = 0 /\ In(<< >>) = {}
      BY NoneAt DEF NewCalls
    <2>a. \A b \in 1..Len(<< >>) : FALSE
      BY <2>6
    <2>7. Whole(commands', Tail(msgs), engq \o << >>, fences, modem, up, known, handles, s, t)
      BY <1>7, <2>4, <2>6, <2>a
    <2> QED BY <1>1, <2>1, <2>5, <2>7 DEF GeofenceInv
  <1> QED BY <1>8, <1>9, <1>10
\* Enumerations.
LEMMA AscendingAt ==
  ASSUME NEW S, NEW q, S \subseteq Nat, IsFiniteSet(S), q \in Ascending(S)
  PROVE  /\ AnySeq(q) /\ Len(q) \in Nat /\ DOMAIN q = 1..Len(q)
         /\ \A i \in 1..Len(q) : q[i] \in S
         /\ \A i, j \in 1..Len(q) : q[i] = q[j] => i = j
  <1> DEFINE n == Cardinality(S)
  <1>1. n \in Nat
    BY FS_CardinalityType
  <1>2. q \in [1..n -> S] /\ \A i, j \in 1..n : i < j => q[i] < q[j]
    BY DEF Ascending
  <1> HIDE DEF n
  <1>3. AnySeq(q) /\ Len(q) = n /\ DOMAIN q = 1..n
    BY <1>1, <1>2, Listed
  <1>4. \A i, j \in 1..n : q[i] = q[j] => i = j
    <2> SUFFICES ASSUME NEW i \in 1..n, NEW j \in 1..n, q[i] = q[j] PROVE i = j
      OBVIOUS
    <2>1. q[i] \in Nat /\ q[j] \in Nat
      BY <1>2
    <2>2. ~(q[i] < q[j]) /\ ~(q[j] < q[i])
      BY <2>1
    <2>3. ~(i < j) /\ ~(j < i)
      BY <1>2, <2>2
    <2> QED BY <1>1, <2>3
  <1> QED BY <1>1, <1>2, <1>3, <1>4

\* A sequence made from another, place by place.
LEMMA MadeFrom ==
  ASSUME NEW q, NEW B, AnySeq(q), B = [j \in DOMAIN q |-> B[j]]
  PROVE  AnySeq(B) /\ Len(B) = Len(q) /\ DOMAIN q = 1..Len(q) /\ Len(q) \in Nat
  <1>1. Len(q) \in Nat /\ DOMAIN q = 1..Len(q)
    BY MembersAt
  <1>2. B \in [1..Len(q) -> {B[i] : i \in 1..Len(q)}]
    BY <1>1
  <1> QED BY <1>1, <1>2, Listed

\* ProcRemoveClient: the fences of the client lose their names, and are to be removed.
LEMMA ProcRemoveClientKeeps ==
  ASSUME GeofenceInv, ProcRemoveClient PROVE GeofenceInv'
  <1> DEFINE C == commands
             m == Head(msgs)
             c == m.client
             s == used.sessions
             t == used.handles
             mine == {x \in 1..s : <<c, x>> \in DOMAIN handles}
  <1>1. /\ msgs # << >> /\ m.type = "removeClient" /\ msgs' = Tail(msgs)
        /\ UNCHANGED <<fences, modem, up, commands, used>> /\ known' = known \ {c}
        /\ handles' = Restrict(handles, {k \in DOMAIN handles : k[1] # c})
    BY DEF ProcRemoveClient, Receive
  <1>2. /\ AnySeq(msgs) /\ AnySeq(engq) /\ CommandsOK(C, s)
        /\ OneHolder(C, msgs, engq, fences) /\ Agree(fences, handles, known)
        /\ Nameless(msgs, engq, handles) /\ MapOK(fences, s, t) /\ s \in Nat /\ t \in Nat
    BY <1>1, InFront DEF GeofenceInv
  <1>3. PICK q \in Ascending(mine) :
           engq' = engq \o [j \in DOMAIN q |-> Call("remove", 0, 0, handles[<<c, q[j]>>], NoFence)]
    BY DEF ProcRemoveClient
  <1> DEFINE B == [j \in DOMAIN q |-> Call("remove", 0, 0, handles[<<c, q[j]>>], NoFence)]
  <1>4. /\ AnySeq(q) /\ Len(q) \in Nat /\ DOMAIN q = 1..Len(q)
        /\ \A i \in 1..Len(q) : q[i] \in mine
    <2>1. mine \subseteq Nat /\ mine \subseteq 1..s
      BY <1>2
    <2>2. IsFiniteSet(mine)
      <3>1. \A k \in Nat : IsFiniteSet(1..k)
        BY FS_Interval
      <3>2. IsFiniteSet(1..s)
        BY <1>2, <3>1
      <3> QED BY <2>1, <3>2, FS_Subset
    <2> HIDE DEF mine
    <2> QED BY <2>1, <2>2, AscendingAt
  <1>5. AnySeq(B) /\ Len(B) = Len(q)
    BY <1>4, MadeFrom
  <1>6. \A i \in 1..Len(q) : B[i].op = "remove" /\ B[i].n = 0 /\ B[i].h = handles[<<c, q[i]>>]
    BY <1>4 DEF Call
  <1> HIDE DEF B
  <1>7. /\ Agree(fences, handles', known')
        /\ \A k \in DOMAIN handles' : k \in DOMAIN handles /\ handles'[k] = handles[k]
        /\ \A k \in DOMAIN handles : k[1] = c => \A j \in DOMAIN handles' : handles'[j] # handles[k]
    <2>1. /\ \A k : k \in DOMAIN handles' <=> k \in DOMAIN handles /\ k[1] # c
          /\ \A k \in DOMAIN handles' : handles'[k] = handles[k]
      BY <1>1 DEF Restrict
    <2>2. PICK H : H = handles'
      OBVIOUS
    <2>3. Narrowed(handles, H, c)
      BY <2>1, <2>2 DEF Narrowed
    <2> HIDE DEF c
    <2>4. /\ Agree(fences, H, known \ {c})
          /\ \A k \in DOMAIN handles : k[1] = c => \A j \in DOMAIN H : H[j] # handles[k]
      BY <1>2, <2>3, Forgotten
    <2> QED BY <1>1, <2>1, <2>2, <2>4
  <1>8. \A b \in In(B) : /\ CallOK(C, b, s, t) /\ b.op = "remove"
                         /\ b.h \in DOMAIN fences
                         /\ \A k \in DOMAIN handles' : handles'[k] # b.h
    <2> SUFFICES ASSUME NEW i \in 1..Len(q)
                 PROVE  /\ CallOK(C, B[i], s, t) /\ B[i].op = "remove"
                        /\ B[i].h \in DOMAIN fences
                        /\ \A k \in DOMAIN handles' : handles'[k] # B[i].h
      BY <1>5 DEF In
    <2>1. <<c, q[i]>> \in DOMAIN handles
      BY <1>4
    <2>2. B[i].op = "remove" /\ B[i].n = 0 /\ B[i].h = handles[<<c, q[i]>>]
      BY <1>6
    <2>3. B[i].h \in DOMAIN fences
      BY <1>2, <2>1, <2>2 DEF Agree
    <2>4. B[i].h \in 0..t
      BY <1>2, <2>3 DEF MapOK
    <2>5. CallOK(C, B[i], s, t)
      BY <2>2, <2>4 DEF CallOK, IsAdd, Changes, Operations
    <2>6. <<c, q[i]>>[1] = c
      OBVIOUS
    <2>7. \A k \in DOMAIN handles' : handles'[k] # B[i].h
      BY <1>7, <2>1, <2>2, <2>6
    <2> QED BY <2>2, <2>3, <2>5, <2>7
  <1>9. \A b \in 1..Len(B) : CallNames(C, B[b]) = {}
    <2>1. \A b \in 1..Len(B) : B[b].op = "remove"
      BY <1>8 DEF In
    <2> QED BY <2>1 DEF CallNames, IsAdd
  <1>10. NamesMove(C, C, m, fences, B, fences)
    BY <1>1, <1>2, <1>9, MapStays
  <1>11. NewCalls(C, B, s, t)
    BY <1>5, <1>8 DEF NewCalls
  <1>12. Nameless(Tail(msgs), engq \o B, handles')
    BY <1>1, <1>2, <1>5, <1>7, <1>8, NamelessStays
  <1>13. What(C, m) = "none"
    BY <1>1 DEF What, Answers
  <1>14. SameTask(C, C, s) /\ known' \subseteq known
    BY <1>1, <1>2, Unedited
  <1>15. Whole(C, Tail(msgs), engq \o B, fences, modem, up, known', handles', s, t)
    BY <1>1, <1>2, <1>7, <1>8, <1>10, <1>11, <1>12, <1>13, <1>14, QuietSteps DEF GeofenceInv
  <1> QED BY <1>1, <1>3, <1>15 DEF GeofenceInv, B

\* ProcEngineUp: the names of the map go to the calls that restore the fences.
LEMMA ProcEngineUpKeeps ==
  ASSUME GeofenceInv, ProcEngineUp PROVE GeofenceInv'
  <1> DEFINE C == commands
             m == Head(msgs)
             s == used.sessions
             t == used.handles
             F == fences
  <1>1. /\ msgs # << >> /\ m.type = "engineUp" /\ msgs' = Tail(msgs)
        /\ UNCHANGED <<known, modem, up, commands, used>>
        /\ fences' = << >> /\ handles' = << >>
    BY DEF ProcEngineUp, Receive
  <1>2. /\ AnySeq(msgs) /\ AnySeq(engq) /\ CommandsOK(C, s)
        /\ OneHolder(C, msgs, engq, F) /\ MapOK(F, s, t) /\ s \in Nat /\ t \in Nat
        /\ Typed(C, msgs, engq, F, modem, s, t) /\ Opening(engq, modem, up)
        /\ Lives(C, msgs, engq, F, modem, up, known, handles)
    BY <1>1, InFront DEF GeofenceInv, Whole
  <1>3. PICK q \in Ascending(DOMAIN F) :
           engq' = engq \o [j \in DOMAIN q |-> Call("restore", 0, 0, 0, F[q[j]])]
    BY DEF ProcEngineUp
  <1> DEFINE B == [j \in DOMAIN q |-> Call("restore", 0, 0, 0, F[q[j]])]
  <1>4. /\ AnySeq(q) /\ Len(q) \in Nat /\ DOMAIN q = 1..Len(q)
        /\ \A i \in 1..Len(q) : q[i] \in DOMAIN F
        /\ \A i, j \in 1..Len(q) : q[i] = q[j] => i = j
    <2>1. DOMAIN F \subseteq Nat /\ DOMAIN F \subseteq 1..t
      BY <1>2 DEF MapOK
    <2>2. IsFiniteSet(DOMAIN F)
      <3>1. \A k \in Nat : IsFiniteSet(1..k)
        BY FS_Interval
      <3>2. IsFiniteSet(1..t)
        BY <1>2, <3>1
      <3> QED BY <2>1, <3>2, FS_Subset
    <2> QED BY <2>1, <2>2, AscendingAt
  <1>5. AnySeq(B) /\ Len(B) = Len(q)
    BY <1>4, MadeFrom
  <1>7. \A i \in 1..Len(q) : /\ B[i].op = "restore" /\ B[i].n = 0 /\ B[i].h = 0
                             /\ B[i].fence = F[q[i]]
    BY <1>4 DEF Call
  <1> HIDE DEF B
  <1>8. \A b \in In(B) : CallOK(C, b, s, t) /\ b.op # "open" /\ b.h = 0
    <2> SUFFICES ASSUME NEW i \in 1..Len(q)
                 PROVE  CallOK(C, B[i], s, t) /\ B[i].op # "open" /\ B[i].h = 0
      BY <1>5 DEF In
    <2>1. FenceOK(F[q[i]], s) /\ 0 \in 0..t
      BY <1>2, <1>4 DEF MapOK
    <2> QED BY <1>7, <2>1 DEF CallOK, IsAdd, Changes, Operations
  <1>9. \A i \in 1..Len(B) : CallNames(C, B[i]) = {Key(F[q[i]])}
    BY <1>5, <1>7 DEF CallNames, IsAdd
  <1>10. DOMAIN << >> = {}
    OBVIOUS
  <1>11. NamesMove(C, C, m, F, B, << >>)
    <2>1. \A i \in 1..Len(B) : \A x \in CallNames(C, B[i]) : \E h \in DOMAIN F : x = Key(F[h])
      BY <1>4, <1>5, <1>9
    <2>2. \A i, j \in 1..Len(B) : \A x \in CallNames(C, B[i]) : x \in CallNames(C, B[j]) => i = j
      <3> SUFFICES ASSUME NEW i \in 1..Len(B), NEW j \in 1..Len(B), Key(F[q[i]]) = Key(F[q[j]])
                   PROVE  i = j
        BY <1>9
      <3>1. q[i] = q[j]
        BY <1>2, <1>4, <1>5 DEF OneHolder
      <3> QED BY <1>4, <1>5, <3>1
    <2> QED BY <1>10, <2>1, <2>2 DEF NamesMove
  <1>12. NewCalls(C, B, s, t)
    BY <1>5, <1>8 DEF NewCalls
  <1>13. MapOK(<< >>, s, t)
    BY <1>10 DEF MapOK
  <1>14. SameTask(C, C, s)
    BY <1>2, Unedited
  <1>15. /\ Typed(C, Tail(msgs), engq \o B, << >>, modem, s, t) /\ Opening(engq \o B, modem, up)
         /\ OneHolder(C, Tail(msgs), engq \o B, << >>)
    BY <1>1, <1>2, <1>11, <1>12, <1>13, <1>14, AdapterTyped
  <1>16. \A e \in In(engq \o B) : e \in In(engq) \/ e.h = 0
    BY <1>2, <1>5, <1>8, ConcatAt
  <1>17. What(C, m) = "up"
    BY <1>1 DEF What
  <1>18. Lives(C, Tail(msgs), engq \o B, << >>, modem, up, known, << >>)
    BY <1>1, <1>2, <1>10, <1>16, <1>17, ClearLives
  <1>19. Whole(C, Tail(msgs), engq \o B, << >>, modem, up, known, << >>, s, t)
    BY <1>15, <1>18 DEF Whole
  <1> QED BY <1>1, <1>3, <1>19 DEF GeofenceInv, B
\* The maps F2 and H2 name no more than F and H.
Within(F, H, F2, H2) ==
    /\ \A h \in DOMAIN F2 : h \in DOMAIN F /\ Key(F2[h]) = Key(F[h])
    /\ \A k \in DOMAIN H2 : k \in DOMAIN H /\ H2[k] = H[k]

\* A step that makes no call and brings no name.
LEMMA MapSteps ==
  ASSUME NEW C, NEW X, NEW M, NEW E, NEW F, NEW D, NEW u, NEW kn, NEW H, NEW s, NEW t,
         NEW g, NEW F2, NEW H2,
         Whole(C, M, E, F, D, u, kn, H, s, t), M # << >>, SameTask(C, X, s),
         MapOK(F2, s, t), Within(F, H, F2, H2), Agree(F2, H2, kn),
         Heeded(C, E, F, kn, Head(M), g, F2, kn, E)
  PROVE  Whole(X, Tail(M), E, F2, D, u, kn, H2, s, t)
  <1>1. /\ AnySeq(M) /\ AnySeq(E) /\ OneHolder(C, M, E, F) /\ Nameless(M, E, H)
    BY DEF Whole, Typed, Lives
  <1>2. /\ E \o << >> = E /\ AnySeq(<< >>) /\ In(<< >>) = {} /\ Len(<< >>) = 0
    BY <1>1, ConcatFew, NoneAt
  <1>3. \A b \in 1..Len(<< >>) : FALSE
    BY <1>2
  <1>4. NewCalls(X, << >>, s, t)
    BY <1>2 DEF NewCalls
  <1>5. NamesMove(C, X, Head(M), F, << >>, F2)
    <2>1. \A g1, h \in DOMAIN F2 : Key(F2[g1]) = Key(F2[h]) => g1 = h
      BY <1>1 DEF OneHolder, Within
    <2> QED BY <1>3, <2>1 DEF NamesMove, Within
  <1>6. Nameless(Tail(M), E \o << >>, H2)
    BY <1>1, <1>2, NamelessStays DEF Within
  <1>7. Heeded(C, E, F, kn, Head(M), g, F2, kn, E \o << >>)
    BY <1>2
  <1>8. Whole(X, Tail(M), E \o << >>, F2, D, u, kn, H2, s, t)
    BY <1>4, <1>5, <1>6, <1>7, AdapterSteps
  <1> QED BY <1>2, <1>8

\* An answer that brings a fence.
LEMMA BirthSteps ==
  ASSUME NEW C, NEW X, NEW M, NEW E, NEW F, NEW D, NEW u, NEW kn, NEW H, NEW s, NEW t,
         NEW B, NEW m, NEW F2, NEW H2,
         Whole(C, M, E, F, D, u, kn, H, s, t), M # << >>, m = Head(M), What(C, m) \in Births,
         SameTask(C, X, s), NewCalls(X, B, s, t),
         \A b \in In(B) : b.h = m.h /\ b.op = "repause",
         F2 = Extend(F, m.h, Unpaused(m.fence)), H2 = Extend(H, Key(m.fence), m.h)
  PROVE  Whole(X, Tail(M), E \o B, F2, D, u, kn, H2, s, t)
  <1>1. /\ AnySeq(M) /\ AnySeq(E) /\ OneHolder(C, M, E, F) /\ Nameless(M, E, H)
        /\ Agree(F, H, kn) /\ Fresh(C, M, E, F, D, u) /\ MapOK(F, s, t)
        /\ \A x \in In(M) : MsgOK(C, x, s, t)
        /\ AnySeq(B) /\ s \in Nat /\ t \in Nat
    BY DEF Whole, Typed, Lives, NewCalls
  <1>2. /\ M[1] = m /\ 1 \in 1..Len(M) /\ m \in In(M)
        /\ \A i \in 1..Len(Tail(M)) : /\ i + 1 \in 1..Len(M) /\ i + 1 # 1
                                      /\ Tail(M)[i] = M[i + 1]
    BY <1>1, TailAt
  <1>3. /\ m.h # 0 /\ m.h \notin DOMAIN F
        /\ \A i \in 1..Len(M) : HandleOf(M[i]) = m.h => i = 1
        /\ \A e \in In(E) : e.h # m.h
    BY <1>1, <1>2 DEF Fresh
  <1>4. FenceOK(m.fence, s) /\ m.h \in 1..t
    <2>1. MsgOK(C, m, s, t)
      BY <1>1, <1>2
    <2>2. m.type \in Answers
      BY ToldOf
    <2> QED BY <1>1, <1>3, <2>1, <2>2 DEF MsgOK
  <1>5. MsgNames(C, m) = {Key(m.fence)}
    <2>1. m.type \notin {"command", "queued"}
      BY ToldOf DEF Answers
    <2> QED BY <2>1 DEF MsgNames
  <1>6. \A g \in DOMAIN F : Key(F[g]) # Key(m.fence)
    BY <1>1, <1>2, <1>5 DEF OneHolder
  <1>7. /\ Agree(F2, H2, kn)
        /\ DOMAIN F2 = DOMAIN F \cup {m.h} /\ F2[m.h] = Unpaused(m.fence)
        /\ Key(F2[m.h]) = Key(m.fence)
        /\ \A g \in DOMAIN F : F2[g] = F[g]
        /\ \A k \in DOMAIN H2 : H2[k] = m.h \/ (k \in DOMAIN H /\ H2[k] = H[k])
    <2>1. Placed(F, H, kn, m.fence, m.h, F2, H2)
      BY <1>1, <1>3, <1>4, <1>6, Saved
    <2> QED BY <2>1 DEF Placed
  <1>8. MapOK(F2, s, t)
    <2>1. FenceOK(Unpaused(m.fence), s)
      BY <1>4, FenceEdited DEF Unpaused
    <2> QED BY <1>1, <1>4, <1>7, <2>1 DEF MapOK
  <1>9. \A b \in 1..Len(B) : CallNames(X, B[b]) = {}
    <2>1. \A b \in 1..Len(B) : B[b].op = "repause"
      BY DEF In
    <2> QED BY <2>1 DEF CallNames, IsAdd
  <1>10. NamesMove(C, X, Head(M), F, B, F2)
    <2>1. \A g \in DOMAIN F2 : \/ Key(F2[g]) \in MsgNames(C, m)
                              \/ \E h \in DOMAIN F : Key(F2[g]) = Key(F[h])
      BY <1>5, <1>7
    <2>2. \A g, h \in DOMAIN F2 : Key(F2[g]) = Key(F2[h]) => g = h
      BY <1>1, <1>6, <1>7 DEF OneHolder
    <2> QED BY <1>9, <2>1, <2>2 DEF NamesMove
  <1>11. In(E \o B) = In(E) \cup In(B)
    BY <1>1, ConcatAt
  <1>12. Heeded(C, E, F, kn, m, m.h, F2, kn, E \o B)
    <2>1. What(C, m) \notin Changes \cup {"up", "remove"}
      BY DEF Births, Changes
    <2>2. \A e \in In(E \o B) : e \in In(E) \/ (What(C, m) \in Births /\ e.h = m.h)
      BY <1>11
    <2> QED BY <1>3, <1>7, <2>1, <2>2 DEF Heeded
  <1>13. Nameless(Tail(M), E \o B, H2)
    <2>1. ASSUME NEW e \in In(E \o B), e.op = "remove", e.n = 0, NEW k \in DOMAIN H2
          PROVE  H2[k] # e.h
      <3>1. e \in In(E)
        BY <1>11, <2>1
      <3>2. e.h # m.h
        BY <1>3, <3>1
      <3>3. \A j \in DOMAIN H : H[j] # e.h
        BY <1>1, <2>1, <3>1 DEF Nameless
      <3> QED BY <1>7, <3>2, <3>3
    <2>2. ASSUME NEW i \in 1..Len(Tail(M)), Tail(M)[i].type = "stopped", NEW k \in DOMAIN H2
          PROVE  H2[k] # Tail(M)[i].h
      <3>1. i + 1 \in 1..Len(M) /\ i + 1 # 1 /\ Tail(M)[i] = M[i + 1]
        BY <1>2
      <3>2. HandleOf(M[i + 1]) = M[i + 1].h
        BY <2>2, <3>1 DEF HandleOf, Answers
      <3>3. M[i + 1].h # m.h
        BY <1>3, <3>1, <3>2
      <3>4. \A j \in DOMAIN H : H[j] # M[i + 1].h
        BY <1>1, <2>2, <3>1 DEF Nameless
      <3> QED BY <1>7, <3>1, <3>3, <3>4
    <2> QED BY <2>1, <2>2 DEF Nameless
  <1> QED BY <1>7, <1>8, <1>10, <1>12, <1>13, AdapterSteps

\* ProcStopped: the fence goes, its name has gone before.
LEMMA ProcStoppedKeeps ==
  ASSUME GeofenceInv, ProcStopped PROVE GeofenceInv'
  <1> DEFINE C == commands
             m == Head(msgs)
             s == used.sessions
             t == used.handles
             F == fences
  <1>1. /\ msgs # << >> /\ m.type = "stopped" /\ msgs' = Tail(msgs)
        /\ UNCHANGED <<engq, known, handles, modem, up, commands, used>>
        /\ fences' = IF m.ok THEN Without(F, m.h) ELSE F
    BY DEF ProcStopped, Receive
  <1>2. /\ MsgOK(C, m, s, t) /\ m = msgs[1] /\ 1 \in 1..Len(msgs)
        /\ CommandsOK(C, s) /\ Agree(F, handles, known) /\ Nameless(msgs, engq, handles)
        /\ MapOK(F, s, t)
    BY <1>1, InFront
  <1>3. SameTask(C, C, s)
    BY <1>2, Unedited
  <1>4. m.ok \in BOOLEAN
    BY <1>1, <1>2 DEF MsgOK, Answers
  <1>5. CASE m.ok
    <2>1. What(C, m) = "remove"
      BY <1>1, <1>5 DEF What, OpOf, Answers
    <2>2. \A k \in DOMAIN handles : handles[k] # m.h
      BY <1>1, <1>2 DEF Nameless
    <2>3. /\ Agree(fences', handles, known)
          /\ DOMAIN fences' = DOMAIN F \ {m.h} /\ \A g \in DOMAIN fences' : fences'[g] = F[g]
      <3>1. DOMAIN fences' = DOMAIN F \ {m.h} /\ \A g \in DOMAIN fences' : fences'[g] = F[g]
        BY <1>1, <1>5 DEF Without, Restrict
      <3> QED BY <1>2, <2>2, <3>1 DEF Agree
    <2>4. MapOK(fences', s, t)
      BY <1>2, <2>3 DEF MapOK
    <2>5. /\ Heeded(C, engq, F, known, m, m.h, fences', known, engq)
          /\ Within(F, handles, fences', handles)
      BY <2>1, <2>3 DEF Heeded, Births, Changes, Within
    <2>6. Whole(C, Tail(msgs), engq, fences', modem, up, known, handles, s, t)
      BY <1>1, <1>3, <2>3, <2>4, <2>5, MapSteps DEF GeofenceInv
    <2> QED BY <1>1, <2>6 DEF GeofenceInv
  <1>6. CASE ~m.ok
    <2>1. What(C, m) = "none"
      BY <1>1, <1>6 DEF What
    <2>2. fences' = F
      BY <1>1, <1>6
    <2>3. Heeded(C, engq, F, known, m, 0, F, known, engq) /\ Within(F, handles, F, handles)
      BY <2>1 DEF Heeded, Births, Changes, Within
    <2>4. Whole(C, Tail(msgs), engq, F, modem, up, known, handles, s, t)
      BY <1>1, <1>2, <1>3, <2>3, MapSteps DEF GeofenceInv
    <2> QED BY <1>1, <2>2, <2>4 DEF GeofenceInv
  <1> QED BY <1>4, <1>5, <1>6

\* ProcRestored: the fence is in the map again, with its name.
LEMMA ProcRestoredKeeps ==
  ASSUME GeofenceInv, ProcRestored PROVE GeofenceInv'
  <1> DEFINE C == commands
             m == Head(msgs)
             s == used.sessions
             t == used.handles
             F == fences
  <1>1. /\ msgs # << >> /\ m.type = "restored" /\ msgs' = Tail(msgs)
        /\ UNCHANGED <<known, modem, up, commands, used>>
        /\ IF m.ok THEN SaveGeofenceItem(m.fence, m.h) ELSE UNCHANGED <<fences, handles>>
        /\ engq' = IF m.ok /\ m.fence.paused
                   THEN Append(engq, Call("repause", 0, 0, m.h, NoFence)) ELSE engq
    BY DEF ProcRestored, Receive
  <1>2. /\ MsgOK(C, m, s, t) /\ AnySeq(engq)
        /\ CommandsOK(C, s) /\ Agree(F, handles, known) /\ MapOK(F, s, t)
    BY <1>1, InFront
  <1>3. SameTask(C, C, s)
    BY <1>2, Unedited
  <1>4. m.ok \in BOOLEAN /\ m.h \in 0..t
    BY <1>1, <1>2 DEF MsgOK, Answers
  <1>5. CASE m.ok
    <2>1. What(C, m) \in Births
      BY <1>1, <1>5 DEF What, OpOf, Answers, Births
    <2>2. /\ fences' = Extend(F, m.h, Unpaused(m.fence))
          /\ handles' = Extend(handles, Key(m.fence), m.h)
      BY <1>1, <1>5 DEF SaveGeofenceItem, Unpaused
    <2> DEFINE e == Call("repause", 0, 0, m.h, NoFence)
               B == IF m.fence.paused THEN <<e>> ELSE << >>
    <2>3. /\ e.op = "repause" /\ e.h = m.h
      BY DEF Call
    <2> HIDE DEF e
    <2>4. engq' = engq \o B /\ AnySeq(B) /\ \A b \in In(B) : b = e
      <3>1. CASE m.fence.paused
        <4>1. engq' = Append(engq, e) /\ B = <<e>>
          BY <1>1, <1>5, <3>1 DEF e
        <4>2. Append(engq, e) = engq \o <<e>> /\ AnySeq(<<e>>) /\ In(<<e>>) = {e}
          BY <1>2, ConcatFew
        <4> QED BY <4>1, <4>2
      <3>2. CASE ~m.fence.paused
        <4>1. engq' = engq /\ B = << >>
          BY <1>1, <3>2
        <4>2. engq = engq \o << >> /\ AnySeq(<< >>) /\ In(<< >>) = {}
          BY <1>2, ConcatFew, NoneAt
        <4> QED BY <4>1, <4>2
      <3> QED BY <3>1, <3>2
    <2> HIDE DEF B
    <2>5. CallOK(C, e, s, t)
      BY <1>4, <2>3 DEF CallOK, IsAdd, Changes, Operations
    <2>6. NewCalls(C, B, s, t)
      BY <2>3, <2>4, <2>5 DEF NewCalls
    <2>7. \A b \in In(B) : b.h = m.h /\ b.op = "repause"
      BY <2>3, <2>4
    <2>8. Whole(C, Tail(msgs), engq \o B, fences', modem, up, known, handles', s, t)
      BY <1>1, <1>3, <2>1, <2>2, <2>6, <2>7, BirthSteps DEF GeofenceInv
    <2> QED BY <1>1, <2>4, <2>8 DEF GeofenceInv
  <1>6. CASE ~m.ok
    <2>1. What(C, m) = "none"
      BY <1>1, <1>6 DEF What
    <2>2. fences' = F /\ handles' = handles /\ engq' = engq
      BY <1>1, <1>6
    <2>3. Heeded(C, engq, F, known, m, 0, F, known, engq) /\ Within(F, handles, F, handles)
      BY <2>1 DEF Heeded, Births, Changes, Within
    <2>4. Whole(C, Tail(msgs), engq, F, modem, up, known, handles, s, t)
      BY <1>1, <1>2, <1>3, <2>3, MapSteps DEF GeofenceInv
    <2> QED BY <1>1, <2>2, <2>4 DEF GeofenceInv
  <1> QED BY <1>4, <1>5, <1>6
\* A fence of the map is paused, resumed or modified.
Tuned(F, h, F2, s, t) ==
    /\ MapOK(F2, s, t) /\ DOMAIN F2 = DOMAIN F
    /\ \A g \in DOMAIN F : /\ g # h => F2[g] = F[g]
                           /\ Key(F2[g]) = Key(F[g]) /\ F2[g].client = F[g].client

\* It is paused or resumed.
LEMMA PausedIn ==
  ASSUME NEW F, NEW h, NEW b \in BOOLEAN, NEW F2, NEW s, NEW t, MapOK(F, s, t),
         F2 = IF h \in DOMAIN F THEN [F EXCEPT ![h].paused = b] ELSE F
  PROVE  /\ Tuned(F, h, F2, s, t)
         /\ h \in DOMAIN F => F2[h].options = F[h].options /\ F2[h].paused = b
  <1>1. CASE h \notin DOMAIN F
    BY <1>1 DEF Tuned
  <1>2. CASE h \in DOMAIN F
    <2>1. /\ DOMAIN F2 = DOMAIN F /\ F2[h] = [F[h] EXCEPT !.paused = b]
          /\ \A g \in DOMAIN F : g # h => F2[g] = F[g]
      BY <1>2
    <2>2. /\ FenceOK(F2[h], s) /\ Key(F2[h]) = Key(F[h]) /\ F2[h].client = F[h].client
          /\ F2[h].options = F[h].options /\ F2[h].paused = b
      <3> DEFINE f == F[h]
      <3>1. FenceOK(f, s)
        BY <1>2 DEF MapOK
      <3> HIDE DEF f
      <3>2. /\ FenceOK([f EXCEPT !.paused = b], s) /\ Key([f EXCEPT !.paused = b]) = Key(f)
            /\ [f EXCEPT !.paused = b].client = f.client
            /\ [f EXCEPT !.paused = b].options = f.options
            /\ [f EXCEPT !.paused = b].paused = b
        BY <3>1 DEF FenceOK, FenceRecords, Key
      <3> QED BY <2>1, <3>2 DEF f
    <2> QED BY <1>2, <2>1, <2>2 DEF Tuned, MapOK
  <1> QED BY <1>1, <1>2

\* It is modified.
LEMMA ModifiedIn ==
  ASSUME NEW F, NEW h, NEW F2, NEW s, NEW t, MapOK(F, s, t),
         F2 = IF h \in DOMAIN F THEN [F EXCEPT ![h].options = Modified] ELSE F
  PROVE  /\ Tuned(F, h, F2, s, t)
         /\ h \in DOMAIN F => F2[h].paused = F[h].paused /\ F2[h].options = Modified
  <1>1. CASE h \notin DOMAIN F
    BY <1>1 DEF Tuned
  <1>2. CASE h \in DOMAIN F
    <2>1. /\ DOMAIN F2 = DOMAIN F /\ F2[h] = [F[h] EXCEPT !.options = Modified]
          /\ \A g \in DOMAIN F : g # h => F2[g] = F[g]
      BY <1>2
    <2>2. /\ FenceOK(F2[h], s) /\ Key(F2[h]) = Key(F[h]) /\ F2[h].client = F[h].client
          /\ F2[h].paused = F[h].paused /\ F2[h].options = Modified
      BY <1>2, <2>1, FenceEdited DEF MapOK
    <2> QED BY <1>2, <2>1, <2>2 DEF Tuned, MapOK
  <1> QED BY <1>1, <1>2

\* ProcAnswer: the map records what the modem accepted.
LEMMA ProcAnswerKeeps ==
  ASSUME GeofenceInv, ProcAnswer PROVE GeofenceInv'
  <1> DEFINE C == commands
             m == Head(msgs)
             op == C[m.n].op
             s == used.sessions
             t == used.handles
             F == fences
             H == handles
             X == commands'
             p == LeavesError(op, m)
             Y == [C EXCEPT ![m.n].made[m.i] = Verdict(m),
                            ![m.n].errs[m.i] = IF p THEN @ ELSE Verdict(m)]
  <1>1. /\ msgs # << >> /\ m.type = "answer" /\ msgs' = Tail(msgs)
        /\ UNCHANGED <<engq, known, modem, up, used>>
        /\ Recorded(op, m)
    BY DEF ProcAnswer, Receive
  <1>2. /\ MsgOK(C, m, s, t) /\ m = msgs[1] /\ 1 \in 1..Len(msgs) /\ AnySeq(engq)
        /\ CommandsOK(C, s) /\ Agree(F, H, known) /\ OneHolder(C, msgs, engq, F)
        /\ MapOK(F, s, t) /\ Whole(C, msgs, engq, F, modem, up, known, H, s, t)
    BY <1>1, InFront DEF GeofenceInv
  <1>3. op \in Operations /\ m.ok \in BOOLEAN
    BY <1>1, <1>2 DEF MsgOK, Answers, Item, CommandsOK, Shaped
  <1>4. SameTask(C, X, s)
    <2>1. commands' = Y \/ Finish(m.n, m.i, Y)
      BY DEF ProcAnswer
    <2>2. SameTask(C, Y, s)
      BY <1>2, BothEdited
    <2> HIDE DEF Y
    <2>3. commands' = Y \/ \E v : commands' = [Y EXCEPT ![m.n].given = @ + 1, ![m.n].for = v]
      BY <2>1 DEF Finish, Respond
    <2> QED BY <2>2, <2>3, Finished
  <1> HIDE DEF X
  <1>5. What(C, m) = IF m.ok THEN op ELSE "none"
    BY <1>1 DEF What, OpOf, Answers
  <1>6. SUFFICES Whole(X, Tail(msgs), engq, fences', modem, up, known, handles', s, t)
    BY <1>1 DEF GeofenceInv, X
  <1>7. CASE ~m.ok
    <2>1. fences' = F /\ handles' = H
      BY <1>1, <1>3, <1>7 DEF Recorded
    <2>2. Heeded(C, engq, F, known, m, 0, F, known, engq)
      BY <1>5, <1>7 DEF Heeded, Births, Changes
    <2>3. Whole(X, Tail(msgs), engq, F, modem, up, known, H, s, t)
      BY <1>1, <1>2, <1>4, <2>2, MapSteps DEF Within
    <2> QED BY <2>1, <2>3
  <1>8. CASE m.ok /\ op = "add"
    <2>1. fences' = Extend(F, m.h, Unpaused(m.fence)) /\ handles' = Extend(H, Key(m.fence), m.h)
      BY <1>1, <1>8 DEF Recorded, SaveGeofenceItem, Unpaused
    <2>2. What(C, m) \in Births
      BY <1>5, <1>8 DEF Births
    <2>3. engq \o << >> = engq /\ In(<< >>) = {} /\ AnySeq(<< >>)
      BY <1>2, ConcatFew, NoneAt
    <2>4. NewCalls(X, << >>, s, t) /\ \A b \in In(<< >>) : b.h = m.h /\ b.op = "repause"
      BY <2>3 DEF NewCalls
    <2>5. Whole(X, Tail(msgs), engq \o << >>, fences', modem, up, known, handles', s, t)
      BY <1>1, <1>2, <1>4, <2>1, <2>2, <2>4, BirthSteps
    <2> QED BY <2>3, <2>5
  <1>9. CASE m.ok /\ op = "remove"
    <2>1. RemoveGeofenceItem(m.h)
      BY <1>1, <1>9 DEF Recorded
    <2>2. What(C, m) = "remove"
      BY <1>5, <1>9
    <2>3. CASE m.h \in DOMAIN F /\ Key(F[m.h]) \in DOMAIN H
      <3>1. fences' = Without(F, m.h) /\ handles' = Without(H, Key(F[m.h]))
        BY <2>1, <2>3 DEF RemoveGeofenceItem
      <3>2. NamesDiffer(F)
        BY <1>2 DEF OneHolder, NamesDiffer
      <3>3. /\ Agree(fences', handles', known)
            /\ DOMAIN fences' = DOMAIN F \ {m.h} /\ \A g \in DOMAIN fences' : fences'[g] = F[g]
            /\ \A k \in DOMAIN handles' : k \in DOMAIN H /\ handles'[k] = H[k]
        <4>1. Cleared(F, H, known, m.h, fences', handles')
          BY <1>2, <2>3, <3>1, <3>2, Removed
        <4> QED BY <4>1 DEF Cleared
      <3>4. /\ MapOK(fences', s, t)
            /\ \A h \in DOMAIN fences' : h \in DOMAIN F /\ Key(fences'[h]) = Key(F[h])
        BY <1>2, <3>3 DEF MapOK
      <3>5. Heeded(C, engq, F, known, m, m.h, fences', known, engq)
        BY <2>2, <3>3 DEF Heeded, Births, Changes
      <3>6. Within(F, H, fences', handles')
        BY <3>3, <3>4 DEF Within
      <3> QED BY <1>1, <1>2, <1>4, <3>3, <3>4, <3>5, <3>6, MapSteps
    <2>4. CASE ~(m.h \in DOMAIN F /\ Key(F[m.h]) \in DOMAIN H)
      <3>1. fences' = F /\ handles' = H
        BY <2>1, <2>4 DEF RemoveGeofenceItem
      <3>2. m.h \in DOMAIN F => F[m.h].client \notin known
        BY <1>2, <2>4 DEF Agree
      <3>3. Heeded(C, engq, F, known, m, m.h, F, known, engq)
        BY <2>2, <3>2 DEF Heeded, Births, Changes
      <3>4. Whole(X, Tail(msgs), engq, F, modem, up, known, H, s, t)
        BY <1>1, <1>2, <1>4, <3>3, MapSteps DEF Within
      <3> QED BY <3>1, <3>4
    <2> QED BY <2>3, <2>4
  <1>10. CASE m.ok /\ op \in Changes
    <2>1. handles' = H
      BY <1>1, <1>10 DEF Recorded, Changes
    <2>2. What(C, m) = op
      BY <1>5, <1>10
    <2>3. CASE op \in {"pause", "resume"}
      <3> DEFINE b == op = "pause"
      <3>1. fences' = IF m.h \in DOMAIN F THEN [F EXCEPT ![m.h].paused = b] ELSE F
        BY <1>1, <1>10, <2>3 DEF Recorded, PauseGeofenceItem
      <3>2. b \in BOOLEAN
        OBVIOUS
      <3> HIDE DEF b
      <3>3. /\ Tuned(F, m.h, fences', s, t)
            /\ m.h \in DOMAIN F => fences'[m.h].options = F[m.h].options /\ fences'[m.h].paused = b
        BY <1>2, <3>1, <3>2, PausedIn
      <3>4. Heeded(C, engq, F, known, m, m.h, fences', known, engq)
        BY <2>2, <2>3, <3>3 DEF Heeded, Tuned, Births, Changes, b
      <3>5. MapOK(fences', s, t) /\ Agree(fences', H, known)
            /\ Within(F, H, fences', H)
        BY <1>2, <3>3 DEF Tuned, Agree, Within
      <3>6. Whole(X, Tail(msgs), engq, fences', modem, up, known, H, s, t)
        BY <1>1, <1>2, <1>4, <3>4, <3>5, MapSteps
      <3> QED BY <2>1, <3>6
    <2>4. CASE op = "modify"
      <3>1. fences' = IF m.h \in DOMAIN F THEN [F EXCEPT ![m.h].options = Modified] ELSE F
        BY <1>1, <1>10, <2>4 DEF Recorded, ModifyGeofenceItem
      <3>3. /\ Tuned(F, m.h, fences', s, t)
            /\ m.h \in DOMAIN F =>
                  fences'[m.h].paused = F[m.h].paused /\ fences'[m.h].options = Modified
        BY <1>2, <3>1, ModifiedIn
      <3>4. Heeded(C, engq, F, known, m, m.h, fences', known, engq)
        BY <2>2, <2>4, <3>3 DEF Heeded, Tuned, Births, Changes
      <3>5. MapOK(fences', s, t) /\ Agree(fences', H, known)
            /\ Within(F, H, fences', H)
        BY <1>2, <3>3 DEF Tuned, Agree, Within
      <3>6. Whole(X, Tail(msgs), engq, fences', modem, up, known, H, s, t)
        BY <1>1, <1>2, <1>4, <3>4, <3>5, MapSteps
      <3> QED BY <2>1, <3>6
    <2> QED BY <1>10, <2>3, <2>4 DEF Changes
  <1> QED BY <1>3, <1>7, <1>8, <1>9, <1>10 DEF Operations, Changes

-----------------------------------------------------------------------------
(* The LocApi.                                                             *)

\* What is known of the call in front.
LEMMA CallInFront ==
  ASSUME GeofenceInv, engq # << >>
  PROVE  /\ CallOK(commands, Head(engq), used.sessions, used.handles)
         /\ Head(engq) \in In(engq) /\ Head(engq) = engq[1] /\ 1 \in 1..Len(engq)
         /\ AnySeq(msgs) /\ AnySeq(engq)
         /\ OneHolder(commands, msgs, engq, fences)
         /\ Fresh(commands, msgs, engq, fences, modem, up)
         /\ TalesStay(commands, commands, msgs) /\ 0 \notin DOMAIN modem
         /\ MapOK(modem, used.sessions, used.handles)
         /\ MapOK(fences, used.sessions, used.handles)
         /\ used.sessions \in Nat /\ used.handles \in Nat
         /\ up \/ DOMAIN modem = {}
         /\ Head(engq).op = "open" => ~up
  <1>1. /\ AnySeq(msgs) /\ AnySeq(engq) /\ OneHolder(commands, msgs, engq, fences)
        /\ Fresh(commands, msgs, engq, fences, modem, up)
        /\ MapOK(modem, used.sessions, used.handles)
        /\ MapOK(fences, used.sessions, used.handles)
        /\ used.sessions \in Nat /\ used.handles \in Nat
        /\ Opening(engq, modem, up)
        /\ \A e \in In(engq) : CallOK(commands, e, used.sessions, used.handles)
    BY DEF GeofenceInv, Whole, Typed, Lives
  <1>2. Head(engq) \in In(engq) /\ Head(engq) = engq[1] /\ 1 \in 1..Len(engq)
    BY <1>1, TailAt
  <1>3. 0 \notin DOMAIN modem
    BY <1>1 DEF MapOK
  <1>4. (up \/ DOMAIN modem = {}) /\ (Head(engq).op = "open" => ~up)
    BY <1>1, <1>2 DEF Opening
  <1> QED BY <1>1, <1>2, <1>3, <1>4 DEF TalesStay

\* A call is answered, or queued, and the modem does nothing.
LEMMA QuietCall ==
  ASSUME GeofenceInv, engq # << >>, Head(engq).op # "open", NEW m,
         MsgOK(commands, m, used.sessions, used.handles), What(commands, m) = "none",
         MsgNames(commands, m) \subseteq CallNames(commands, Head(engq)),
         HandleOf(m) # 0 => HandleOf(m) = Head(engq).h,
         m.type = "stopped" =>
            Head(engq).op = "remove" /\ Head(engq).n = 0 /\ m.h = Head(engq).h
  PROVE  Whole(commands, Append(msgs, m), Tail(engq), fences, modem, up, known, handles,
               used.sessions, used.handles)
  <1>1. /\ Head(engq) \in In(engq) /\ Fresh(commands, msgs, engq, fences, modem, up)
        /\ TalesStay(commands, commands, msgs) /\ 0 \notin DOMAIN modem
        /\ MapOK(modem, used.sessions, used.handles) /\ used.handles \in Nat
        /\ up \/ DOMAIN modem = {}
    BY CallInFront
  <1>2. Truthful(commands, msgs, engq, fences, modem, m, 0, modem)
    BY <1>1, QuietTruthful
  <1>3. used.handles <= used.handles
    BY <1>1
  <1> QED BY <1>1, <1>2, <1>3, LocApiSteps DEF GeofenceInv

\* Queue: the name of an item that is added goes to the message.
LEMMA QueueKeeps ==
  ASSUME GeofenceInv, Queue PROVE GeofenceInv'
  <1> DEFINE e == Head(engq)
             m == [type |-> "queued", n |-> e.n, i |-> e.i]
  <1>1. /\ engq # << >> /\ e.op = "queue" /\ engq' = Tail(engq) /\ msgs' = Append(msgs, m)
        /\ UNCHANGED <<known, fences, handles, modem, up, commands, used>>
    BY DEF Queue, adapter
  <1>2. CallOK(commands, e, used.sessions, used.handles)
    BY <1>1, CallInFront
  <1>3. m.type = "queued" /\ m.n = e.n /\ m.i = e.i
    OBVIOUS
  <1> HIDE DEF m, e
  <1>4. What(commands, m) = "none" /\ HandleOf(m) = 0
    BY <1>3 DEF What, HandleOf, Answers
  <1>5. MsgOK(commands, m, used.sessions, used.handles)
    BY <1>1, <1>2, <1>3, <1>4 DEF MsgOK, CallOK, Answers, Births
  <1>6. MsgNames(commands, m) = CallNames(commands, e)
    BY <1>1, <1>3 DEF MsgNames, CallNames
  <1>7. e = Head(engq) /\ e.op # "open" /\ m.type # "stopped"
    BY <1>1, <1>3 DEF e
  <1>8. Whole(commands, Append(msgs, m), Tail(engq), fences, modem, up, known, handles,
              used.sessions, used.handles)
    BY <1>1, <1>4, <1>5, <1>6, <1>7, QuietCall
  <1> QED BY <1>1, <1>8 DEF GeofenceInv

\* Open: the modem is empty when the adapter is told that it is up.
LEMMA OpenKeeps ==
  ASSUME GeofenceInv, Open PROVE GeofenceInv'
  <1> DEFINE m == [type |-> "engineUp"]
             C == commands
             s == used.sessions
             t == used.handles
  <1>1. /\ engq # << >> /\ Head(engq).op = "open" /\ engq' = Tail(engq)
        /\ msgs' = Append(msgs, m) /\ up' = TRUE
        /\ UNCHANGED <<known, fences, handles, modem, commands, used>>
    BY DEF Open, adapter
  <1>2. /\ Fresh(C, msgs, engq, fences, modem, up) /\ 0 \notin DOMAIN modem
        /\ MapOK(modem, s, t) /\ DOMAIN modem = {} /\ t \in Nat
    BY <1>1, CallInFront
  <1>3. m.type = "engineUp"
    OBVIOUS
  <1> HIDE DEF m
  <1>4. What(C, m) = "up" /\ HandleOf(m) = 0 /\ MsgNames(C, m) = {}
    BY <1>3 DEF What, HandleOf, MsgNames, Answers, Births
  <1>5. MsgOK(C, m, s, t)
    BY <1>3, <1>4 DEF MsgOK, Answers, Births
  <1>6. Truthful(C, msgs, engq, fences, modem, m, 0, modem)
    <2>1. \A j \in 1..Len(msgs) : What(C, msgs[j]) \in Births => msgs[j].h # 0
      BY <1>2 DEF Fresh
    <2> QED BY <1>2, <1>3, <1>4, <2>1 DEF Truthful, Births
  <1>7. t <= t
    BY <1>2
  <1>8. Whole(C, Append(msgs, m), Tail(engq), fences, modem, TRUE, known, handles, s, t)
    BY <1>1, <1>2, <1>4, <1>5, <1>6, <1>7, LocApiSteps DEF GeofenceInv
  <1> QED BY <1>1, <1>8 DEF GeofenceInv

\* A name less.
LEMMA CallDropped ==
  ASSUME NEW C, NEW M, NEW E, NEW F, OneHolder(C, M, E, F), AnySeq(E), E # << >>
  PROVE  OneHolder(C, M, Tail(E), F)
  <1> DEFINE T == Tail(E)
  <1>1. /\ Len(T) \in Nat /\ Len(E) = Len(T) + 1 /\ \A i \in 1..Len(T) : T[i] = E[i + 1]
    BY TailAt
  <1> HIDE DEF T
  <1>2. \A i \in 1..Len(T) : i + 1 \in 1..Len(E) /\ T[i] = E[i + 1]
    BY <1>1
  <1>3. \A i, j \in 1..Len(T) : \A x \in CallNames(C, T[i]) : x \in CallNames(C, T[j]) => i = j
    <2> SUFFICES ASSUME NEW i \in 1..Len(T), NEW j \in 1..Len(T), NEW x \in CallNames(C, T[i]),
                        x \in CallNames(C, T[j])
                 PROVE  i = j
      OBVIOUS
    <2>1. i + 1 = j + 1
      BY <1>2 DEF OneHolder
    <2> QED BY <2>1
  <1>4. OneHolder(C, M, T, F)
    BY <1>2, <1>3 DEF OneHolder
  <1> QED BY <1>4 DEF T

\* What a call that nobody is told of makes of the modem: D2 of D, but for the pause of g.
Hushed(D, g, D2, s, t) ==
    /\ MapOK(D2, s, t) /\ DOMAIN D2 = DOMAIN D
    /\ \A h \in DOMAIN D : h # g => D2[h] = D[h]
    /\ g \in DOMAIN D => /\ Key(D2[g]) = Key(D[g]) /\ D2[g].options = D[g].options
                         /\ D[g].paused => D2[g].paused

\* It pauses the fence.
LEMMA PausedAgain ==
  ASSUME NEW D, NEW g \in DOMAIN D, NEW s, NEW t, MapOK(D, s, t)
  PROVE  Hushed(D, g, [D EXCEPT ![g].paused = TRUE], s, t)
  <1> DEFINE D2 == [D EXCEPT ![g].paused = TRUE]
             f == D[g]
  <1>1. /\ DOMAIN D2 = DOMAIN D /\ D2[g] = [f EXCEPT !.paused = TRUE]
        /\ \A h \in DOMAIN D : h # g => D2[h] = D[h]
    OBVIOUS
  <1>2. FenceOK(f, s)
    BY DEF MapOK
  <1> HIDE DEF D2, f
  <1>3. /\ FenceOK([f EXCEPT !.paused = TRUE], s) /\ Key([f EXCEPT !.paused = TRUE]) = Key(f)
        /\ [f EXCEPT !.paused = TRUE].options = f.options
        /\ [f EXCEPT !.paused = TRUE].paused
    BY <1>2 DEF FenceOK, FenceRecords, Key
  <1>4. \A h \in DOMAIN D2 : h \in 1..t /\ FenceOK(D2[h], s)
    BY <1>1, <1>3 DEF MapOK
  <1>5. Hushed(D, g, D2, s, t)
    BY <1>1, <1>3, <1>4 DEF Hushed, MapOK, f
  <1> QED BY <1>5 DEF D2

\* A fence restored is paused again, or not, and nobody is told.
LEMMA SilentCall ==
  ASSUME GeofenceInv, engq # << >>, Head(engq).op = "repause", NEW D2,
         D2 = modem \/ (/\ Head(engq).h \in DOMAIN modem
                        /\ D2 = [modem EXCEPT ![Head(engq).h].paused = TRUE])
  PROVE  Whole(commands, msgs, Tail(engq), fences, D2, up, known, handles,
               used.sessions, used.handles)
  <1> DEFINE C == commands
             g == Head(engq).h
             s == used.sessions
             t == used.handles
             T == Tail(engq)
  <1>1. /\ AnySeq(engq) /\ AnySeq(msgs) /\ MapOK(modem, s, t) /\ Head(engq) \in In(engq)
        /\ OneHolder(C, msgs, engq, fences) /\ Opening(engq, modem, up)
        /\ Typed(C, msgs, engq, fences, modem, s, t)
        /\ Lives(C, msgs, engq, fences, modem, up, known, handles)
    BY CallInFront DEF GeofenceInv, Whole
  <1>2. /\ MapOK(D2, s, t) /\ DOMAIN D2 = DOMAIN modem
        /\ \A h \in DOMAIN modem : h # g => D2[h] = modem[h]
        /\ g \in DOMAIN modem => /\ Key(D2[g]) = Key(modem[g])
                                 /\ D2[g].options = modem[g].options
                                 /\ modem[g].paused => D2[g].paused
    <2>1. CASE D2 = modem
      BY <1>1, <2>1
    <2>2. CASE D2 # modem
      <3>1. Hushed(modem, g, D2, s, t)
        BY <1>1, <2>2, PausedAgain
      <3> QED BY <3>1 DEF Hushed
    <2> QED BY <2>1, <2>2
  <1>3. AnySeq(T) /\ \A e \in In(T) : e \in In(engq)
    BY <1>1, TailAt
  <1>4. Typed(C, msgs, T, fences, D2, s, t)
    BY <1>1, <1>2, <1>3 DEF Typed
  <1>5. Opening(T, D2, up)
    <2>1. up \/ DOMAIN D2 = {}
      BY <1>1, <1>2 DEF Opening
    <2> QED BY <1>1, <2>1, OpeningNext
  <1>6. OneHolder(C, msgs, T, fences)
    BY <1>1, CallDropped
  <1>7. Lives(C, msgs, T, fences, D2, up, known, handles)
    <2>1. \E e \in In(engq) : e.h = g
      BY <1>1
    <2> HIDE DEF g, T
    <2> QED BY <1>1, <1>2, <1>3, <2>1, SilentLives
  <1> QED BY <1>4, <1>5, <1>6, <1>7 DEF Whole

\* What the answer to a call says: m answers e about the handle h.
Replies(C, e, m, h, ok) ==
    /\ m.type \in Answers /\ m.ok = ok /\ m.h = h
    /\ OpOf(C, m) = e.op
    /\ m.type = "answer" => Item(C, m.n, m.i)
    /\ m.type = "stopped" => e.op = "remove" /\ e.n = 0
    /\ m.type # "stopped" => m.fence = e.fence

\* A pause that is made again has none.
LEMMA NoAnswer ==
  ASSUME NEW e, NEW h, NEW ok, e.op = "repause"
  PROVE  Answer(e, h, ok) = << >>
  BY DEF Answer

\* Every call but a pause that is made again has an answer.
LEMMA AnswerAt ==
  ASSUME NEW C, NEW e, NEW s, NEW t, NEW h, NEW ok, CallOK(C, e, s, t),
         e.op \notin {"queue", "open", "repause"}
  PROVE  \E m : Answer(e, h, ok) = <<m>> /\ Replies(C, e, m, h, ok)
  <1>1. CASE e.op = "restore"
    <2> DEFINE m == [type |-> "restored", h |-> h, fence |-> e.fence, ok |-> ok]
    <2>1. m.type = "restored" /\ m.h = h /\ m.fence = e.fence /\ m.ok = ok
      OBVIOUS
    <2>2. Answer(e, h, ok) = <<m>>
      BY <1>1 DEF Answer
    <2> HIDE DEF m
    <2>3. Replies(C, e, m, h, ok)
      BY <1>1, <2>1 DEF Replies, OpOf, Answers
    <2> QED BY <2>2, <2>3
  <1>2. CASE e.op # "restore" /\ e.n = 0
    <2> DEFINE m == [type |-> "stopped", h |-> h, ok |-> ok]
    <2>1. m.type = "stopped" /\ m.h = h /\ m.ok = ok
      OBVIOUS
    <2>3. e.op = "remove"
      BY <1>2 DEF CallOK, Item, Operations, Changes
    <2>2. Answer(e, h, ok) = <<m>>
      BY <1>2, <2>3 DEF Answer
    <2> HIDE DEF m
    <2>4. Replies(C, e, m, h, ok)
      BY <1>2, <2>1, <2>3 DEF Replies, OpOf, Answers
    <2> QED BY <2>2, <2>4
  <1>3. CASE e.op # "restore" /\ e.n # 0
    <2> DEFINE m == [type |-> "answer", n |-> e.n, i |-> e.i, h |-> h, fence |-> e.fence,
                     ok |-> ok]
    <2>1. /\ m.type = "answer" /\ m.n = e.n /\ m.i = e.i /\ m.h = h /\ m.fence = e.fence
          /\ m.ok = ok
      OBVIOUS
    <2>2. Answer(e, h, ok) = <<m>>
      BY <1>3 DEF Answer
    <2>3. Item(C, e.n, e.i) /\ C[e.n].op = e.op
      BY <1>3 DEF CallOK, Operations, Changes
    <2> HIDE DEF m
    <2>4. Replies(C, e, m, h, ok)
      BY <2>1, <2>3 DEF Replies, OpOf, Answers
    <2> QED BY <2>2, <2>4
  <1> QED BY <1>1, <1>2, <1>3

\* Refuse: nothing changes, and no name is left.
LEMMA RefuseKeeps ==
  ASSUME GeofenceInv, Refuse PROVE GeofenceInv'
  <1> DEFINE e == Head(engq)
             C == commands
             s == used.sessions
             t == used.handles
  <1>1. /\ engq # << >> /\ e.op \notin {"queue", "open"} /\ engq' = Tail(engq)
        /\ msgs' = msgs \o Answer(e, e.h, FALSE)
        /\ UNCHANGED <<known, fences, handles, modem, up, commands>>
    BY DEF Refuse, IsCall, adapter
  <1>2. used' = used \/ used' = [used EXCEPT !.refusals = @ + 1]
    BY DEF Refuse
  <1>3. /\ used' \in [sessions : Nat, handles : Nat, refusals : Nat, crashes : Nat]
        /\ used'.sessions = s /\ used'.handles = t
    <2>1. used \in [sessions : Nat, handles : Nat, refusals : Nat, crashes : Nat]
      BY DEF GeofenceInv
    <2> QED BY <1>2, <2>1
  <1>4. CallOK(C, e, s, t) /\ AnySeq(msgs)
    BY <1>1, CallInFront
  <1> HIDE DEF s, t
  <1>5. CASE e.op = "repause"
    <2>1. Answer(e, e.h, FALSE) = << >>
      BY <1>5, NoAnswer
    <2>2. msgs' = msgs
      BY <1>1, <1>4, <2>1, ConcatFew
    <2>3. Whole(C, msgs, Tail(engq), fences, modem, up, known, handles, s, t)
      BY <1>1, <1>5, SilentCall DEF s, t
    <2> QED BY <1>1, <1>3, <2>2, <2>3 DEF GeofenceInv
  <1>6. CASE e.op # "repause"
    <2>1. PICK m : Answer(e, e.h, FALSE) = <<m>> /\ Replies(C, e, m, e.h, FALSE)
      BY <1>1, <1>4, <1>6, AnswerAt
    <2>2. msgs' = Append(msgs, m)
      <3>1. Append(msgs, m) = msgs \o <<m>>
        BY <1>4, ConcatFew
      <3> QED BY <1>1, <2>1, <3>1
    <2>3. m.type \in Answers /\ m.h = e.h /\ m.ok = FALSE
      BY <2>1 DEF Replies
    <2>4. What(C, m) = "none" /\ HandleOf(m) = e.h /\ MsgNames(C, m) = {}
      BY <2>3 DEF What, HandleOf, MsgNames, Answers, Births
    <2>5. e.h \in 0..t
      BY <1>4 DEF CallOK
    <2>6. MsgOK(C, m, s, t)
      BY <2>1, <2>3, <2>4, <2>5 DEF MsgOK, Answers, Births, Replies
    <2>7. m.type = "stopped" => e.op = "remove" /\ e.n = 0 /\ m.h = e.h
      BY <2>1, <2>3 DEF Replies
    <2>8. Whole(C, Append(msgs, m), Tail(engq), fences, modem, up, known, handles, s, t)
      BY <1>1, <2>4, <2>6, <2>7, QuietCall DEF s, t
    <2> QED BY <1>1, <1>3, <2>2, <2>8 DEF GeofenceInv
  <1> QED BY <1>5, <1>6

\* Every handle seen so far is smaller than the next.
LEMMA NextHandle ==
  ASSUME GeofenceInv, NEW h, h = used.handles + 1
  PROVE  /\ h \in Nat /\ h # 0 /\ h \notin DOMAIN fences /\ h \notin DOMAIN modem
         /\ \A i \in 1..Len(msgs) : HandleOf(msgs[i]) # h
         /\ \A x \in In(engq) : x.h # h
         /\ used.handles <= h /\ \A x \in 0..used.handles : x \in 0..h
  <1>1. /\ used.handles \in Nat
        /\ MapOK(modem, used.sessions, used.handles)
        /\ MapOK(fences, used.sessions, used.handles)
        /\ \A x \in In(engq) : CallOK(commands, x, used.sessions, used.handles)
        /\ \A m \in In(msgs) : MsgOK(commands, m, used.sessions, used.handles)
    BY DEF GeofenceInv, Whole, Typed
  <1>2. \A x \in In(engq) : x.h # h
    BY <1>1 DEF CallOK
  <1>3. \A i \in 1..Len(msgs) : HandleOf(msgs[i]) # h
    <2> SUFFICES ASSUME NEW i \in 1..Len(msgs) PROVE HandleOf(msgs[i]) # h
      OBVIOUS
    <2>1. MsgOK(commands, msgs[i], used.sessions, used.handles)
      BY <1>1 DEF In
    <2> QED BY <1>1, <2>1 DEF MsgOK, HandleOf
  <1>4. h \notin DOMAIN fences /\ h \notin DOMAIN modem
    BY <1>1 DEF MapOK
  <1> QED BY <1>1, <1>2, <1>3, <1>4

\* Accept: the fence is monitored by a handle nobody has seen.
LEMMA AcceptedAdd ==
  ASSUME GeofenceInv, Accept, IsAdd(Head(engq)) PROVE GeofenceInv'
  <1> DEFINE e == Head(engq)
             C == commands
             s == used.sessions
             t == used.handles
             h == t + 1
             D2 == Extend(modem, h, Unpaused(e.fence))
  <1>1. /\ engq # << >> /\ e.op \in {"add", "restore"} /\ engq' = Tail(engq) /\ up
        /\ msgs' = msgs \o Answer(e, h, TRUE) /\ modem' = D2
        /\ used' = [used EXCEPT !.handles = @ + 1]
        /\ UNCHANGED <<known, fences, handles, up, commands>>
    BY DEF Accept, IsCall, adapter, IsAdd, Monitors, Unpaused
  <1>2. /\ used' \in [sessions : Nat, handles : Nat, refusals : Nat, crashes : Nat]
        /\ used'.sessions = s /\ used'.handles = h
    <2>1. used \in [sessions : Nat, handles : Nat, refusals : Nat, crashes : Nat]
      BY DEF GeofenceInv
    <2> QED BY <1>1, <2>1
  <1>3. CallOK(C, e, s, t) /\ AnySeq(msgs) /\ MapOK(modem, s, t) /\ s \in Nat /\ t \in Nat
        /\ Fresh(C, msgs, engq, fences, modem, up)
    BY <1>1, CallInFront
  <1>4. /\ h \in Nat /\ h # 0 /\ h \notin DOMAIN fences /\ h \notin DOMAIN modem
        /\ \A i \in 1..Len(msgs) : HandleOf(msgs[i]) # h
        /\ \A x \in In(engq) : x.h # h
        /\ t <= h /\ \A x \in 0..t : x \in 0..h
    BY NextHandle
  <1>5. h \in 1..h /\ \A x \in 1..t : x \in 1..h
    BY <1>3
  <1>6. FenceOK(e.fence, s)
    BY <1>3 DEF CallOK
  <1>7. FenceOK(Unpaused(e.fence), s) /\ Key(Unpaused(e.fence)) = Key(e.fence)
    BY <1>6, FenceEdited DEF Unpaused
  <1>8. /\ DOMAIN D2 = DOMAIN modem \cup {h} /\ D2[h] = Unpaused(e.fence)
        /\ \A g \in DOMAIN modem : D2[g] = modem[g]
    BY <1>4 DEF Extend
  <1>9. PICK m : Answer(e, h, TRUE) = <<m>> /\ Replies(C, e, m, h, TRUE)
    BY <1>1, <1>3, AnswerAt
  <1>10. msgs' = Append(msgs, m)
    <2>1. Append(msgs, m) = msgs \o <<m>>
      BY <1>3, ConcatFew
    <2> QED BY <1>1, <1>9, <2>1
  <1> HIDE DEF D2, h, e, s, t
  <1>11. /\ m.type \in Answers /\ m.ok = TRUE /\ m.h = h /\ OpOf(C, m) = e.op
         /\ m.fence = e.fence /\ m.type # "stopped"
         /\ m.type = "answer" => Item(C, m.n, m.i)
    BY <1>1, <1>9 DEF Replies
  <1>12. What(C, m) = e.op /\ What(C, m) \in Births /\ HandleOf(m) = h
    BY <1>1, <1>11 DEF What, HandleOf, Births, Answers
  <1>13. MsgNames(C, m) = {Key(e.fence)} /\ CallNames(C, e) = {Key(e.fence)}
    BY <1>1, <1>11, <1>12 DEF MsgNames, CallNames, IsAdd, Answers
  <1>14. MsgOK(C, m, s, h)
    <2>1. h \in 0..h
      BY <1>4
    <2> QED BY <1>4, <1>6, <1>11, <2>1 DEF MsgOK, Answers
  <1>15. MapOK(D2, s, h)
    BY <1>3, <1>5, <1>7, <1>8 DEF MapOK
  <1>16. Truthful(C, msgs, engq, fences, modem, m, h, D2)
    <2>1. \A j \in 1..Len(msgs) : What(C, msgs[j]) \in Births => msgs[j].h # h
      BY <1>4, ToldOf
    <2>2. What(C, m) \notin {"up", "remove", "modify", "pause"}
      BY <1>12 DEF Births
    <2> QED BY <1>4, <1>8, <1>11, <1>12, <2>1, <2>2 DEF Truthful
  <1>17. Whole(C, Append(msgs, m), Tail(engq), fences, D2, up, known, handles, s, h)
    <2>1. /\ e = Head(engq) /\ e.op # "open"
          /\ Whole(C, msgs, engq, fences, modem, up, known, handles, s, t)
      BY <1>1 DEF GeofenceInv, s, t, e
    <2>2. MsgNames(C, m) \subseteq CallNames(C, Head(engq)) /\ Head(engq).op # "open"
      BY <1>13, <2>1
    <2> QED BY <1>1, <1>4, <1>14, <1>15, <1>16, <2>1, <2>2, LocApiSteps
  <1> QED BY <1>1, <1>2, <1>10, <1>17 DEF GeofenceInv

\* What a call that the modem accepts makes of a fence g that it monitors.
Touched(op, D, g, D2, s, t) ==
    /\ MapOK(D2, s, t)
    /\ \A h \in DOMAIN D : h # g => h \in DOMAIN D2 /\ D2[h] = D[h]
    /\ \A h \in DOMAIN D2 : h \in DOMAIN D
    /\ op = "remove" <=> g \notin DOMAIN D2
    /\ op # "remove" =>
          /\ Key(D2[g]) = Key(D[g])
          /\ IF op = "modify" THEN D2[g].options = Modified ELSE D2[g].options = D[g].options
          /\ op \in {"pause", "modify"} /\ D[g].paused => D2[g].paused
          /\ op = "pause" => D2[g].paused

\* It removes it, or changes what it is.
LEMMA MonitorsAt ==
  ASSUME NEW e, NEW g \in DOMAIN modem, NEW s, NEW t, MapOK(modem, s, t),
         e.op \in Changes \cup {"remove"}
  PROVE  Touched(e.op, modem, g, Monitors(e, g), s, t)
  <1> DEFINE D == modem
             D2 == Monitors(e, g)
             f == D[g]
  <1>1. FenceOK(f, s)
    BY DEF MapOK
  <1>2. CASE e.op = "remove"
    <2>1. D2 = Without(D, g)
      BY <1>2 DEF Monitors, IsAdd
    <2> HIDE DEF D2
    <2>2. DOMAIN D2 = DOMAIN D \ {g} /\ \A h \in DOMAIN D2 : D2[h] = D[h]
      BY <2>1 DEF Without, Restrict
    <2>3. Touched(e.op, D, g, D2, s, t)
      BY <1>2, <2>2 DEF Touched, MapOK
    <2> QED BY <2>3 DEF D2
  \* The fence becomes f2.
  <1>3. ASSUME NEW f2, D2 = [D EXCEPT ![g] = f2], FenceOK(f2, s), Key(f2) = Key(f),
               e.op # "remove",
               IF e.op = "modify" THEN f2.options = Modified ELSE f2.options = f.options,
               e.op \in {"pause", "modify"} /\ f.paused => f2.paused,
               e.op = "pause" => f2.paused
        PROVE  Touched(e.op, D, g, D2, s, t)
    <2> HIDE DEF D2
    <2>1. /\ DOMAIN D2 = DOMAIN D /\ D2[g] = f2
          /\ \A h \in DOMAIN D : h # g => D2[h] = D[h]
      BY <1>3
    <2>2. MapOK(D2, s, t)
      BY <1>3, <2>1 DEF MapOK
    <2> QED BY <1>3, <2>1, <2>2 DEF Touched
  <1>4. CASE e.op \in {"pause", "resume"}
    <2> DEFINE b == e.op = "pause"
               f2 == [f EXCEPT !.paused = b]
    <2>1. D2 = [D EXCEPT ![g].paused = b]
      BY <1>4 DEF Monitors, IsAdd
    <2>2. D2 = [D EXCEPT ![g] = f2]
      BY <2>1
    <2>3. /\ FenceOK(f2, s) /\ Key(f2) = Key(f) /\ f2.options = f.options /\ f2.paused = b
      <3> HIDE DEF f
      <3>1. b \in BOOLEAN
        OBVIOUS
      <3> HIDE DEF b
      <3> QED BY <1>1, <3>1 DEF FenceOK, FenceRecords, Key
    <2> HIDE DEF D2, f2, f, D
    <2>4. Touched(e.op, D, g, D2, s, t)
      BY <1>3, <1>4, <2>2, <2>3
    <2> QED BY <2>4 DEF D, D2
  <1>5. CASE e.op = "modify"
    <2> DEFINE f2 == [f EXCEPT !.options = Modified]
    <2>1. D2 = [D EXCEPT ![g] = f2]
      BY <1>5 DEF Monitors, IsAdd
    <2>2. FenceOK(f2, s) /\ Key(f2) = Key(f) /\ f2.options = Modified /\ f2.paused = f.paused
      <3> HIDE DEF f
      <3> QED BY <1>1 DEF FenceOK, FenceRecords, Key
    <2> HIDE DEF D2, f2, f, D
    <2>3. Touched(e.op, D, g, D2, s, t)
      BY <1>3, <1>5, <2>1, <2>2
    <2> QED BY <2>3 DEF D, D2
  <1> QED BY <1>2, <1>4, <1>5 DEF Changes

\* Accept: the fence is monitored as the answer says.
LEMMA AcceptedChange ==
  ASSUME GeofenceInv, Accept, Head(engq).op \in Changes \cup {"remove"} PROVE GeofenceInv'
  <1> DEFINE e == Head(engq)
             C == commands
             s == used.sessions
             t == used.handles
             h == e.h
             D2 == Monitors(e, h)
  <1>1. /\ engq # << >> /\ e.op \in Changes \cup {"remove"} /\ engq' = Tail(engq) /\ up
        /\ h \in DOMAIN modem /\ ~IsAdd(e)
        /\ msgs' = msgs \o Answer(e, h, TRUE) /\ modem' = D2
        /\ UNCHANGED <<known, fences, handles, up, commands, used>>
    BY DEF Accept, IsCall, adapter, IsAdd, Changes
  <1>2. /\ CallOK(C, e, s, t) /\ AnySeq(msgs) /\ MapOK(modem, s, t) /\ s \in Nat /\ t \in Nat
        /\ Fresh(C, msgs, engq, fences, modem, up) /\ e \in In(engq) /\ 0 \notin DOMAIN modem
    BY <1>1, CallInFront
  <1>3. Touched(e.op, modem, h, D2, s, t)
    BY <1>1, <1>2, MonitorsAt
  <1>4. e.op \notin {"queue", "open", "repause", "add", "restore", "up", "none"}
    BY <1>1 DEF Changes
  <1>5. PICK m : Answer(e, h, TRUE) = <<m>> /\ Replies(C, e, m, h, TRUE)
    BY <1>2, <1>4, AnswerAt
  <1>6. msgs' = Append(msgs, m)
    <2>1. Append(msgs, m) = msgs \o <<m>>
      BY <1>2, ConcatFew
    <2> QED BY <1>1, <1>5, <2>1
  <1>7. t <= t /\ t \in Nat
    BY <1>2
  <1>8. Whole(C, msgs, engq, fences, modem, up, known, handles, s, t) /\ e = Head(engq)
    BY DEF GeofenceInv
  <1> HIDE DEF D2, h, e, s, t
  <1>9. h = e.h /\ h # 0
    BY <1>1, <1>2 DEF h
  <1>10. /\ m.type \in Answers /\ m.ok = TRUE /\ m.h = h /\ OpOf(C, m) = e.op
         /\ m.type = "stopped" => e.op = "remove" /\ e.n = 0
         /\ m.type = "answer" => Item(C, m.n, m.i)
    BY <1>5 DEF Replies
  <1>11. What(C, m) = e.op /\ HandleOf(m) = h /\ What(C, m) \notin Births
    BY <1>4, <1>10 DEF What, HandleOf, Births, Answers
  <1>12. MsgNames(C, m) = {}
    BY <1>10, <1>11 DEF MsgNames, Answers
  <1>13. MsgOK(C, m, s, t)
    <2>1. h \in 0..t
      BY <1>2, <1>9 DEF CallOK
    <2> QED BY <1>10, <1>11, <2>1 DEF MsgOK, Answers
  <1>14. Truthful(C, msgs, engq, fences, modem, m, h, D2)
    <2>1. \A j \in 1..Len(msgs) : What(C, msgs[j]) \in Births => msgs[j].h # h
      BY <1>2, <1>9 DEF Fresh
    <2>2. m.type = "stopped" => \E x \in In(engq) : x.op = "remove" /\ x.n = 0 /\ x.h = m.h
      BY <1>2, <1>9, <1>10
    <2>3. What(C, m) # "up"
      BY <1>4, <1>11
    <2>4. /\ \A x \in DOMAIN modem \cup DOMAIN D2 : x # h =>
                x \in DOMAIN modem /\ x \in DOMAIN D2 /\ D2[x] = modem[x]
          /\ h \in DOMAIN modem
          /\ h \in DOMAIN modem \ DOMAIN D2 => e.op = "remove"
          /\ e.op = "remove" => h \notin DOMAIN D2
      BY <1>1, <1>3 DEF Touched
    <2>5. /\ h \in DOMAIN D2 =>
                /\ Key(D2[h]) = Key(modem[h])
                /\ D2[h].options = modem[h].options \/ e.op = "modify"
                /\ (modem[h].paused => D2[h].paused) \/ e.op = "resume"
                /\ modem[h].options = Modified => D2[h].options = Modified
          /\ e.op = "modify" => D2[h].options = Modified
          /\ e.op = "pause" => D2[h].paused
      BY <1>1, <1>3 DEF Touched, Changes
    <2> QED BY <1>10, <1>11, <2>1, <2>2, <2>3, <2>4, <2>5 DEF Truthful
  <1>15. MsgNames(C, m) \subseteq CallNames(C, Head(engq)) /\ Head(engq).op # "open"
    BY <1>4, <1>8, <1>12
  <1>16. MapOK(D2, s, t) /\ (up \/ DOMAIN D2 = {})
    BY <1>1, <1>3 DEF Touched
  <1>17. Whole(C, Append(msgs, m), Tail(engq), fences, D2, up, known, handles, s, t)
    BY <1>1, <1>7, <1>8, <1>13, <1>14, <1>15, <1>16, LocApiSteps
  <1> QED BY <1>1, <1>6, <1>17 DEF GeofenceInv, s, t

\* Accept: a fence that was restored is paused again, and nobody is told.
LEMMA AcceptedRepause ==
  ASSUME GeofenceInv, Accept, Head(engq).op = "repause" PROVE GeofenceInv'
  <1> DEFINE e == Head(engq)
             h == e.h
             D2 == [modem EXCEPT ![h].paused = TRUE]
  <1>1. /\ engq # << >> /\ engq' = Tail(engq) /\ h \in DOMAIN modem
        /\ msgs' = msgs \o Answer(e, h, TRUE) /\ modem' = D2
        /\ UNCHANGED <<known, fences, handles, up, commands, used>>
    BY DEF Accept, IsCall, adapter, IsAdd, Monitors
  <1>2. Answer(e, h, TRUE) = << >>
    BY NoAnswer
  <1>3. msgs' = msgs
    <2>1. AnySeq(msgs)
      BY <1>1, CallInFront
    <2> QED BY <1>1, <1>2, <2>1, ConcatFew
  <1>4. Whole(commands, msgs, Tail(engq), fences, D2, up, known, handles,
              used.sessions, used.handles)
    BY <1>1, SilentCall
  <1> QED BY <1>1, <1>3, <1>4 DEF GeofenceInv

\* A call the modem accepts.
LEMMA AcceptKeeps ==
  ASSUME GeofenceInv, Accept PROVE GeofenceInv'
  <1>1. engq # << >> /\ Head(engq).op \notin {"queue", "open"}
    BY DEF Accept, IsCall
  <1>2. CallOK(commands, Head(engq), used.sessions, used.handles)
    BY <1>1, CallInFront
  <1>3. \/ IsAdd(Head(engq)) \/ Head(engq).op = "repause"
        \/ Head(engq).op \in Changes \cup {"remove"}
    BY <1>1, <1>2 DEF CallOK, IsAdd, Changes, Operations
  <1> QED BY <1>3, AcceptedAdd, AcceptedChange, AcceptedRepause

\* Crash: the modem monitors nothing until the LocApi has opened it.
LEMMA CrashKeeps ==
  ASSUME GeofenceInv, Crash PROVE GeofenceInv'
  <1> DEFINE o == Call("open", 0, 0, 0, NoFence)
             C == commands
             s == used.sessions
             t == used.handles
             E2 == Append(engq, o)
  <1>1. /\ up /\ up' = FALSE /\ modem' = << >> /\ engq' = E2
        /\ used' = [used EXCEPT !.crashes = @ + 1]
        /\ UNCHANGED <<known, fences, handles, msgs, commands>>
    BY DEF Crash, adapter
  <1>2. /\ used' \in [sessions : Nat, handles : Nat, refusals : Nat, crashes : Nat]
        /\ used'.sessions = s /\ used'.handles = t
    <2>1. used \in [sessions : Nat, handles : Nat, refusals : Nat, crashes : Nat]
      BY DEF GeofenceInv
    <2> QED BY <1>1, <2>1
  <1>3. /\ Typed(C, msgs, engq, fences, modem, s, t) /\ Opening(engq, modem, up)
        /\ OneHolder(C, msgs, engq, fences)
        /\ Lives(C, msgs, engq, fences, modem, up, known, handles)
        /\ AnySeq(msgs) /\ AnySeq(engq) /\ s \in Nat /\ t \in Nat
    BY DEF GeofenceInv, Whole, Typed
  <1>4. o.op = "open" /\ o.h = 0 /\ CallNames(C, o) = {}
    BY DEF Call, CallNames, IsAdd
  <1>5. DOMAIN << >> = {}
    OBVIOUS
  <1> HIDE DEF o, s, t
  <1>6. AnySeq(E2) /\ In(E2) = In(engq) \cup {o}
    BY <1>3, AppendAt
  <1>7. CallOK(C, o, s, t)
    BY <1>3, <1>4 DEF CallOK, IsAdd, Changes, Operations
  <1>8. /\ Len(engq) \in Nat /\ Len(E2) = Len(engq) + 1 /\ E2[Len(engq) + 1] = o
        /\ \A i \in 1..Len(engq) : E2[i] = engq[i]
    BY <1>3, AppendAt
  <1> HIDE DEF E2
  <1>9. Typed(C, msgs, E2, fences, << >>, s, t)
    BY <1>3, <1>5, <1>6, <1>7 DEF Typed, MapOK
  <1>10. OneHolder(C, msgs, E2, fences)
    <2>1. \A i \in 1..Len(E2) : \A x \in CallNames(C, E2[i]) : i \in 1..Len(engq) /\ E2[i] = engq[i]
      BY <1>4, <1>8
    <2> QED BY <1>3, <2>1 DEF OneHolder
  <1>11. Opening(E2, << >>, FALSE)
    <2>1. Opening(engq, modem, TRUE)
      BY <1>1, <1>3 DEF Opening
    <2> QED BY <1>3, <1>4, <1>5, <2>1, OpeningCalled DEF E2
  <1>12. Lives(C, msgs, E2, fences, << >>, FALSE, known, handles)
    <2>1. \A e \in In(E2) : e \in In(engq) \/ (e.h = 0 /\ e.op # "remove")
      BY <1>4, <1>6
    <2> QED BY <1>3, <1>5, <2>1, CrashLives
  <1>13. Whole(C, msgs, E2, fences, << >>, FALSE, known, handles, s, t)
    BY <1>9, <1>10, <1>11, <1>12 DEF Whole
  <1> QED BY <1>1, <1>2, <1>13 DEF GeofenceInv

-----------------------------------------------------------------------------
(* The clients.                                                            *)

\* A command is given, with its message behind all others; an add has new sessions.
LEMMA Issued ==
  ASSUME GeofenceInv, NEW c \in Clients, NEW op \in Operations, NEW q, NEW ids, NEW s2 \in Nat,
         AnySeq(q), used.sessions <= s2, Issue(c, op, q, ids),
         op = "add" => \A i, j \in 1..Len(q) : /\ q[i] \in 1..s2 /\ q[i] \notin 1..used.sessions
                                               /\ q[i] = q[j] => i = j
  PROVE  Whole(commands', msgs', engq', fences', modem', up', known', handles', s2, used.handles)
  <1> DEFINE C == commands
             s == used.sessions
             t == used.handles
             n == Len(C) + 1
             x == NewCommand(c, op, q, ids)
             m == [type |-> "command", n |-> n]
             X == Append(C, x)
  <1>1. /\ commands' = X /\ msgs' = Append(msgs, m)
        /\ UNCHANGED <<engq, fences, handles, known, modem, up>>
    BY DEF Issue, adapter
  <1>2. AnySeq(C) /\ s \in Nat /\ t \in Nat /\ \A i \in 1..Len(C) : Shaped(C[i], s)
    BY DEF GeofenceInv, Whole, Typed, CommandsOK
  <1>3. /\ x.client = c /\ x.op = op /\ x.sessions = q
        /\ {"client", "op", "sessions"} \subseteq DOMAIN x
    BY DEF NewCommand
  <1>4. m.type = "command" /\ m.n = n
    OBVIOUS
  <1>5. Whole(C, msgs, engq, fences, modem, up, known, handles, s, t)
    BY DEF GeofenceInv
  <1> HIDE DEF x, m, s, t
  <1>6. /\ AnySeq(X) /\ Len(C) \in Nat /\ Len(X) = n /\ X[n] = x
        /\ \A i \in 1..Len(C) : X[i] = C[i]
    BY <1>2, AppendAt
  <1> HIDE DEF X
  <1>7. Later(C, X)
    BY <1>2, <1>6 DEF Later
  <1>8. CommandsOK(X, s2)
    <2>1. Shaped(x, s2)
      BY <1>3 DEF Shaped
    <2>2. \A i \in 1..Len(C) : Shaped(C[i], s2)
      BY <1>2 DEF Shaped, s
    <2>3. \A i \in 1..Len(X) : i \in 1..Len(C) \/ i = n
      BY <1>6
    <2> QED BY <1>6, <2>1, <2>2, <2>3 DEF CommandsOK
  <1>9. n \in 1..Len(X)
    BY <1>6
  <1>10. MsgOK(X, m, s2, t) /\ m.type \in {"command", "removeClient"}
    BY <1>4, <1>9 DEF MsgOK, Answers, What, Births
  <1>11. \A y \in MsgNames(X, m) : y[2] \notin 1..s
    <2> SUFFICES ASSUME NEW y \in MsgNames(X, m) PROVE y[2] \notin 1..s
      OBVIOUS
    <2>1. PICK i \in DOMAIN q : op = "add" /\ y = <<c, q[i]>>
      BY <1>3, <1>4, <1>6 DEF MsgNames, ItemName
    <2>2. i \in 1..Len(q)
      BY MembersAt
    <2> QED BY <2>1, <2>2 DEF s
  <1>12. Whole(X, Append(msgs, m), engq, fences, modem, up, known, handles, s2, t)
    BY <1>5, <1>7, <1>8, <1>10, <1>11, ClientSteps DEF s
  <1> QED BY <1>1, <1>12 DEF t

\* AddGeofences: the sessions are new.
LEMMA AddGeofencesKeeps ==
  ASSUME GeofenceInv, NEW c \in Clients, NEW ids \in Batches, AddGeofences(c, ids)
  PROVE  GeofenceInv'
  <1> DEFINE s == used.sessions
             q == [i \in DOMAIN ids |-> s + i]
  <1>1. Issue(c, "add", q, ids) /\ used' = [used EXCEPT !.sessions = @ + Len(ids)]
    BY DEF AddGeofences
  <1>2. AnySeq(ids) /\ Len(ids) \in Nat /\ DOMAIN ids = 1..Len(ids) /\ s \in Nat
    BY GeofencesAssumption DEF AnySeq, GeofenceInv
  <1>3. /\ used' \in [sessions : Nat, handles : Nat, refusals : Nat, crashes : Nat]
        /\ used'.sessions = s + Len(ids) /\ used'.handles = used.handles
    <2>1. used \in [sessions : Nat, handles : Nat, refusals : Nat, crashes : Nat]
      BY DEF GeofenceInv
    <2> QED BY <1>1, <1>2, <2>1
  <1>4. q = [i \in DOMAIN ids |-> q[i]]
    OBVIOUS
  <1>5. \A i \in 1..Len(ids) : q[i] = s + i
    BY <1>2
  <1> HIDE DEF q
  <1>6. AnySeq(q) /\ Len(q) = Len(ids)
    BY <1>2, <1>4, MadeFrom
  <1>7. \A i, j \in 1..Len(q) : /\ q[i] \in 1..(s + Len(ids)) /\ q[i] \notin 1..s
                                /\ q[i] = q[j] => i = j
    BY <1>2, <1>5, <1>6
  <1>8. s + Len(ids) \in Nat /\ s <= s + Len(ids) /\ "add" \in Operations
    BY <1>2 DEF Operations
  <1>9. Whole(commands', msgs', engq', fences', modem', up', known', handles',
              s + Len(ids), used.handles)
    BY <1>1, <1>6, <1>7, <1>8, Issued
  <1> QED BY <1>3, <1>9 DEF GeofenceInv

\* The other commands: the sessions are those of some of the ids.
LEMMA OnSessionsKeeps ==
  ASSUME GeofenceInv, NEW c \in Clients, NEW ids \in Batches, NEW op \in Operations, op # "add",
         NEW mapped \in Mapped(c, ids), OnSessions(c, op, ids, mapped), UNCHANGED used
  PROVE  GeofenceInv'
  <1> DEFINE S == {i \in DOMAIN ids : ids[i] \in DOMAIN dict[c].session}
             q == [j \in DOMAIN mapped |-> dict[c].session[mapped[j]]]
  <1>1. Issue(c, op, q, mapped)
    BY DEF OnSessions
  <1>2. PICK a \in Ascending(S) : mapped = [j \in DOMAIN a |-> ids[a[j]]]
    BY DEF Mapped
  <1>3. AnySeq(a)
    <2>1. Len(ids) \in Nat /\ DOMAIN ids = 1..Len(ids)
      BY GeofencesAssumption
    <2>2. IsFiniteSet(1..Len(ids))
      BY <2>1, FS_Interval
    <2>3. S \subseteq 1..Len(ids) /\ S \subseteq Nat
      BY <2>1
    <2> HIDE DEF S
    <2>4. IsFiniteSet(S)
      BY <2>2, <2>3, FS_Subset
    <2> QED BY <2>3, <2>4, AscendingAt
  <1>4. mapped = [j \in DOMAIN a |-> mapped[j]]
    BY <1>2
  <1>5. AnySeq(mapped)
    BY <1>3, <1>4, MadeFrom
  <1>6. q = [j \in DOMAIN mapped |-> q[j]]
    OBVIOUS
  <1> HIDE DEF q
  <1>7. AnySeq(q)
    BY <1>5, <1>6, MadeFrom
  <1>8. used.sessions \in Nat /\ used.sessions <= used.sessions
    BY DEF GeofenceInv
  <1>9. Whole(commands', msgs', engq', fences', modem', up', known', handles',
              used.sessions, used.handles)
    BY <1>1, <1>7, <1>8, Issued
  <1> QED BY <1>9 DEF GeofenceInv

\* RemoveClientCommand: a message that names no fence.
LEMMA RemoveClientCommandKeeps ==
  ASSUME GeofenceInv, NEW c \in Clients, RemoveClientCommand(c) PROVE GeofenceInv'
  <1> DEFINE C == commands
             s == used.sessions
             t == used.handles
             m == [type |-> "removeClient", client |-> c]
  <1>1. /\ msgs' = Append(msgs, m)
        /\ UNCHANGED <<engq, known, fences, handles, modem, up, commands, used>>
    BY DEF RemoveClientCommand, adapter
  <1>2. m.type = "removeClient"
    OBVIOUS
  <1> HIDE DEF m
  <1>3. /\ Whole(C, msgs, engq, fences, modem, up, known, handles, s, t)
        /\ CommandsOK(C, s) /\ s \in Nat /\ t \in Nat /\ s <= s
    BY DEF GeofenceInv, Whole, Typed
  <1>4. SameTask(C, C, s)
    BY <1>3, Unedited
  <1>5. MsgOK(C, m, s, t) /\ MsgNames(C, m) = {}
    BY <1>2 DEF MsgOK, MsgNames, Answers, What, Births
  <1>6. Whole(C, Append(msgs, m), engq, fences, modem, up, known, handles, s, t)
    BY <1>2, <1>3, <1>4, <1>5, ClientSteps DEF SameTask
  <1> QED BY <1>1, <1>6 DEF GeofenceInv

-----------------------------------------------------------------------------
(* The theorems.                                                           *)

\* At first there is nothing, and the modem is open.
LEMMA GeofenceInit == Init => GeofenceInv
  <1> SUFFICES ASSUME Init PROVE GeofenceInv
    OBVIOUS
  <1>1. /\ msgs = << >> /\ engq = << >> /\ fences = << >> /\ handles = << >> /\ modem = << >>
        /\ commands = << >> /\ up = TRUE
    BY DEF Init
  <1>2. /\ used \in [sessions : Nat, handles : Nat, refusals : Nat, crashes : Nat]
        /\ used.sessions = 0 /\ used.handles = 0
    BY DEF Init
  <1>3. AnySeq(<< >>) /\ In(<< >>) = {} /\ Len(<< >>) = 0 /\ DOMAIN << >> = {}
    BY NoneAt
  <1>4. \A i \in 1..Len(<< >>) : FALSE
    BY <1>3
  <1>5. Typed(commands, msgs, engq, fences, modem, 0, 0)
    BY <1>1, <1>3, <1>4 DEF Typed, CommandsOK, MapOK
  <1>6. Opening(engq, modem, up)
    BY <1>1, <1>3, <1>4 DEF Opening
  <1>7. OneHolder(commands, msgs, engq, fences)
    BY <1>1, <1>3, <1>4 DEF OneHolder
  <1>8. Agree(fences, handles, known) /\ Nameless(msgs, engq, handles)
    BY <1>1, <1>3, <1>4 DEF Agree, Nameless
  <1>9. Lives(commands, msgs, engq, fences, modem, up, known, handles)
    BY <1>1, <1>3, <1>4, <1>8 DEF Lives, Monitored, Fresh, Gone, Lasting, Alike, Changed
  <1> QED BY <1>2, <1>5, <1>6, <1>7, <1>9 DEF GeofenceInv, Whole

\* A step of the adapter's thread.
LEMMA ProcKeeps ==
  ASSUME GeofenceInv, Proc PROVE GeofenceInv'
  BY ProcCommandKeeps, ProcQueuedKeeps, ProcAnswerKeeps, ProcRemoveClientKeeps, ProcStoppedKeeps,
     ProcEngineUpKeeps, ProcRestoredKeeps DEF Proc

\* A step of the LocApi.
LEMMA LocApiKeeps ==
  ASSUME GeofenceInv, LocApi PROVE GeofenceInv'
  BY QueueKeeps, AcceptKeeps, RefuseKeeps, OpenKeeps DEF LocApi

\* A call of a client.
LEMMA CallsKeep ==
  ASSUME GeofenceInv, Calls PROVE GeofenceInv'
  <1>1. CASE \E c \in Clients, ids \in Batches : AddGeofences(c, ids)
    BY <1>1, AddGeofencesKeeps
  <1>2. ASSUME NEW c \in Clients, NEW ids \in Batches, RemoveGeofences(c, ids)
        PROVE  GeofenceInv'
    <2>1. PICK mapped \in Mapped(c, ids) : OnSessions(c, "remove", ids, mapped)
      BY <1>2 DEF RemoveGeofences
    <2>2. UNCHANGED used /\ "remove" \in Operations /\ "remove" # "add"
      BY <1>2 DEF RemoveGeofences, Operations
    <2> QED BY <2>1, <2>2, OnSessionsKeeps
  <1>3. ASSUME NEW c \in Clients, NEW ids \in Batches, NEW op \in {"pause", "resume", "modify"},
               ChangeGeofences(c, op, ids)
        PROVE  GeofenceInv'
    <2>1. PICK mapped \in Mapped(c, ids) : OnSessions(c, op, ids, mapped)
      BY <1>3 DEF ChangeGeofences
    <2>2. UNCHANGED used /\ op \in Operations /\ op # "add"
      BY <1>3 DEF ChangeGeofences, Operations
    <2> QED BY <2>1, <2>2, OnSessionsKeeps
  <1>4. CASE \E c \in Clients : RemoveClientCommand(c)
    BY <1>4, RemoveClientCommandKeeps
  <1> QED BY <1>1, <1>2, <1>3, <1>4 DEF Calls

\* A step that changes nothing.
LEMMA StutterKeeps ==
  ASSUME GeofenceInv, UNCHANGED vars PROVE GeofenceInv'
  BY DEF GeofenceInv, vars, adapter, client

\* Every step keeps the invariant.
THEOREM GeofenceInvariant == Spec => []GeofenceInv
  <1>1. GeofenceInv /\ [Next]_vars => GeofenceInv'
    BY ProcKeeps, LocApiKeeps, CallsKeep, CrashKeeps, StutterKeeps DEF Next
  <1> QED BY GeofenceInit, <1>1, PTL DEF Spec

\* mGeofences and mGeofenceIds of the GeofenceAdapter describe the same fences: every handle
\* a client's command would be made with stands for the fence it names, whatever the
\* clients ask, the modem refuses and however often it restarts.
THEOREM MapsAlwaysAgree == Spec => []MapsAgree
  <1>1. GeofenceInv => MapsAgree
    BY DEF GeofenceInv, Whole, Lives, Agree, MapsAgree
  <1> QED BY GeofenceInvariant, <1>1, PTL

\* When the adapter and the LocApi have nothing left to do, restarts included, the modem
\* monitors no fence that the adapter's map does not hold, and it monitors every fence of a
\* client the adapter knows, with the options and the pause the adapter recorded.
THEOREM ModemAlwaysFollows == Spec => []ModemFollowsMap
  <1>1. GeofenceInv => ModemFollowsMap
    <2> SUFFICES ASSUME GeofenceInv, Idle
                 PROVE  /\ DOMAIN modem \subseteq DOMAIN fences
                        /\ \A h \in DOMAIN fences : fences[h].client \in known =>
                              /\ h \in DOMAIN modem
                              /\ Key(modem[h]) = Key(fences[h])
                              /\ modem[h].options = fences[h].options
                              /\ fences[h].paused => modem[h].paused
      BY DEF ModemFollowsMap
    <2>1. msgs = << >> /\ engq = << >> /\ Len(<< >>) = 0 /\ In(<< >>) = {}
      BY NoneAt DEF Idle
    <2>2. (\A i \in 1..Len(msgs) : FALSE) /\ (\A e \in In(engq) : FALSE)
      BY <2>1
    <2>3. up
      BY <2>2 DEF GeofenceInv, Whole, Opening
    <2>4. /\ Monitored(commands, msgs, fences, modem)
          /\ Lasting(commands, msgs, fences, modem, up, known)
          /\ Alike(commands, msgs, fences, modem)
      BY DEF GeofenceInv, Whole, Lives
    <2>5. DOMAIN modem \subseteq DOMAIN fences
      BY <2>2, <2>4 DEF Monitored
    <2>6. ASSUME NEW h \in DOMAIN fences, fences[h].client \in known
          PROVE  /\ h \in DOMAIN modem
                 /\ Key(modem[h]) = Key(fences[h]) /\ modem[h].options = fences[h].options
                 /\ fences[h].paused => modem[h].paused
      <3>1. h \in DOMAIN modem
        BY <2>2, <2>3, <2>4, <2>6 DEF Lasting
      <3> QED BY <2>2, <2>4, <3>1 DEF Alike
    <2> QED BY <2>5, <2>6
  <1> QED BY GeofenceInvariant, <1>1, PTL

-----------------------------------------------------------------------------
(* Fences survive a restart.                                               *)

\* The fence of that name is not wanted any more: its client is gone, or asked for its
\* removal.
GivenUp(C, lv, k) ==
    \/ k[1] \notin lv
    \/ \E n \in 1..Len(C) : C[n].op = "remove" /\ k[2] \in In(C[n].sessions)

\* The fence of that name is in the map, or on its way back to it after a restart.
Somewhere(M, E, F, k) ==
    \/ \E h \in DOMAIN F : Key(F[h]) = k
    \/ \E e \in In(E) : e.op = "restore" /\ Key(e.fence) = k
    \/ \E m \in In(M) : m.type = "restored" /\ Key(m.fence) = k

\* Every fence whose client was or will be told that it was added is there, or not wanted.
Promised(C, M, E, F, lv) ==
    \A n \in 1..Len(C) : C[n].op = "add" =>
        \A i \in 1..Len(C[n].sessions) : C[n].errs[i] = "ok" =>
            GivenUp(C, lv, ItemName(C, n, i)) \/ Somewhere(M, E, F, ItemName(C, n, i))

\* A message after which a fence may be out of the map.
Ends(C, m) == m.type = "stopped" \/ (m.type = "answer" /\ C[m.n].op = "remove")

\* A fence whose removal is under way is not wanted any more.
Doomed(C, M, E, F, lv) ==
    \A h \in DOMAIN F :
        \/ \E m \in In(M) : Ends(C, m) /\ m.h = h
        \/ \E e \in In(E) : e.op = "remove" /\ e.h = h
        => GivenUp(C, lv, Key(F[h]))

\* What is added for an item has the name of the item.
NamedCall(C, e) == e.op = "add" => Key(e.fence) = ItemName(C, e.n, e.i)
NamedMsg(C, m) ==
    m.type = "answer" /\ C[m.n].op = "add" => Key(m.fence) = ItemName(C, m.n, m.i)
Named(C, M, E) == (\A e \in In(E) : NamedCall(C, e)) /\ (\A m \in In(M) : NamedMsg(C, m))

\* The adapter knows the clients that have not called destroy.
Leaving(M, kn, lv) ==
    lv \subseteq kn /\ \A m \in In(M) : m.type = "removeClient" => m.client \notin lv

\* There is one restart at most; before it nothing of it is under way, and once it is on the
\* modem stays open.
Restarting(M, E, u, x) ==
    /\ x \in {0, 1} /\ u \in BOOLEAN
    /\ x = 0 => /\ u /\ \A e \in In(E) : e.op \notin {"open", "restore"}
                /\ \A m \in In(M) : m.type \notin {"engineUp", "restored"}
    /\ (\E e \in In(E) : e.op = "restore") \/ (\E m \in In(M) : m.type = "engineUp") => u
    /\ \A m \in In(M) : m.type = "restored" => m.ok

\* The results of a command, one for each item.
ErrsOK(C) ==
    \A n \in 1..Len(C) : /\ "errs" \in DOMAIN C[n]
                         /\ C[n].errs = [j \in DOMAIN C[n].sessions |-> C[n].errs[j]]

\* All of it.
SurvivalInv ==
    /\ Named(commands, msgs, engq) /\ ErrsOK(commands)
    /\ Doomed(commands, msgs, engq, fences, live)
    /\ Promised(commands, msgs, engq, fences, live)
    /\ Leaving(msgs, known, live)
    /\ Restarting(msgs, engq, up, used.crashes)

\* A fence stays given up.
LEMMA StaysGivenUp ==
  ASSUME NEW C, NEW X, NEW lv, NEW lv2, NEW k, Later(C, X), lv2 \subseteq lv, GivenUp(C, lv, k)
  PROVE  GivenUp(X, lv2, k)
  <1>1. CASE k[1] \notin lv
    BY <1>1 DEF GivenUp
  <1>2. CASE \E n \in 1..Len(C) : C[n].op = "remove" /\ k[2] \in In(C[n].sessions)
    <2>1. PICK n \in 1..Len(C) : C[n].op = "remove" /\ k[2] \in In(C[n].sessions)
      BY <1>2
    <2>2. n \in 1..Len(X)
      <3>1. Len(C) \in Nat /\ Len(X) \in Nat
        BY MembersAt DEF Later
      <3> QED BY <3>1 DEF Later
    <2> QED BY <2>1, <2>2 DEF GivenUp, Later
  <1> QED BY <1>1, <1>2 DEF GivenUp

\* What a step may add to the messages, with commands X, fences F2 and clients lv2 after it.
MsgsFrom(X, M, E, M2) ==
    \A m \in In(M2) : \/ m \in In(M)
                      \/ /\ NamedMsg(X, m)
                         /\ Ends(X, m) => \E e \in In(E) : e.op = "remove" /\ e.h = m.h

\* What it may add to the calls.
CallsFrom(X, E, E2, F2, lv2) ==
    \A e \in In(E2) : \/ e \in In(E)
                      \/ /\ NamedCall(X, e)
                         /\ e.op = "remove" /\ e.h \in DOMAIN F2 => GivenUp(X, lv2, Key(F2[e.h]))

\* What it may add to the fences.
FencesFrom(X, F, M2, E2, F2) ==
    \A h \in DOMAIN F2 :
        \/ h \in DOMAIN F /\ Key(F2[h]) = Key(F[h])
        \/ /\ \A m \in In(M2) : Ends(X, m) => m.h # h
           /\ \A e \in In(E2) : e.op = "remove" => e.h # h

\* The names stay somewhere.
NamesFrom(X, M, E, F, M2, E2, F2, lv2) ==
    \A k : Somewhere(M, E, F, k) => Somewhere(M2, E2, F2, k) \/ GivenUp(X, lv2, k)

\* What it may tell.
ErrsFrom(C, X, M2, E2, F2) ==
    \A n \in 1..Len(X) : X[n].op = "add" =>
        \A i \in 1..Len(X[n].sessions) : X[n].errs[i] = "ok" =>
            \/ n \in 1..Len(C) /\ C[n].errs[i] = "ok"
            \/ Somewhere(M2, E2, F2, ItemName(X, n, i))

\* Such a step keeps the promises.
LEMMA PromisesKept ==
  ASSUME GeofenceInv, SurvivalInv, Later(commands, commands'), live' \subseteq live,
         MsgsFrom(commands', msgs, engq, msgs'),
         CallsFrom(commands', engq, engq', fences', live'),
         FencesFrom(commands', fences, msgs', engq', fences'),
         NamesFrom(commands', msgs, engq, fences, msgs', engq', fences', live'),
         ErrsFrom(commands, commands', msgs', engq', fences')
  PROVE  /\ Named(commands', msgs', engq') /\ Doomed(commands', msgs', engq', fences', live')
         /\ Promised(commands', msgs', engq', fences', live')
  <1> DEFINE C == commands
             X == commands'
             s == used.sessions
             t == used.handles
  <1>1. /\ \A m \in In(msgs) : MsgOK(C, m, s, t)
        /\ \A e \in In(engq) : CallOK(C, e, s, t)
    BY DEF GeofenceInv, Whole, Typed
  <1>2. ASSUME NEW m \in In(msgs), m.type = "answer"
        PROVE  X[m.n].op = C[m.n].op /\ ItemName(X, m.n, m.i) = ItemName(C, m.n, m.i)
    <2>1. Item(C, m.n, m.i)
      BY <1>1, <1>2 DEF MsgOK, Answers
    <2> QED BY <2>1, ItemsStay
  <1>3. ASSUME NEW e \in In(engq), e.op = "add"
        PROVE  ItemName(X, e.n, e.i) = ItemName(C, e.n, e.i)
    <2>1. Item(C, e.n, e.i)
      BY <1>1, <1>3 DEF CallOK
    <2> QED BY <2>1, ItemsStay
  <1>4. Named(X, msgs', engq')
    <2>1. ASSUME NEW e \in In(engq') PROVE NamedCall(X, e)
      BY <1>3, <2>1 DEF CallsFrom, SurvivalInv, Named, NamedCall
    <2>2. ASSUME NEW m \in In(msgs') PROVE NamedMsg(X, m)
      BY <1>2, <2>2 DEF MsgsFrom, SurvivalInv, Named, NamedMsg
    <2> QED BY <2>1, <2>2 DEF Named
  <1>5. Doomed(X, msgs', engq', fences', live')
    <2> SUFFICES ASSUME NEW h \in DOMAIN fences',
                        \/ \E m \in In(msgs') : Ends(X, m) /\ m.h = h
                        \/ \E e \in In(engq') : e.op = "remove" /\ e.h = h
                 PROVE  GivenUp(X, live', Key(fences'[h]))
      BY DEF Doomed
    <2>1. h \in DOMAIN fences /\ Key(fences'[h]) = Key(fences[h])
      BY DEF FencesFrom
    <2>2. ASSUME \/ \E m \in In(msgs) : Ends(C, m) /\ m.h = h
                 \/ \E e \in In(engq) : e.op = "remove" /\ e.h = h
          PROVE  GivenUp(X, live', Key(fences'[h]))
      <3>1. GivenUp(C, live, Key(fences[h]))
        BY <2>1, <2>2 DEF SurvivalInv, Doomed
      <3> QED BY <2>1, <3>1, StaysGivenUp
    <2>3. ASSUME NEW m \in In(msgs'), Ends(X, m), m.h = h PROVE GivenUp(X, live', Key(fences'[h]))
      <3>1. CASE m \in In(msgs)
        <4>1. Ends(C, m)
          BY <1>2, <2>3, <3>1 DEF Ends
        <4> QED BY <2>2, <2>3, <3>1, <4>1
      <3>2. CASE m \notin In(msgs)
        BY <2>2, <2>3, <3>2 DEF MsgsFrom
      <3> QED BY <3>1, <3>2
    <2>4. ASSUME NEW e \in In(engq'), e.op = "remove", e.h = h
          PROVE  GivenUp(X, live', Key(fences'[h]))
      BY <2>2, <2>4 DEF CallsFrom
    <2> QED BY <2>3, <2>4
  <1>6. Promised(X, msgs', engq', fences', live')
    <2> SUFFICES ASSUME NEW n \in 1..Len(X), X[n].op = "add", NEW i \in 1..Len(X[n].sessions),
                        X[n].errs[i] = "ok", ~Somewhere(msgs', engq', fences', ItemName(X, n, i))
                 PROVE  GivenUp(X, live', ItemName(X, n, i))
      BY DEF Promised
    <2>1. n \in 1..Len(C) /\ C[n].errs[i] = "ok"
      BY DEF ErrsFrom
    <2>2. C[n].op = "add" /\ C[n].sessions = X[n].sessions /\ ItemName(C, n, i) = ItemName(X, n, i)
      BY <2>1 DEF Later, ItemName
    <2>3. \/ GivenUp(C, live, ItemName(X, n, i))
          \/ Somewhere(msgs, engq, fences, ItemName(X, n, i))
      BY <2>1, <2>2 DEF SurvivalInv, Promised
    <2> HIDE DEF X, C
    <2>4. CASE GivenUp(C, live, ItemName(X, n, i))
      BY <2>4, StaysGivenUp DEF X, C
    <2>5. CASE Somewhere(msgs, engq, fences, ItemName(X, n, i))
      BY <2>5 DEF NamesFrom, X
    <2> QED BY <2>3, <2>4, <2>5
  <1> QED BY <1>4, <1>5, <1>6

\* What the results of X have that those of C had not: v for the item i of n, at most.
Reported(C, X, n, i, v) ==
    /\ ErrsOK(X)
    /\ \A k \in 1..Len(C) : \A j \in DOMAIN C[k].sessions :
          X[k].errs[j] = C[k].errs[j] \/ (k = n /\ j = i /\ X[k].errs[j] = v)

\* One record is replaced, with one result or none.
LEMMA ResultEdited ==
  ASSUME NEW C, NEW n, NEW i, NEW v, NEW y, AnySeq(C), ErrsOK(C), n \in 1..Len(C),
         "errs" \in DOMAIN y, y.sessions = C[n].sessions,
         y.errs = C[n].errs \/ y.errs = [C[n].errs EXCEPT ![i] = v]
  PROVE  Reported(C, [C EXCEPT ![n] = y], n, i, v)
  <1> DEFINE X == [C EXCEPT ![n] = y]
  <1>1. Len(C) \in Nat /\ DOMAIN C = 1..Len(C)
    BY MembersAt
  <1>2. /\ DOMAIN X = DOMAIN C /\ X \in [DOMAIN C -> {X[k] : k \in DOMAIN C}]
        /\ \A k \in DOMAIN C : X[k] = IF k = n THEN y ELSE C[k]
    OBVIOUS
  <1> HIDE DEF X
  <1>3. AnySeq(X) /\ Len(X) = Len(C)
    BY <1>1, <1>2, Listed
  <1>4. y.errs = [j \in DOMAIN y.sessions |-> y.errs[j]]
    BY DEF ErrsOK
  <1>5. ErrsOK(X)
    <2> SUFFICES ASSUME NEW k \in 1..Len(X)
                 PROVE  /\ "errs" \in DOMAIN X[k]
                        /\ X[k].errs = [j \in DOMAIN X[k].sessions |-> X[k].errs[j]]
      BY DEF ErrsOK
    <2>1. CASE k = n
      <3>1. X[k] = y
        BY <1>1, <1>2, <1>3, <2>1
      <3> QED BY <1>4, <3>1
    <2>2. CASE k # n
      <3>1. X[k] = C[k] /\ k \in 1..Len(C)
        BY <1>1, <1>2, <1>3, <2>2
      <3> QED BY <3>1 DEF ErrsOK
    <2> QED BY <2>1, <2>2
  <1>6. \A j \in DOMAIN C[n].sessions : y.errs[j] = C[n].errs[j] \/ (j = i /\ y.errs[j] = v)
    BY DEF ErrsOK
  <1>7. \A k \in 1..Len(C) : \A j \in DOMAIN C[k].sessions :
           X[k].errs[j] = C[k].errs[j] \/ (k = n /\ j = i /\ X[k].errs[j] = v)
    BY <1>1, <1>2, <1>6
  <1> QED BY <1>5, <1>7 DEF Reported, X

\* As the adapter edits them.
LEMMA ResultsEdited ==
  ASSUME NEW C, NEW s, CommandsOK(C, s), ErrsOK(C), NEW n, NEW i, n \in 1..Len(C),
         NEW v, NEW w, NEW p
  PROVE  /\ Reported(C, [C EXCEPT ![n].errs[i] = v], n, i, v)
         /\ Reported(C, [C EXCEPT ![n].errs[i] = v, ![n].made[i] = w], n, i, v)
         /\ Reported(C, [C EXCEPT ![n].made[i] = v, ![n].errs[i] = IF p THEN @ ELSE w], n, i, w)
         /\ Reported(C, [C EXCEPT ![n].given = @ + 1, ![n].for = v], 0, 0, v)
  <1>1. "errs" \in DOMAIN C[n] /\ {"client", "op", "sessions"} \subseteq DOMAIN C[n]
    BY DEF CommandsOK, Shaped, ErrsOK
  <1>2. AnySeq(C) /\ DOMAIN C = 1..Len(C) /\ n # 0
    BY MembersAt DEF CommandsOK
  <1> DEFINE x == [C[n] EXCEPT !.errs[i] = v]
             y == [C[n] EXCEPT !.errs[i] = v, !.made[i] = w]
             z == [C[n] EXCEPT !.made[i] = v, !.errs[i] = IF p THEN C[n].errs[i] ELSE w]
             g == [C[n] EXCEPT !.given = @ + 1, !.for = v]
  <1>3. x.sessions = C[n].sessions /\ "errs" \in DOMAIN x /\ x.errs = [C[n].errs EXCEPT ![i] = v]
    BY <1>1
  <1>4. y.sessions = C[n].sessions /\ "errs" \in DOMAIN y /\ y.errs = [C[n].errs EXCEPT ![i] = v]
    BY <1>1
  <1>5. /\ z.sessions = C[n].sessions /\ "errs" \in DOMAIN z
        /\ z.errs = C[n].errs \/ z.errs = [C[n].errs EXCEPT ![i] = w]
    <2>1. CASE p
      <3>1. [C[n].errs EXCEPT ![i] = C[n].errs[i]] = C[n].errs
        BY <1>1 DEF ErrsOK
      <3> QED BY <1>1, <2>1, <3>1
    <2>2. CASE ~p
      BY <1>1, <2>2
    <2> QED BY <2>1, <2>2
  <1>6. g.sessions = C[n].sessions /\ "errs" \in DOMAIN g /\ g.errs = C[n].errs
    BY <1>1
  <1>7. /\ [C EXCEPT ![n].errs[i] = v] = [C EXCEPT ![n] = x]
        /\ [C EXCEPT ![n].errs[i] = v, ![n].made[i] = w] = [C EXCEPT ![n] = y]
    BY <1>2
  <1>8. [C EXCEPT ![n].made[i] = v, ![n].errs[i] = IF p THEN @ ELSE w] = [C EXCEPT ![n] = z]
    BY <1>2
  <1>9. [C EXCEPT ![n].given = @ + 1, ![n].for = v] = [C EXCEPT ![n] = g]
    BY <1>2
  <1> HIDE DEF x, y, z, g
  <1>10. /\ Reported(C, [C EXCEPT ![n] = x], n, i, v) /\ Reported(C, [C EXCEPT ![n] = y], n, i, v)
         /\ Reported(C, [C EXCEPT ![n] = z], n, i, w)
    BY <1>2, <1>3, <1>4, <1>5, ResultEdited
  <1>11. Reported(C, [C EXCEPT ![n] = g], n, 0, v)
    BY <1>2, <1>6, ResultEdited
  <1>12. Reported(C, [C EXCEPT ![n] = g], 0, 0, v)
    <2> DEFINE X == [C EXCEPT ![n] = g]
    <2>1. \A j : X[n].errs[j] = C[n].errs[j]
      BY <1>2, <1>6
    <2> HIDE DEF X
    <2> QED BY <1>11, <2>1 DEF Reported, X
  <1> QED BY <1>7, <1>8, <1>9, <1>10, <1>12

\* The response after that adds none.
LEMMA ResponseReports ==
  ASSUME NEW C, NEW X, NEW Y, NEW s, NEW n, NEW i, NEW v, n \in 1..Len(C),
         SameTask(C, X, s), Reported(C, X, n, i, v), Len(X) = Len(C),
         Y = X \/ \E w : Y = [X EXCEPT ![n].given = @ + 1, ![n].for = w]
  PROVE  Reported(C, Y, n, i, v)
  <1>1. CASE Y = X
    BY <1>1
  <1>2. ASSUME NEW w, Y = [X EXCEPT ![n].given = @ + 1, ![n].for = w]
        PROVE  Reported(C, Y, n, i, v)
    <2>1. CommandsOK(X, s) /\ ErrsOK(X) /\ n \in 1..Len(X)
      BY DEF SameTask, Reported
    <2>2. Reported(X, Y, 0, 0, w)
      BY <1>2, <2>1, ResultsEdited
    <2>3. \A k \in 1..Len(C) : k # 0 /\ k \in 1..Len(X) /\ X[k].sessions = C[k].sessions
      BY MembersAt DEF SameTask, Later
    <2>4. \A k \in 1..Len(C) : \A j \in DOMAIN C[k].sessions : Y[k].errs[j] = X[k].errs[j]
      BY <2>2, <2>3 DEF Reported
    <2> QED BY <2>2, <2>4 DEF Reported
  <1> QED BY <1>1, <1>2

\* What the adapter's thread may do.
LEMMA AdapterSurvives ==
  ASSUME GeofenceInv, SurvivalInv, msgs # << >>, msgs' = Tail(msgs),
         NEW B, AnySeq(B), engq' = engq \o B, UNCHANGED <<up, live, used>>, live \subseteq known',
         Later(commands, commands'), ErrsOK(commands'),
         \A b \in In(B) : /\ NamedCall(commands', b) /\ b.op # "open"
                          /\ b.op = "restore" => up /\ used.crashes = 1
                          /\ b.op = "remove" /\ b.h \in DOMAIN fences' =>
                                GivenUp(commands', live, Key(fences'[b.h])),
         FencesFrom(commands', fences, msgs', engq', fences'),
         NamesFrom(commands', msgs, engq, fences, msgs', engq', fences', live'),
         ErrsFrom(commands, commands', msgs', engq', fences')
  PROVE  SurvivalInv'
  <1>1. AnySeq(msgs) /\ AnySeq(engq)
    BY DEF GeofenceInv, Whole, Typed
  <1>2. In(msgs') \subseteq In(msgs) /\ In(engq') = In(engq) \cup In(B)
    BY <1>1, TailAt, ConcatAt
  <1>3. MsgsFrom(commands', msgs, engq, msgs')
    BY <1>2 DEF MsgsFrom
  <1>4. CallsFrom(commands', engq, engq', fences', live')
    BY <1>2 DEF CallsFrom
  <1>5. /\ Named(commands', msgs', engq') /\ Doomed(commands', msgs', engq', fences', live')
        /\ Promised(commands', msgs', engq', fences', live')
    BY <1>3, <1>4, PromisesKept
  <1>6. Leaving(msgs', known', live')
    BY <1>2 DEF SurvivalInv, Leaving
  <1>7. Restarting(msgs', engq', up', used'.crashes)
    <2>1. Restarting(msgs, engq, up, used.crashes)
      BY DEF SurvivalInv
    <2>2. /\ \A e \in In(engq') : e \in In(engq) \/ e \in In(B)
          /\ \A m \in In(msgs') : m \in In(msgs)
      BY <1>2
    <2> QED BY <2>1, <2>2 DEF Restarting
  <1> QED BY <1>5, <1>6, <1>7 DEF SurvivalInv

\* The message in front.
LEMMA FrontAt ==
  ASSUME GeofenceInv, SurvivalInv, msgs # << >>
  PROVE  /\ Head(msgs) \in In(msgs) /\ In(msgs) = In(Tail(msgs)) \cup {Head(msgs)}
         /\ NamedMsg(commands, Head(msgs))
         /\ Head(msgs).type = "restored" => Head(msgs).ok
         /\ Head(msgs).type = "engineUp" => up
         /\ Head(msgs).type \in {"restored", "engineUp"} => used.crashes = 1
         /\ Head(msgs).type = "removeClient" => Head(msgs).client \notin live
         /\ live \subseteq known /\ ErrsOK(commands)
         /\ \A h \in DOMAIN fences : Ends(commands, Head(msgs)) /\ Head(msgs).h = h =>
               GivenUp(commands, live, Key(fences[h]))
  <1>1. Head(msgs) \in In(msgs) /\ In(msgs) = In(Tail(msgs)) \cup {Head(msgs)}
    BY TailAt DEF GeofenceInv, Whole, Typed
  <1> QED BY <1>1 DEF SurvivalInv, Named, Restarting, Leaving, Doomed

\* The names stay if the fences and what brings them back do.
LEMMA NamesHere ==
  ASSUME NEW X, NEW M, NEW E, NEW F, NEW M2, NEW E2, NEW F2, NEW lv2,
         \A h \in DOMAIN F : \E g \in DOMAIN F2 : Key(F2[g]) = Key(F[h]),
         \A e \in In(E) : e.op = "restore" => e \in In(E2),
         \A m \in In(M) : m.type = "restored" => m \in In(M2)
  PROVE  NamesFrom(X, M, E, F, M2, E2, F2, lv2)
  BY DEF NamesFrom, Somewhere

\* Nothing is told, or of none that is added.
LEMMA NothingTold ==
  ASSUME NEW C, NEW X, NEW M2, NEW E2, NEW F2, Later(C, X), Len(X) = Len(C),
         \A n \in 1..Len(C) : C[n].op = "add" =>
            \A i \in 1..Len(C[n].sessions) : X[n].errs[i] = "ok" => C[n].errs[i] = "ok"
  PROVE  ErrsFrom(C, X, M2, E2, F2)
  BY DEF ErrsFrom, Later

\* ProcCommand: the items are queued.
LEMMA ProcCommandSurvives ==
  ASSUME GeofenceInv, SurvivalInv, ProcCommand PROVE SurvivalInv'
  <1> DEFINE n == Head(msgs).n
             q == commands[n].sessions
             B == [i \in DOMAIN q |-> Call("queue", n, i, 0, NoFence)]
  <1>1. /\ msgs # << >> /\ Head(msgs).type = "command" /\ msgs' = Tail(msgs)
        /\ engq' = engq \o B
        /\ UNCHANGED <<known, fences, handles, up, live, commands, used>>
    BY DEF ProcCommand, Receive, adapter, client
  <1>2. /\ CommandsOK(commands, used.sessions) /\ n \in 1..Len(commands)
        /\ AnySeq(msgs) /\ AnySeq(engq)
    BY <1>1, InFront DEF MsgOK
  <1>3. Later(commands, commands')
    BY <1>1, <1>2, Unedited DEF SameTask
  <1>4. AnySeq(B) /\ Len(B) = Len(q) /\ Len(q) \in Nat /\ DOMAIN q = 1..Len(q)
    BY <1>2, MadeFrom, MembersAt DEF CommandsOK, Shaped
  <1>5. \A i \in 1..Len(B) : B[i].op = "queue"
    BY <1>4 DEF Call
  <1> HIDE DEF B
  <1>6. \A b \in In(B) : b.op = "queue"
    BY <1>5 DEF In
  <1>7. /\ In(msgs) = In(Tail(msgs)) \cup {Head(msgs)} /\ live \subseteq known
        /\ ErrsOK(commands) /\ In(engq') = In(engq) \cup In(B)
    BY <1>1, <1>2, <1>4, FrontAt, ConcatAt
  <1>8. NamesFrom(commands', msgs, engq, fences, msgs', engq', fences', live')
    BY <1>1, <1>7, NamesHere
  <1>9. ErrsFrom(commands, commands', msgs', engq', fences')
    BY <1>1, <1>3, NothingTold
  <1>10. FencesFrom(commands', fences, msgs', engq', fences')
    BY <1>1 DEF FencesFrom
  <1> QED BY <1>1, <1>3, <1>4, <1>6, <1>7, <1>8, <1>9, <1>10, AdapterSurvives DEF NamedCall

\* A new result of an item that is not added, or none, and the response: nothing is told of
\* what is added.
LEMMA OthersTold ==
  ASSUME NEW C, NEW X, NEW n, NEW i, NEW v, NEW s, NEW M2, NEW E2, NEW F2, SameTask(C, X, s),
         Len(X) = Len(C), CommandsOK(C, s), Reported(C, X, n, i, v),
         n \in 1..Len(C), C[n].op # "add" \/ v # "ok"
  PROVE  ErrsFrom(C, X, M2, E2, F2)
  <1>1. ASSUME NEW k \in 1..Len(C), C[k].op = "add", NEW j \in 1..Len(C[k].sessions),
               X[k].errs[j] = "ok"
        PROVE  C[k].errs[j] = "ok"
    <2>1. j \in DOMAIN C[k].sessions
      BY MembersAt DEF CommandsOK, Shaped
    <2> QED BY <1>1, <2>1 DEF Reported
  <1> QED BY <1>1, NothingTold DEF SameTask

\* The commands are as many after an item and its response.
LEMMA AsMany ==
  ASSUME NEW C, NEW s, CommandsOK(C, s), NEW n, NEW y
  PROVE  Len([C EXCEPT ![n] = y]) = Len(C)
  <1> DEFINE X == [C EXCEPT ![n] = y]
  <1>1. Len(C) \in Nat /\ DOMAIN C = 1..Len(C)
    BY MembersAt DEF CommandsOK
  <1>2. DOMAIN X = DOMAIN C /\ X \in [DOMAIN C -> {X[k] : k \in DOMAIN C}]
    OBVIOUS
  <1> HIDE DEF X
  <1>3. Len(X) = Len(C)
    BY <1>1, <1>2, Listed
  <1> QED BY <1>3 DEF X

\* Y is C but for record n; X is Y, with the response of n if it was the last item's turn.
OneEdited(C, Y, n) == \E y : Y = [C EXCEPT ![n] = y]
Responded(Y, X, n) == X = Y \/ \E w : X = [Y EXCEPT ![n].given = @ + 1, ![n].for = w]

\* What follows from an edit of one item and, if it is the last, the response.
LEMMA ItemDone ==
  ASSUME NEW C, NEW Y, NEW X, NEW s, NEW n, NEW i, NEW v, CommandsOK(C, s), ErrsOK(C),
         n \in 1..Len(C), OneEdited(C, Y, n), SameTask(C, Y, s), Reported(C, Y, n, i, v),
         Responded(Y, X, n)
  PROVE  SameTask(C, X, s) /\ Len(X) = Len(C) /\ Reported(C, X, n, i, v)
  <1>1. Len(Y) = Len(C)
    BY AsMany DEF OneEdited
  <1>2. SameTask(C, X, s)
    BY Finished DEF Responded
  <1>3. Reported(C, X, n, i, v)
    BY <1>1, ResponseReports DEF Responded
  <1>4. Len(X) = Len(Y)
    <2>1. CASE X = Y
      BY <2>1
    <2>2. ASSUME NEW w, X = [Y EXCEPT ![n].given = @ + 1, ![n].for = w] PROVE Len(X) = Len(Y)
      <3>1. X = [Y EXCEPT ![n] = [Y[n] EXCEPT !.given = @ + 1, !.for = w]]
        <4>1. DOMAIN Y = 1..Len(Y)
          BY MembersAt DEF SameTask, CommandsOK
        <4> QED BY <2>2, <4>1
      <3>2. CommandsOK(Y, s)
        BY DEF SameTask
      <3> HIDE <2>2
      <3> QED BY <3>1, <3>2, AsMany
    <2> QED BY <2>1, <2>2 DEF Responded
  <1> QED BY <1>1, <1>2, <1>3, <1>4

\* ProcQueued: a removal is made of a fence whose client asked for it.
LEMMA ProcQueuedSurvives ==
  ASSUME GeofenceInv, SurvivalInv, ProcQueued PROVE SurvivalInv'
  <1> DEFINE C == commands
             m == Head(msgs)
             n == m.n
             i == m.i
             op == C[n].op
             k == Key(FenceOf(n, i))
             s == used.sessions
             t == used.handles
  <1>1. /\ msgs # << >> /\ m.type = "queued" /\ msgs' = Tail(msgs)
        /\ UNCHANGED <<known, fences, handles, up, live, used>>
    BY DEF ProcQueued, Receive, adapter
  <1>2. /\ MsgOK(C, m, s, t) /\ AnySeq(msgs) /\ AnySeq(engq) /\ CommandsOK(C, s)
        /\ Agree(fences, handles, known)
    BY <1>1, InFront
  <1>3. Item(C, n, i) /\ n \in 1..Len(C) /\ Shaped(C[n], s) /\ s \in Nat
    BY <1>1, <1>2 DEF MsgOK, CommandsOK, Item, GeofenceInv
  <1>4. op \in Operations /\ i \in 1..Len(C[n].sessions) /\ AnySeq(C[n].sessions)
        /\ C[n].client \in Clients
    BY <1>3 DEF Shaped, Item
  <1>5. /\ In(msgs) = In(Tail(msgs)) \cup {m} /\ live \subseteq known /\ ErrsOK(C)
    BY <1>1, FrontAt
  <1>6. k[1] = C[n].client /\ k[2] = C[n].sessions[i]
    BY DEF Key, FenceOf, NoFence
  <1>7. FencesFrom(commands', fences, msgs', engq', fences')
    BY <1>1 DEF FencesFrom
  <1>8. ASSUME NEW B, AnySeq(B), engq' = engq \o B
        PROVE  NamesFrom(commands', msgs, engq, fences, msgs', engq', fences', live')
    <2>1. In(engq') = In(engq) \cup In(B)
      BY <1>2, <1>8, ConcatAt
    <2> QED BY <1>1, <1>5, <2>1, NamesHere
  <1>9. CASE op = "add"
    <2> DEFINE e == Call("add", n, i, 0, FenceOf(n, i))
               B == <<e>>
    <2>1. engq' = Append(engq, e) /\ commands' = C
      BY <1>9 DEF ProcQueued
    <2>2. e.op = "add" /\ e.n = n /\ e.i = i /\ e.fence = FenceOf(n, i)
      BY DEF Call
    <2>3. Key(FenceOf(n, i)) = ItemName(C, n, i)
      <3>1. C[n].sessions[i] \in 1..s
        BY <1>3, <1>4, <1>9 DEF Shaped
      <3> QED BY <1>3, <1>4, <3>1, FenceNamed DEF FenceOf, ItemName
    <2> HIDE DEF e
    <2>4. engq' = engq \o B /\ AnySeq(B) /\ In(B) = {e}
      BY <1>2, <2>1, ConcatFew
    <2> HIDE DEF B
    <2>5. Later(commands, commands')
      BY <1>2, <2>1, Unedited DEF SameTask
    <2>6. ErrsFrom(commands, commands', msgs', engq', fences')
      BY <2>1, <2>5, NothingTold
    <2>7. NamedCall(commands', e)
      BY <2>1, <2>2, <2>3 DEF NamedCall
    <2> QED BY <1>1, <1>5, <1>7, <1>8, <2>1, <2>2, <2>4, <2>5, <2>6, <2>7, AdapterSurvives
  <1>10. CASE op # "add" /\ k \in DOMAIN handles
    <2> DEFINE e == Call(op, n, i, handles[k], NoFence)
               B == <<e>>
               y == [C[n] EXCEPT !.errs[i] = "ok"]
               X == [C EXCEPT ![n].errs[i] = "ok"]
    <2>1. engq' = Append(engq, e) /\ commands' = X
      BY <1>10 DEF ProcQueued
    <2>2. e.op = op /\ e.n = n /\ e.i = i /\ e.h = handles[k]
      BY DEF Call
    <2>3. SameTask(C, X, s) /\ Reported(C, X, n, i, "ok") /\ Len(X) = Len(C)
      <3>1. SameTask(C, X, s)
        BY <1>2, ItemEdited
      <3>2. Reported(C, X, n, i, "ok")
        BY <1>2, <1>3, <1>5, ResultsEdited
      <3>3. X = [C EXCEPT ![n] = y]
        OBVIOUS
      <3> HIDE DEF X, y
      <3> QED BY <1>2, <3>1, <3>2, <3>3, AsMany
    <2> HIDE DEF e, X
    <2>4. engq' = engq \o B /\ AnySeq(B) /\ In(B) = {e}
      BY <1>2, <2>1, ConcatFew
    <2> HIDE DEF B
    <2>5. Later(commands, commands') /\ ErrsOK(commands')
      BY <2>1, <2>3 DEF SameTask, Reported
    <2>6. ErrsFrom(commands, commands', msgs', engq', fences')
      BY <1>2, <1>3, <1>10, <2>1, <2>3, OthersTold
    <2>7. e.op \notin {"add", "open", "restore"}
      BY <1>4, <1>10, <2>2 DEF Operations
    <2>8. e.op = "remove" => GivenUp(commands', live, Key(fences'[e.h]))
      <3> SUFFICES ASSUME op = "remove" PROVE GivenUp(commands', live, k)
        BY <1>1, <1>2, <1>10, <2>2 DEF Agree
      <3>1. X[n].op = "remove" /\ X[n].sessions = C[n].sessions
        BY <1>3, <2>3 DEF SameTask, Later
      <3>2. k[2] \in In(X[n].sessions) /\ n \in 1..Len(X)
        BY <1>3, <1>4, <1>6, <2>3, <3>1, MembersAt
      <3> QED BY <2>1, <3>1, <3>2 DEF GivenUp
    <2> QED BY <1>1, <1>5, <1>7, <1>8, <2>4, <2>5, <2>6, <2>7, <2>8, AdapterSurvives DEF NamedCall
  <1>11. CASE op # "add" /\ k \notin DOMAIN handles
    <2> DEFINE y == [C[n] EXCEPT !.errs[i] = "unknown", !.made[i] = "unknown"]
               Y == [C EXCEPT ![n].errs[i] = "unknown", ![n].made[i] = "unknown"]
    <2>1. engq' = engq /\ Finish(n, i, Y)
      BY <1>11 DEF ProcQueued
    <2>2. SameTask(C, Y, s) /\ Reported(C, Y, n, i, "unknown")
      BY <1>2, <1>3, <1>5, BothEdited, ResultsEdited
    <2>3. OneEdited(C, Y, n)
      <3>1. DOMAIN C = 1..Len(C)
        BY <1>2, MembersAt DEF CommandsOK
      <3>2. Y = [C EXCEPT ![n] = y]
        BY <3>1
      <3> QED BY <3>2 DEF OneEdited
    <2> HIDE DEF Y, y
    <2>4. Responded(Y, commands', n)
      BY <2>1 DEF Finish, Respond, Responded
    <2>5. /\ SameTask(C, commands', s) /\ Len(commands') = Len(C)
          /\ Reported(C, commands', n, i, "unknown")
      BY <1>2, <1>3, <1>5, <2>2, <2>3, <2>4, ItemDone
    <2>6. engq' = engq \o << >> /\ AnySeq(<< >>) /\ In(<< >>) = {}
      BY <1>2, <2>1, ConcatFew, NoneAt
    <2>7. ErrsFrom(commands, commands', msgs', engq', fences')
      BY <1>2, <1>3, <1>11, <2>5, OthersTold
    <2> QED BY <1>1, <1>5, <1>7, <1>8, <2>5, <2>6, <2>7, AdapterSurvives DEF SameTask, Reported
  <1> QED BY <1>9, <1>10, <1>11

\* An answer that brings a fence: it is new, and no removal of it is under way.
LEMMA BroughtAt ==
  ASSUME GeofenceInv, msgs # << >>, msgs' = Tail(msgs), NEW m, m = Head(msgs),
         What(commands, m) \in Births, fences' = Extend(fences, m.h, Unpaused(m.fence)),
         \A e \in In(engq') : e \in In(engq) \/ e.op # "remove"
  PROVE  /\ FencesFrom(commands', fences, msgs', engq', fences')
         /\ m.h \in DOMAIN fences' /\ Key(fences'[m.h]) = Key(m.fence)
         /\ \A h \in DOMAIN fences : h \in DOMAIN fences' /\ Key(fences'[h]) = Key(fences[h])
  <1>1. /\ AnySeq(msgs) /\ Fresh(commands, msgs, engq, fences, modem, up)
        /\ \A x \in In(msgs) : MsgOK(commands, x, used.sessions, used.handles)
    BY DEF GeofenceInv, Whole, Typed, Lives
  <1>2. /\ msgs[1] = m /\ 1 \in 1..Len(msgs) /\ m \in In(msgs) /\ AnySeq(Tail(msgs))
        /\ \A i \in 1..Len(Tail(msgs)) : /\ i + 1 \in 1..Len(msgs) /\ i + 1 # 1
                                         /\ Tail(msgs)[i] = msgs[i + 1]
    BY <1>1, TailAt
  <1>3. /\ m.h \notin DOMAIN fences
        /\ \A i \in 1..Len(msgs) : HandleOf(msgs[i]) = m.h => i = 1
        /\ \A e \in In(engq) : e.h # m.h
    BY <1>1, <1>2 DEF Fresh
  <1>4. FenceOK(m.fence, used.sessions)
    BY <1>1, <1>2 DEF MsgOK
  <1>5. Key(Unpaused(m.fence)) = Key(m.fence)
    BY <1>4, FenceEdited DEF Unpaused
  <1>6. /\ DOMAIN fences' = DOMAIN fences \cup {m.h} /\ fences'[m.h] = Unpaused(m.fence)
        /\ \A h \in DOMAIN fences : fences'[h] = fences[h]
    BY <1>3 DEF Extend
  <1>7. ASSUME NEW x \in In(msgs'), Ends(commands', x) PROVE x.h # m.h
    <2>1. PICK i \in 1..Len(Tail(msgs)) : x = Tail(msgs)[i]
      BY <1>7 DEF In
    <2>2. HandleOf(x) # m.h
      BY <1>2, <1>3, <2>1
    <2> QED BY <1>7, <2>2 DEF Ends, HandleOf, Answers
  <1>8. \A e \in In(engq') : e.op = "remove" => e.h # m.h
    BY <1>3
  <1> QED BY <1>5, <1>6, <1>7, <1>8 DEF FencesFrom

\* The names of what is left of the map, when a fence that is not wanted is taken out of it.
LEMMA TakenOut ==
  ASSUME NEW X, NEW M, NEW E, NEW F, NEW M2, NEW E2, NEW F2, NEW lv2, NEW h,
         \A g \in DOMAIN F : g # h => g \in DOMAIN F2 /\ F2[g] = F[g],
         \A g \in DOMAIN F2 : g \in DOMAIN F /\ F2[g] = F[g],
         h \in DOMAIN F => GivenUp(X, lv2, Key(F[h])),
         \A e \in In(E) : e.op = "restore" => e \in In(E2),
         \A m \in In(M) : m.type = "restored" => m \in In(M2)
  PROVE  NamesFrom(X, M, E, F, M2, E2, F2, lv2) /\ FencesFrom(X, F, M2, E2, F2)
  <1>1. NamesFrom(X, M, E, F, M2, E2, F2, lv2)
    <2> SUFFICES ASSUME NEW k, Somewhere(M, E, F, k), ~GivenUp(X, lv2, k)
                 PROVE  Somewhere(M2, E2, F2, k)
      BY DEF NamesFrom
    <2> QED BY DEF Somewhere
  <1> QED BY <1>1 DEF FencesFrom

\* ProcAnswer: a client is told of an add when its fence is in the map; what is removed from
\* it is not wanted.
LEMMA ProcAnswerSurvives ==
  ASSUME GeofenceInv, SurvivalInv, ProcAnswer PROVE SurvivalInv'
  <1> DEFINE C == commands
             m == Head(msgs)
             op == C[m.n].op
             s == used.sessions
             t == used.handles
             F == fences
             H == handles
             X == commands'
             p == LeavesError(op, m)
             v == Verdict(m)
             y == [C[m.n] EXCEPT !.made[m.i] = v, !.errs[m.i] = IF p THEN C[m.n].errs[m.i] ELSE v]
             Y == [C EXCEPT ![m.n].made[m.i] = Verdict(m),
                            ![m.n].errs[m.i] = IF p THEN @ ELSE Verdict(m)]
  <1>1. /\ msgs # << >> /\ m.type = "answer" /\ msgs' = Tail(msgs)
        /\ UNCHANGED <<engq, known, up, live, used>>
        /\ Recorded(op, m)
    BY DEF ProcAnswer, Receive
  <1>2. /\ MsgOK(C, m, s, t) /\ AnySeq(msgs) /\ AnySeq(engq)
        /\ CommandsOK(C, s) /\ Agree(F, H, known) /\ MapOK(F, s, t)
    BY <1>1, InFront
  <1>3. Item(C, m.n, m.i) /\ m.n \in 1..Len(C) /\ m.i \in 1..Len(C[m.n].sessions)
        /\ op \in Operations /\ m.ok \in BOOLEAN
    BY <1>1, <1>2 DEF MsgOK, Answers, Item, CommandsOK, Shaped
  <1>4. /\ In(msgs) = In(Tail(msgs)) \cup {m} /\ live \subseteq known /\ ErrsOK(C)
        /\ NamedMsg(C, m)
        /\ \A h \in DOMAIN F : Ends(C, m) /\ m.h = h => GivenUp(C, live, Key(F[h]))
    BY <1>1, FrontAt
  <1>5. SameTask(C, X, s) /\ Len(X) = Len(C) /\ Reported(C, X, m.n, m.i, v)
    <2>1. commands' = Y \/ Finish(m.n, m.i, Y)
      BY DEF ProcAnswer
    <2>2. SameTask(C, Y, s) /\ Reported(C, Y, m.n, m.i, v)
      BY <1>2, <1>3, <1>4, BothEdited, ResultsEdited
    <2>3. OneEdited(C, Y, m.n)
      <3>1. DOMAIN C = 1..Len(C)
        BY <1>2, MembersAt DEF CommandsOK
      <3>2. Y = [C EXCEPT ![m.n] = y]
        BY <3>1
      <3> QED BY <3>2 DEF OneEdited
    <2> HIDE DEF Y, y
    <2>4. Responded(Y, X, m.n)
      BY <2>1 DEF Finish, Respond, Responded
    <2> HIDE DEF v, X
    <2> QED BY <1>2, <1>3, <1>4, <2>2, <2>3, <2>4, ItemDone
  <1>6. v = IF m.ok THEN "ok" ELSE "failed"
    BY DEF Verdict
  <1> HIDE DEF v
  <1>7. engq' = engq \o << >> /\ AnySeq(<< >>) /\ In(<< >>) = {}
    BY <1>1, <1>2, ConcatFew, NoneAt
  <1>8. Later(commands, commands') /\ ErrsOK(commands')
    BY <1>5 DEF SameTask, Reported
  <1>9. SUFFICES /\ FencesFrom(commands', fences, msgs', engq', fences')
                 /\ NamesFrom(commands', msgs, engq, fences, msgs', engq', fences', live')
                 /\ ErrsFrom(commands, commands', msgs', engq', fences')
    BY <1>1, <1>4, <1>7, <1>8, AdapterSurvives
  <1>10. /\ \A e \in In(engq) : e.op = "restore" => e \in In(engq')
         /\ \A x \in In(msgs) : x.type = "restored" => x \in In(msgs')
    BY <1>1, <1>4
  <1>11. ~(m.ok /\ op = "add") => ErrsFrom(commands, commands', msgs', engq', fences')
    BY <1>2, <1>3, <1>5, <1>6, OthersTold
  <1>12. CASE ~m.ok
    <2>1. fences' = F
      BY <1>1, <1>3, <1>12 DEF Recorded
    <2>2. NamesFrom(commands', msgs, engq, fences, msgs', engq', fences', live')
      BY <1>10, <2>1, NamesHere
    <2> QED BY <1>11, <1>12, <2>1, <2>2 DEF FencesFrom
  <1>13. CASE m.ok /\ op = "add"
    <2>1. fences' = Extend(F, m.h, Unpaused(m.fence))
      BY <1>1, <1>13 DEF Recorded, SaveGeofenceItem, Unpaused
    <2>2. What(C, m) \in Births
      BY <1>1, <1>13 DEF What, OpOf, Answers, Births
    <2>3. /\ FencesFrom(commands', fences, msgs', engq', fences')
          /\ m.h \in DOMAIN fences' /\ Key(fences'[m.h]) = Key(m.fence)
          /\ \A h \in DOMAIN F : h \in DOMAIN fences' /\ Key(fences'[h]) = Key(F[h])
      BY <1>1, <2>1, <2>2, BroughtAt
    <2>4. NamesFrom(commands', msgs, engq, fences, msgs', engq', fences', live')
      BY <1>10, <2>3, NamesHere
    <2>5. Key(m.fence) = ItemName(X, m.n, m.i)
      <3>1. ItemName(X, m.n, m.i) = ItemName(C, m.n, m.i)
        BY <1>3, <1>8, ItemsStay
      <3> QED BY <1>1, <1>4, <1>13, <3>1 DEF NamedMsg
    <2>6. ErrsFrom(commands, commands', msgs', engq', fences')
      <3> SUFFICES ASSUME NEW k \in 1..Len(X), X[k].op = "add", NEW j \in 1..Len(X[k].sessions),
                          X[k].errs[j] = "ok", ~(k \in 1..Len(C) /\ C[k].errs[j] = "ok")
                   PROVE  Somewhere(msgs', engq', fences', ItemName(X, k, j))
        BY DEF ErrsFrom
      <3>1. k \in 1..Len(C) /\ X[k].sessions = C[k].sessions
        BY <1>5, <1>8 DEF Later
      <3>2. j \in DOMAIN C[k].sessions
        BY <1>2, <3>1, MembersAt DEF CommandsOK, Shaped
      <3>3. k = m.n /\ j = m.i
        BY <1>5, <3>1, <3>2 DEF Reported
      <3> QED BY <2>3, <2>5, <3>3 DEF Somewhere
    <2> QED BY <2>3, <2>4, <2>6
  <1>14. CASE m.ok /\ op = "remove"
    <2>1. RemoveGeofenceItem(m.h)
      BY <1>1, <1>14 DEF Recorded
    <2>2. fences' = Without(F, m.h) \/ fences' = F
      BY <2>1 DEF RemoveGeofenceItem
    <2>3. /\ \A g \in DOMAIN F : g # m.h => g \in DOMAIN fences' /\ fences'[g] = F[g]
          /\ \A g \in DOMAIN fences' : g \in DOMAIN F /\ fences'[g] = F[g]
      BY <2>2 DEF Without, Restrict
    <2>4. m.h \in DOMAIN F => GivenUp(X, live', Key(F[m.h]))
      <3>1. m.h \in DOMAIN F => GivenUp(C, live, Key(F[m.h]))
        BY <1>1, <1>4, <1>14 DEF Ends
      <3> QED BY <1>1, <1>8, <3>1, StaysGivenUp
    <2>5. /\ NamesFrom(commands', msgs, engq, fences, msgs', engq', fences', live')
          /\ FencesFrom(commands', fences, msgs', engq', fences')
      BY <1>10, <2>3, <2>4, TakenOut
    <2> QED BY <1>11, <1>14, <2>5
  <1>15. CASE m.ok /\ op \in Changes
    <2>1. Tuned(F, m.h, fences', s, t)
      <3>1. CASE op \in {"pause", "resume"}
        <4> DEFINE b == op = "pause"
        <4>1. fences' = IF m.h \in DOMAIN F THEN [F EXCEPT ![m.h].paused = b] ELSE F
          BY <1>1, <1>15, <3>1 DEF Recorded, PauseGeofenceItem
        <4>2. b \in BOOLEAN
          OBVIOUS
        <4> HIDE DEF b
        <4> QED BY <1>2, <4>1, <4>2, PausedIn
      <3>2. CASE op = "modify"
        <4>1. fences' = IF m.h \in DOMAIN F THEN [F EXCEPT ![m.h].options = Modified] ELSE F
          BY <1>1, <1>15, <3>2 DEF Recorded, ModifyGeofenceItem
        <4> QED BY <1>2, <4>1, ModifiedIn
      <3> QED BY <1>15, <3>1, <3>2 DEF Changes
    <2>2. NamesFrom(commands', msgs, engq, fences, msgs', engq', fences', live')
      BY <1>10, <2>1, NamesHere DEF Tuned
    <2>3. FencesFrom(commands', fences, msgs', engq', fences')
      BY <2>1 DEF Tuned, FencesFrom
    <2> QED BY <1>11, <1>15, <2>2, <2>3 DEF Changes
  <1> QED BY <1>3, <1>12, <1>13, <1>14, <1>15 DEF Operations, Changes

\* ProcStopped: the fence that goes is that of a client that has gone.
LEMMA ProcStoppedSurvives ==
  ASSUME GeofenceInv, SurvivalInv, ProcStopped PROVE SurvivalInv'
  <1> DEFINE m == Head(msgs)
             F == fences
  <1>1. /\ msgs # << >> /\ m.type = "stopped" /\ msgs' = Tail(msgs)
        /\ UNCHANGED <<engq, known, handles, up, live, commands, used>>
        /\ fences' = IF m.ok THEN Without(F, m.h) ELSE F
    BY DEF ProcStopped, Receive, client
  <1>2. CommandsOK(commands, used.sessions) /\ AnySeq(msgs) /\ AnySeq(engq)
    BY <1>1, InFront
  <1>3. /\ In(msgs) = In(Tail(msgs)) \cup {m} /\ live \subseteq known /\ ErrsOK(commands)
        /\ \A h \in DOMAIN F : m.h = h => GivenUp(commands, live, Key(F[h]))
    BY <1>1, FrontAt DEF Ends
  <1>4. Later(commands, commands')
    BY <1>1, <1>2, Unedited DEF SameTask
  <1>5. engq' = engq \o << >> /\ AnySeq(<< >>) /\ In(<< >>) = {}
    BY <1>1, <1>2, ConcatFew, NoneAt
  <1>6. /\ \A g \in DOMAIN F : g # m.h => g \in DOMAIN fences' /\ fences'[g] = F[g]
        /\ \A g \in DOMAIN fences' : g \in DOMAIN F /\ fences'[g] = F[g]
    BY <1>1 DEF Without, Restrict
  <1>7. m.h \in DOMAIN F => GivenUp(commands', live', Key(F[m.h]))
    BY <1>1, <1>3
  <1>8. /\ \A e \in In(engq) : e.op = "restore" => e \in In(engq')
        /\ \A x \in In(msgs) : x.type = "restored" => x \in In(msgs')
    BY <1>1, <1>3
  <1>9. /\ NamesFrom(commands', msgs, engq, fences, msgs', engq', fences', live')
        /\ FencesFrom(commands', fences, msgs', engq', fences')
    BY <1>6, <1>7, <1>8, TakenOut
  <1>10. ErrsFrom(commands, commands', msgs', engq', fences')
    BY <1>1, <1>4, NothingTold
  <1> QED BY <1>1, <1>3, <1>4, <1>5, <1>9, <1>10, AdapterSurvives

\* ProcRemoveClient: the fences to be removed are those of a client that has gone.
LEMMA ProcRemoveClientSurvives ==
  ASSUME GeofenceInv, SurvivalInv, ProcRemoveClient PROVE SurvivalInv'
  <1> DEFINE m == Head(msgs)
             c == m.client
             mine == {x \in 1..used.sessions : <<c, x>> \in DOMAIN handles}
  <1>1. /\ msgs # << >> /\ m.type = "removeClient" /\ msgs' = Tail(msgs)
        /\ UNCHANGED <<fences, up, live, commands, used>> /\ known' = known \ {c}
    BY DEF ProcRemoveClient, Receive, client
  <1>2. /\ AnySeq(msgs) /\ AnySeq(engq) /\ CommandsOK(commands, used.sessions)
        /\ Agree(fences, handles, known) /\ used.sessions \in Nat
    BY <1>1, InFront DEF GeofenceInv
  <1>3. PICK q \in Ascending(mine) :
           engq' = engq \o [j \in DOMAIN q |-> Call("remove", 0, 0, handles[<<c, q[j]>>], NoFence)]
    BY DEF ProcRemoveClient
  <1> DEFINE B == [j \in DOMAIN q |-> Call("remove", 0, 0, handles[<<c, q[j]>>], NoFence)]
  <1>4. AnySeq(q) /\ \A i \in 1..Len(q) : q[i] \in mine
    <2>1. mine \subseteq Nat /\ mine \subseteq 1..used.sessions
      BY <1>2
    <2>2. IsFiniteSet(mine)
      <3>1. IsFiniteSet(1..used.sessions)
        BY <1>2, FS_Interval
      <3> QED BY <2>1, <3>1, FS_Subset
    <2> HIDE DEF mine
    <2> QED BY <2>1, <2>2, AscendingAt
  <1>5. AnySeq(B) /\ Len(B) = Len(q) /\ DOMAIN q = 1..Len(q)
    BY <1>4, MadeFrom
  <1>6. \A i \in 1..Len(q) : B[i].op = "remove" /\ B[i].h = handles[<<c, q[i]>>]
    BY <1>5 DEF Call
  <1> HIDE DEF B
  <1>7. /\ In(msgs) = In(Tail(msgs)) \cup {m} /\ live \subseteq known /\ ErrsOK(commands)
        /\ c \notin live
    BY <1>1, FrontAt
  <1>8. \A b \in In(B) : /\ b.op = "remove"
                         /\ b.h \in DOMAIN fences' => GivenUp(commands', live, Key(fences'[b.h]))
    <2> SUFFICES ASSUME NEW i \in 1..Len(q)
                 PROVE  B[i].op = "remove" /\ GivenUp(commands', live, Key(fences'[B[i].h]))
      BY <1>5 DEF In
    <2>1. <<c, q[i]>> \in DOMAIN handles
      BY <1>4
    <2>2. Key(fences[B[i].h]) = <<c, q[i]>>
      BY <1>2, <1>6, <2>1 DEF Agree
    <2>3. <<c, q[i]>>[1] \notin live
      BY <1>7
    <2> QED BY <1>1, <1>6, <2>2, <2>3 DEF GivenUp
  <1>9. Later(commands, commands')
    BY <1>1, <1>2, Unedited DEF SameTask
  <1>10. In(engq') = In(engq) \cup In(B) /\ engq' = engq \o B
    BY <1>2, <1>3, <1>5, ConcatAt DEF B
  <1>11. NamesFrom(commands', msgs, engq, fences, msgs', engq', fences', live')
    BY <1>1, <1>7, <1>10, NamesHere
  <1>12. ErrsFrom(commands, commands', msgs', engq', fences')
    BY <1>1, <1>9, NothingTold
  <1>13. FencesFrom(commands', fences, msgs', engq', fences')
    BY <1>1 DEF FencesFrom
  <1>14. live \subseteq known'
    BY <1>1, <1>7
  <1> QED BY <1>1, <1>5, <1>7, <1>8, <1>9, <1>10, <1>11, <1>12, <1>13, <1>14, AdapterSurvives
          DEF NamedCall

\* An enumeration has every member.
LEMMA AscendingAll ==
  ASSUME NEW S, NEW q, S \subseteq Nat, IsFiniteSet(S), q \in Ascending(S), NEW x \in S
  PROVE  \E i \in 1..Len(q) : q[i] = x
  <1> SUFFICES ASSUME \A i \in 1..Len(q) : q[i] # x PROVE FALSE
    OBVIOUS
  <1> DEFINE n == Cardinality(S)
             T == S \ {x}
  <1>1. n \in Nat /\ IsFiniteSet(T) /\ Cardinality(T) = n - 1
    BY FS_CardinalityType, FS_RemoveElement
  <1>2. q \in [1..n -> S]
    BY DEF Ascending
  <1>3. IsFiniteSet(1..n) /\ Cardinality(1..n) = n
    BY <1>1, FS_Interval
  <1> HIDE DEF n
  <1>4. Len(q) = n /\ \A i, j \in 1..n : q[i] = q[j] => i = j
    <2>1. Len(q) = n
      BY <1>1, <1>2, Listed
    <2> QED BY <2>1, AscendingAt
  <1>5. q \in [1..n -> T] /\ Cardinality(T) < Cardinality(1..n)
    BY <1>1, <1>2, <1>3, <1>4
  <1> HIDE DEF T
  <1>6. \E i, j \in 1..n : i # j /\ q[i] = q[j]
    BY <1>1, <1>3, <1>5, FS_PigeonHole
  <1> QED BY <1>4, <1>6

\* ProcEngineUp: the fences of the map are on their way back to it.
LEMMA ProcEngineUpSurvives ==
  ASSUME GeofenceInv, SurvivalInv, ProcEngineUp PROVE SurvivalInv'
  <1> DEFINE m == Head(msgs)
             F == fences
  <1>1. /\ msgs # << >> /\ m.type = "engineUp" /\ msgs' = Tail(msgs)
        /\ UNCHANGED <<known, up, live, commands, used>> /\ fences' = << >>
    BY DEF ProcEngineUp, Receive, client
  <1>2. /\ AnySeq(msgs) /\ AnySeq(engq) /\ CommandsOK(commands, used.sessions)
        /\ MapOK(F, used.sessions, used.handles) /\ used.handles \in Nat
    BY <1>1, InFront DEF GeofenceInv
  <1>3. PICK q \in Ascending(DOMAIN F) :
           engq' = engq \o [j \in DOMAIN q |-> Call("restore", 0, 0, 0, F[q[j]])]
    BY DEF ProcEngineUp
  <1> DEFINE B == [j \in DOMAIN q |-> Call("restore", 0, 0, 0, F[q[j]])]
  <1>4. AnySeq(q) /\ \A h \in DOMAIN F : \E i \in 1..Len(q) : q[i] = h
    <2>1. DOMAIN F \subseteq Nat /\ DOMAIN F \subseteq 1..used.handles
      BY <1>2 DEF MapOK
    <2>2. IsFiniteSet(DOMAIN F)
      <3>1. IsFiniteSet(1..used.handles)
        BY <1>2, FS_Interval
      <3> QED BY <2>1, <3>1, FS_Subset
    <2> QED BY <2>1, <2>2, AscendingAt, AscendingAll
  <1>5. AnySeq(B) /\ Len(B) = Len(q) /\ DOMAIN q = 1..Len(q)
    BY <1>4, MadeFrom
  <1>6. \A i \in 1..Len(q) : B[i].op = "restore" /\ B[i].fence = F[q[i]]
    BY <1>5 DEF Call
  <1> HIDE DEF B
  <1>7. /\ \A b \in In(B) : b.op = "restore"
        /\ \A h \in DOMAIN F : \E b \in In(B) : b.op = "restore" /\ b.fence = F[h]
    BY <1>4, <1>5, <1>6 DEF In
  <1>8. /\ In(msgs) = In(Tail(msgs)) \cup {m} /\ live \subseteq known /\ ErrsOK(commands)
        /\ up /\ used.crashes = 1
    BY <1>1, FrontAt
  <1>9. Later(commands, commands')
    BY <1>1, <1>2, Unedited DEF SameTask
  <1>10. In(engq') = In(engq) \cup In(B) /\ engq' = engq \o B
    BY <1>2, <1>3, <1>5, ConcatAt DEF B
  <1>11. NamesFrom(commands', msgs, engq, fences, msgs', engq', fences', live')
    <2> SUFFICES ASSUME NEW k, Somewhere(msgs, engq, F, k) PROVE Somewhere(msgs', engq', fences', k)
      BY DEF NamesFrom
    <2>1. CASE \E h \in DOMAIN F : Key(F[h]) = k
      BY <1>7, <1>10, <2>1 DEF Somewhere
    <2>2. CASE \E e \in In(engq) : e.op = "restore" /\ Key(e.fence) = k
      BY <1>10, <2>2 DEF Somewhere
    <2>3. CASE \E x \in In(msgs) : x.type = "restored" /\ Key(x.fence) = k
      BY <1>1, <1>8, <2>3 DEF Somewhere
    <2> QED BY <2>1, <2>2, <2>3 DEF Somewhere
  <1>12. ErrsFrom(commands, commands', msgs', engq', fences')
    BY <1>1, <1>9, NothingTold
  <1>13. FencesFrom(commands', fences, msgs', engq', fences')
    <2>1. DOMAIN << >> = {}
      OBVIOUS
    <2> QED BY <1>1, <2>1 DEF FencesFrom
  <1> QED BY <1>1, <1>5, <1>7, <1>8, <1>9, <1>10, <1>11, <1>12, <1>13, AdapterSurvives
          DEF NamedCall

\* ProcRestored: the fence is in the map again.
LEMMA ProcRestoredSurvives ==
  ASSUME GeofenceInv, SurvivalInv, ProcRestored PROVE SurvivalInv'
  <1> DEFINE m == Head(msgs)
             F == fences
             e == Call("repause", 0, 0, m.h, NoFence)
             B == IF m.fence.paused THEN <<e>> ELSE << >>
  <1>1. /\ msgs # << >> /\ m.type = "restored" /\ msgs' = Tail(msgs)
        /\ UNCHANGED <<known, up, live, commands, used>>
        /\ IF m.ok THEN SaveGeofenceItem(m.fence, m.h) ELSE UNCHANGED <<fences, handles>>
        /\ engq' = IF m.ok /\ m.fence.paused THEN Append(engq, e) ELSE engq
    BY DEF ProcRestored, Receive, client
  <1>2. /\ AnySeq(msgs) /\ AnySeq(engq) /\ CommandsOK(commands, used.sessions)
    BY <1>1, InFront
  <1>3. /\ In(msgs) = In(Tail(msgs)) \cup {m} /\ live \subseteq known /\ ErrsOK(commands)
        /\ m.ok
    BY <1>1, FrontAt
  <1>4. fences' = Extend(F, m.h, Unpaused(m.fence)) /\ What(commands, m) \in Births
    BY <1>1, <1>3 DEF SaveGeofenceItem, Unpaused, What, OpOf, Answers, Births
  <1>5. e.op = "repause"
    BY DEF Call
  <1> HIDE DEF e
  <1>6. engq' = engq \o B /\ AnySeq(B) /\ \A b \in In(B) : b = e
    <2>1. CASE m.fence.paused
      <3>1. engq' = Append(engq, e) /\ B = <<e>>
        BY <1>1, <1>3, <2>1
      <3> QED BY <1>2, <3>1, ConcatFew
    <2>2. CASE ~m.fence.paused
      <3>1. engq' = engq /\ B = << >>
        BY <1>1, <2>2
      <3> QED BY <1>2, <3>1, ConcatFew, NoneAt
    <2> QED BY <2>1, <2>2
  <1> HIDE DEF B
  <1>7. In(engq') = In(engq) \cup In(B)
    BY <1>2, <1>6, ConcatAt
  <1>8. /\ FencesFrom(commands', fences, msgs', engq', fences')
        /\ m.h \in DOMAIN fences' /\ Key(fences'[m.h]) = Key(m.fence)
        /\ \A h \in DOMAIN F : h \in DOMAIN fences' /\ Key(fences'[h]) = Key(F[h])
    BY <1>1, <1>4, <1>5, <1>6, <1>7, BroughtAt
  <1>9. Later(commands, commands')
    BY <1>1, <1>2, Unedited DEF SameTask
  <1>10. NamesFrom(commands', msgs, engq, fences, msgs', engq', fences', live')
    <2> SUFFICES ASSUME NEW k, Somewhere(msgs, engq, F, k) PROVE Somewhere(msgs', engq', fences', k)
      BY DEF NamesFrom
    <2>1. CASE \E h \in DOMAIN F : Key(F[h]) = k
      BY <1>8, <2>1 DEF Somewhere
    <2>2. CASE \E x \in In(engq) : x.op = "restore" /\ Key(x.fence) = k
      BY <1>7, <2>2 DEF Somewhere
    <2>3. CASE \E x \in In(msgs) : x.type = "restored" /\ Key(x.fence) = k
      <3>1. PICK x \in In(msgs) : x.type = "restored" /\ Key(x.fence) = k
        BY <2>3
      <3>2. CASE x = m
        BY <1>8, <3>1, <3>2 DEF Somewhere
      <3>3. CASE x # m
        BY <1>1, <1>3, <3>1, <3>3 DEF Somewhere
      <3> QED BY <3>2, <3>3
    <2> QED BY <2>1, <2>2, <2>3 DEF Somewhere
  <1>11. ErrsFrom(commands, commands', msgs', engq', fences')
    BY <1>1, <1>9, NothingTold
  <1> QED BY <1>1, <1>3, <1>5, <1>6, <1>8, <1>9, <1>10, <1>11, AdapterSurvives DEF NamedCall

\* What the LocApi may do.
LEMMA LocApiSurvives ==
  ASSUME GeofenceInv, SurvivalInv, engq # << >>, engq' = Tail(engq),
         UNCHANGED <<commands, fences, known, live>>,
         NEW A, AnySeq(A), msgs' = msgs \o A,
         \A m \in In(A) : /\ NamedMsg(commands, m) /\ m.type # "removeClient"
                          /\ Ends(commands, m) => \E e \in In(engq) : e.op = "remove" /\ e.h = m.h,
         Head(engq).op = "restore" =>
            \E m \in In(A) : m.type = "restored" /\ m.fence = Head(engq).fence,
         Restarting(msgs', engq', up', used'.crashes)
  PROVE  SurvivalInv'
  <1>1. AnySeq(msgs) /\ AnySeq(engq) /\ CommandsOK(commands, used.sessions)
    BY DEF GeofenceInv, Whole, Typed
  <1>2. In(msgs') = In(msgs) \cup In(A) /\ In(engq) = In(engq') \cup {Head(engq)}
    BY <1>1, TailAt, ConcatAt
  <1>3. Later(commands, commands')
    BY <1>1, Unedited DEF SameTask
  <1>4. MsgsFrom(commands', msgs, engq, msgs') /\ CallsFrom(commands', engq, engq', fences', live')
    BY <1>2 DEF MsgsFrom, CallsFrom
  <1>5. FencesFrom(commands', fences, msgs', engq', fences')
    BY DEF FencesFrom
  <1>6. NamesFrom(commands', msgs, engq, fences, msgs', engq', fences', live')
    <2> SUFFICES ASSUME NEW k, Somewhere(msgs, engq, fences, k)
                 PROVE  Somewhere(msgs', engq', fences', k)
      BY DEF NamesFrom
    <2>1. CASE \E h \in DOMAIN fences : Key(fences[h]) = k
      BY <2>1 DEF Somewhere
    <2>2. CASE \E e \in In(engq) : e.op = "restore" /\ Key(e.fence) = k
      <3>1. PICK e \in In(engq) : e.op = "restore" /\ Key(e.fence) = k
        BY <2>2
      <3>2. CASE e \in In(engq')
        BY <3>1, <3>2 DEF Somewhere
      <3>3. CASE e = Head(engq)
        BY <1>2, <3>1, <3>3 DEF Somewhere
      <3> QED BY <1>2, <3>2, <3>3
    <2>3. CASE \E m \in In(msgs) : m.type = "restored" /\ Key(m.fence) = k
      BY <1>2, <2>3 DEF Somewhere
    <2> QED BY <2>1, <2>2, <2>3 DEF Somewhere
  <1>7. ErrsFrom(commands, commands', msgs', engq', fences')
    BY <1>3, NothingTold
  <1>8. /\ Named(commands', msgs', engq') /\ Doomed(commands', msgs', engq', fences', live')
        /\ Promised(commands', msgs', engq', fences', live')
    BY <1>3, <1>4, <1>5, <1>6, <1>7, PromisesKept
  <1>9. Leaving(msgs', known', live') /\ ErrsOK(commands')
    BY <1>2 DEF SurvivalInv, Leaving
  <1> QED BY <1>8, <1>9 DEF SurvivalInv

\* The call in front.
LEMMA CallAt ==
  ASSUME GeofenceInv, SurvivalInv, engq # << >>
  PROVE  /\ AnySeq(msgs) /\ In(engq) = In(Tail(engq)) \cup {Head(engq)}
         /\ CallOK(commands, Head(engq), used.sessions, used.handles)
         /\ NamedCall(commands, Head(engq))
         /\ Head(engq).op = "restore" => up /\ used.crashes = 1
         /\ Head(engq).op = "open" => used.crashes = 1
         /\ used \in [sessions : Nat, handles : Nat, refusals : Nat, crashes : Nat]
         /\ Restarting(msgs, engq, up, used.crashes)
  <1>1. AnySeq(msgs) /\ AnySeq(engq)
    BY DEF GeofenceInv, Whole, Typed
  <1>2. In(engq) = In(Tail(engq)) \cup {Head(engq)}
    BY <1>1, TailAt
  <1>3. CallOK(commands, Head(engq), used.sessions, used.handles)
    BY CallInFront
  <1> QED BY <1>1, <1>2, <1>3 DEF SurvivalInv, Named, Restarting, GeofenceInv

\* The answer to a call.
Conveys(C, e, m, h, ok) ==
    /\ NamedMsg(C, m) /\ m.type \in Answers
    /\ Ends(C, m) => e.op = "remove" /\ m.h = h
    /\ m.type = "restored" => m.ok = ok /\ e.op = "restore"
    /\ e.op = "restore" => m.type = "restored" /\ m.fence = e.fence

\* It has the name of the call, and removes only what the call removes.
LEMMA AnswerNamed ==
  ASSUME NEW C, NEW e, NEW s, NEW t, NEW h, NEW ok, CallOK(C, e, s, t), NamedCall(C, e),
         e.op \notin {"queue", "open", "repause"}
  PROVE  \E m : Answer(e, h, ok) = <<m>> /\ Conveys(C, e, m, h, ok)
  <1>1. CASE e.op = "restore"
    <2> DEFINE m == [type |-> "restored", h |-> h, fence |-> e.fence, ok |-> ok]
    <2>1. m.type = "restored" /\ m.h = h /\ m.fence = e.fence /\ m.ok = ok
      OBVIOUS
    <2>2. Answer(e, h, ok) = <<m>>
      BY <1>1 DEF Answer
    <2> HIDE DEF m
    <2>3. Conveys(C, e, m, h, ok)
      BY <1>1, <2>1 DEF Conveys, NamedMsg, Ends, Answers
    <2> QED BY <2>2, <2>3
  <1>2. CASE e.op # "restore" /\ e.n = 0
    <2> DEFINE m == [type |-> "stopped", h |-> h, ok |-> ok]
    <2>1. m.type = "stopped" /\ m.h = h /\ m.ok = ok
      OBVIOUS
    <2>2. e.op = "remove"
      BY <1>2 DEF CallOK, Item, Operations, Changes
    <2>3. Answer(e, h, ok) = <<m>>
      BY <1>2, <2>2 DEF Answer
    <2> HIDE DEF m
    <2>4. Conveys(C, e, m, h, ok)
      BY <1>2, <2>1, <2>2 DEF Conveys, NamedMsg, Ends, Answers
    <2> QED BY <2>3, <2>4
  <1>3. CASE e.op # "restore" /\ e.n # 0
    <2> DEFINE m == [type |-> "answer", n |-> e.n, i |-> e.i, h |-> h, fence |-> e.fence,
                     ok |-> ok]
    <2>1. m.type = "answer" /\ m.n = e.n /\ m.i = e.i /\ m.h = h /\ m.fence = e.fence
      OBVIOUS
    <2>2. Answer(e, h, ok) = <<m>>
      BY <1>3 DEF Answer
    <2>3. Item(C, e.n, e.i) /\ C[e.n].op = e.op
      BY <1>3 DEF CallOK, Operations, Changes
    <2> HIDE DEF m
    <2>4. Conveys(C, e, m, h, ok)
      BY <1>3, <2>1, <2>3 DEF Conveys, NamedMsg, NamedCall, Ends, Answers
    <2> QED BY <2>2, <2>4
  <1> QED BY <1>1, <1>2, <1>3

\* A call that is made, with its answer.
LEMMA AnsweredSurvives ==
  ASSUME GeofenceInv, SurvivalInv, engq # << >>, Head(engq).op \notin {"queue", "open"},
         NEW h, NEW ok, engq' = Tail(engq), msgs' = msgs \o Answer(Head(engq), h, ok),
         Head(engq).op = "remove" => h = Head(engq).h, Head(engq).op = "restore" => ok = TRUE,
         UNCHANGED <<commands, fences, known, live, up>>, used'.crashes = used.crashes
  PROVE  SurvivalInv'
  <1> DEFINE e == Head(engq)
             A == Answer(e, h, ok)
  <1>1. /\ AnySeq(msgs) /\ In(engq) = In(Tail(engq)) \cup {e}
        /\ CallOK(commands, e, used.sessions, used.handles) /\ NamedCall(commands, e)
        /\ e.op = "restore" => up /\ used.crashes = 1
        /\ Restarting(msgs, engq, up, used.crashes)
    BY CallAt
  <1>2. /\ AnySeq(A)
        /\ \A m \in In(A) : Conveys(commands, e, m, h, ok)
        /\ e.op = "restore" => \E m \in In(A) : Conveys(commands, e, m, h, ok)
    <2>1. CASE e.op = "repause"
      <3>1. A = << >>
        BY <2>1, NoAnswer
      <3> QED BY <2>1, <3>1, NoneAt
    <2>2. CASE e.op # "repause"
      <3>1. PICK m : A = <<m>> /\ Conveys(commands, e, m, h, ok)
        BY <1>1, <2>2, AnswerNamed
      <3>2. AnySeq(A) /\ In(A) = {m}
        BY <1>1, <3>1, ConcatFew
      <3> QED BY <3>1, <3>2
    <2> QED BY <2>1, <2>2
  <1> HIDE DEF A
  <1>3. In(msgs') = In(msgs) \cup In(A) /\ msgs' = msgs \o A
    BY <1>1, <1>2, ConcatAt DEF A
  <1>4. \A m \in In(A) :
           /\ NamedMsg(commands, m) /\ m.type # "removeClient"
           /\ Ends(commands, m) => \E x \in In(engq) : x.op = "remove" /\ x.h = m.h
    BY <1>1, <1>2 DEF Conveys, Answers
  <1>5. Restarting(msgs', engq', up', used'.crashes)
    <2>1. \A x \in In(engq') : x \in In(engq)
      BY <1>1
    <2>2. \A m \in In(msgs') : m \in In(msgs) \/ m \in In(A)
      BY <1>3
    <2>3. \A m \in In(A) : m.type # "engineUp"
                           /\ (m.type = "restored" => m.ok /\ used.crashes = 1)
      BY <1>1, <1>2 DEF Conveys, Answers
    <2> QED BY <1>1, <2>1, <2>2, <2>3 DEF Restarting
  <1>6. e.op = "restore" => \E m \in In(A) : m.type = "restored" /\ m.fence = e.fence
    BY <1>2 DEF Conveys
  <1> QED BY <1>2, <1>3, <1>4, <1>5, <1>6, LocApiSurvives

\* Queue: a message that only names the item.
LEMMA QueueSurvives ==
  ASSUME GeofenceInv, SurvivalInv, Queue PROVE SurvivalInv'
  <1> DEFINE m == [type |-> "queued", n |-> Head(engq).n, i |-> Head(engq).i]
             A == <<m>>
  <1>1. /\ engq # << >> /\ Head(engq).op = "queue" /\ engq' = Tail(engq)
        /\ msgs' = Append(msgs, m)
        /\ UNCHANGED <<commands, fences, known, live, up, used>>
    BY DEF Queue, adapter, client
  <1>2. /\ AnySeq(msgs) /\ In(engq) = In(Tail(engq)) \cup {Head(engq)}
        /\ Restarting(msgs, engq, up, used.crashes)
    BY <1>1, CallAt
  <1>3. m.type = "queued"
    OBVIOUS
  <1> HIDE DEF m
  <1>4. AnySeq(A) /\ In(A) = {m} /\ msgs' = msgs \o A /\ In(msgs') = In(msgs) \cup {m}
    BY <1>1, <1>2, ConcatFew, AppendAt
  <1> HIDE DEF A
  <1>5. Restarting(msgs', engq', up', used'.crashes)
    <2>1. \A x \in In(engq') : x \in In(engq)
      BY <1>1, <1>2
    <2>2. \A x \in In(msgs') : x \in In(msgs) \/ x.type = "queued"
      BY <1>3, <1>4
    <2> QED BY <1>1, <1>2, <2>1, <2>2 DEF Restarting
  <1> QED BY <1>1, <1>3, <1>4, <1>5, LocApiSurvives DEF NamedMsg, Ends

\* Open: the adapter will be told.
LEMMA OpenSurvives ==
  ASSUME GeofenceInv, SurvivalInv, Open PROVE SurvivalInv'
  <1> DEFINE m == [type |-> "engineUp"]
             A == <<m>>
  <1>1. /\ engq # << >> /\ Head(engq).op = "open" /\ engq' = Tail(engq)
        /\ msgs' = Append(msgs, m) /\ up' = TRUE
        /\ UNCHANGED <<commands, fences, known, live, used>>
    BY DEF Open, adapter, client
  <1>2. /\ AnySeq(msgs) /\ In(engq) = In(Tail(engq)) \cup {Head(engq)}
        /\ Restarting(msgs, engq, up, used.crashes) /\ used.crashes = 1
    BY <1>1, CallAt
  <1>3. m.type = "engineUp"
    OBVIOUS
  <1> HIDE DEF m
  <1>4. AnySeq(A) /\ In(A) = {m} /\ msgs' = msgs \o A /\ In(msgs') = In(msgs) \cup {m}
    BY <1>1, <1>2, ConcatFew, AppendAt
  <1> HIDE DEF A
  <1>5. Restarting(msgs', engq', up', used'.crashes)
    <2>1. \A x \in In(engq') : x \in In(engq)
      BY <1>1, <1>2
    <2>2. \A x \in In(msgs') : x \in In(msgs) \/ x.type = "engineUp"
      BY <1>3, <1>4
    <2> QED BY <1>1, <1>2, <2>1, <2>2 DEF Restarting
  <1> QED BY <1>1, <1>3, <1>4, <1>5, LocApiSurvives DEF NamedMsg, Ends

\* Accept: the answer of the modem.
LEMMA AcceptSurvives ==
  ASSUME GeofenceInv, SurvivalInv, Accept PROVE SurvivalInv'
  <1> DEFINE e == Head(engq)
             h == IF IsAdd(e) THEN used.handles + 1 ELSE e.h
  <1>1. /\ engq # << >> /\ e.op \notin {"queue", "open"} /\ engq' = Tail(engq)
        /\ msgs' = msgs \o Answer(e, h, TRUE)
        /\ UNCHANGED <<commands, fences, known, live, up>>
        /\ used' = IF IsAdd(e) THEN [used EXCEPT !.handles = @ + 1] ELSE used
    BY DEF Accept, IsCall, adapter, client
  <1>2. used \in [sessions : Nat, handles : Nat, refusals : Nat, crashes : Nat]
    BY DEF GeofenceInv
  <1>3. used'.crashes = used.crashes
    BY <1>1, <1>2
  <1>4. e.op = "remove" => h = e.h
    BY DEF IsAdd
  <1> HIDE DEF h
  <1> QED BY <1>1, <1>3, <1>4, AnsweredSurvives

\* Refuse: no fence is refused on its way back.
LEMMA RefuseSurvives ==
  ASSUME GeofenceInv, SurvivalInv, Refuse, "restore" \notin Refusable PROVE SurvivalInv'
  <1> DEFINE e == Head(engq)
  <1>1. /\ engq # << >> /\ e.op \notin {"queue", "open"} /\ engq' = Tail(engq)
        /\ msgs' = msgs \o Answer(e, e.h, FALSE)
        /\ UNCHANGED <<commands, fences, known, live, up>>
        /\ used' = used \/ used' = [used EXCEPT !.refusals = @ + 1]
        /\ ~up \/ (~IsAdd(e) /\ e.h \notin DOMAIN modem) \/ e.op \in Refusable
    BY DEF Refuse, IsCall, adapter, client
  <1>2. /\ used \in [sessions : Nat, handles : Nat, refusals : Nat, crashes : Nat]
        /\ e.op = "restore" => up
    BY <1>1, CallAt
  <1>3. used'.crashes = used.crashes
    BY <1>1, <1>2
  <1>4. e.op # "restore"
    BY <1>1, <1>2 DEF IsAdd
  <1> QED BY <1>1, <1>3, <1>4, AnsweredSurvives

\* Crash: the first restart.
LEMMA CrashSurvives ==
  ASSUME GeofenceInv, SurvivalInv, Crash, MaxCrashes <= 1 PROVE SurvivalInv'
  <1> DEFINE o == Call("open", 0, 0, 0, NoFence)
  <1>1. /\ up /\ used.crashes < MaxCrashes /\ up' = FALSE /\ engq' = Append(engq, o)
        /\ used' = [used EXCEPT !.crashes = @ + 1]
        /\ UNCHANGED <<msgs, fences, known, live, commands>>
    BY DEF Crash, adapter, client
  <1>2. /\ used \in [sessions : Nat, handles : Nat, refusals : Nat, crashes : Nat]
        /\ AnySeq(engq) /\ CommandsOK(commands, used.sessions)
    BY DEF GeofenceInv, Whole, Typed
  <1>3. used.crashes = 0 /\ used'.crashes = 1
    <2>1. used'.crashes = used.crashes + 1 /\ used.crashes \in Nat /\ MaxCrashes \in Nat
      BY <1>1, <1>2, GeofencesAssumption
    <2> QED BY <1>1, <2>1
  <1>4. o.op = "open"
    BY DEF Call
  <1> HIDE DEF o
  <1>5. In(engq') = In(engq) \cup {o}
    BY <1>1, <1>2, AppendAt
  <1>6. Later(commands, commands')
    BY <1>1, <1>2, Unedited DEF SameTask
  <1>7. /\ MsgsFrom(commands', msgs, engq, msgs') /\ live' \subseteq live
        /\ CallsFrom(commands', engq, engq', fences', live')
        /\ FencesFrom(commands', fences, msgs', engq', fences')
    BY <1>1, <1>4, <1>5 DEF MsgsFrom, CallsFrom, FencesFrom, NamedCall
  <1>8. NamesFrom(commands', msgs, engq, fences, msgs', engq', fences', live')
    BY <1>1, <1>5, NamesHere
  <1>9. ErrsFrom(commands, commands', msgs', engq', fences')
    BY <1>1, <1>6, NothingTold
  <1>10. /\ Named(commands', msgs', engq') /\ Doomed(commands', msgs', engq', fences', live')
         /\ Promised(commands', msgs', engq', fences', live')
    BY <1>6, <1>7, <1>8, <1>9, PromisesKept
  <1>11. Restarting(msgs', engq', up', used'.crashes)
    <2>1. Restarting(msgs, engq, up, used.crashes)
      BY DEF SurvivalInv
    <2>2. /\ \A e \in In(engq) : e.op # "restore"
          /\ \A m \in In(msgs) : m.type \notin {"engineUp", "restored"}
      BY <1>3, <2>1 DEF Restarting
    <2>3. /\ \A e \in In(engq') : e.op # "restore"
          /\ \A m \in In(msgs') : m.type \notin {"engineUp", "restored"}
      BY <1>1, <1>4, <1>5, <2>2
    <2>4. used'.crashes \in {0, 1} /\ used'.crashes # 0 /\ up' \in BOOLEAN
      <3>1. used'.crashes \in {0, 1} /\ used'.crashes # 0
        BY <1>3
      <3>2. up' \in BOOLEAN
        BY <1>1, Zenon
      <3> QED BY <3>1, <3>2
    <2>5. /\ ~\E e \in In(engq') : e.op = "restore"
          /\ ~\E m \in In(msgs') : m.type = "engineUp"
          /\ ~\E m \in In(msgs') : m.type = "restored"
      BY <2>3
    <2> QED BY <2>4, <2>5 DEF Restarting
  <1> QED BY <1>1, <1>10, <1>11 DEF SurvivalInv

\* A client's command is given: nothing is told of it yet.
LEMMA IssueSurvives ==
  ASSUME GeofenceInv, GeofenceInv', SurvivalInv, NEW c, NEW op, NEW q, NEW ids,
         Issue(c, op, q, ids), used'.crashes = used.crashes
  PROVE  SurvivalInv'
  <1> DEFINE C == commands
             n == Len(C) + 1
             x == NewCommand(c, op, q, ids)
             m == [type |-> "command", n |-> n]
             X == Append(C, x)
  <1>1. /\ commands' = X /\ msgs' = Append(msgs, m)
        /\ UNCHANGED <<engq, fences, known, up, live>>
    BY DEF Issue, adapter
  <1>2. AnySeq(C) /\ AnySeq(msgs)
    BY DEF GeofenceInv, Whole, Typed, CommandsOK
  <1>3. /\ x.sessions = q /\ "errs" \in DOMAIN x
        /\ x.errs = [j \in DOMAIN q |-> "unset"]
        /\ {"client", "op", "sessions"} \subseteq DOMAIN x
    BY DEF NewCommand
  <1>4. m.type = "command"
    OBVIOUS
  <1> HIDE DEF x, m
  <1>5. /\ AnySeq(X) /\ Len(C) \in Nat /\ Len(X) = n /\ X[n] = x
        /\ \A i \in 1..Len(C) : X[i] = C[i]
        /\ In(msgs') = In(msgs) \cup {m}
    BY <1>1, <1>2, AppendAt
  <1> HIDE DEF X
  <1>6. Later(commands, commands')
    BY <1>1, <1>2, <1>5 DEF Later
  <1>7. \A k \in 1..Len(X) : k \in 1..Len(C) \/ k = n
    BY <1>5
  <1>8. ErrsOK(commands')
    <2>1. ErrsOK(C)
      BY DEF SurvivalInv
    <2>2. ASSUME NEW k \in 1..Len(X)
          PROVE  /\ "errs" \in DOMAIN X[k]
                 /\ X[k].errs = [j \in DOMAIN X[k].sessions |-> X[k].errs[j]]
      <3>1. CASE k = n
        BY <1>3, <1>5, <3>1
      <3>2. CASE k \in 1..Len(C)
        BY <1>5, <2>1, <3>2 DEF ErrsOK
      <3> QED BY <1>7, <3>1, <3>2
    <2> QED BY <1>1, <2>2 DEF ErrsOK
  <1>9. ErrsFrom(commands, commands', msgs', engq', fences')
    <2> SUFFICES ASSUME NEW k \in 1..Len(X), NEW i \in 1..Len(X[k].sessions), X[k].errs[i] = "ok"
                 PROVE  k \in 1..Len(C) /\ C[k].errs[i] = "ok"
      BY <1>1 DEF ErrsFrom
    <2>1. i \in DOMAIN X[k].sessions
      <3>1. CommandsOK(commands', used'.sessions)
        BY DEF GeofenceInv, Whole, Typed
      <3>2. AnySeq(X[k].sessions)
        BY <1>1, <3>1 DEF CommandsOK, Shaped
      <3> QED BY <3>2, MembersAt
    <2>2. k # n
      BY <1>3, <1>5, <2>1
    <2> QED BY <1>5, <1>7, <2>2
  <1>10. MsgsFrom(commands', msgs, engq, msgs') /\ CallsFrom(commands', engq, engq', fences', live')
    BY <1>1, <1>4, <1>5 DEF MsgsFrom, CallsFrom, NamedMsg, Ends
  <1>11. FencesFrom(commands', fences, msgs', engq', fences') /\ live' \subseteq live
    BY <1>1 DEF FencesFrom
  <1>12. NamesFrom(commands', msgs, engq, fences, msgs', engq', fences', live')
    BY <1>1, <1>5, NamesHere
  <1>13. /\ Named(commands', msgs', engq') /\ Doomed(commands', msgs', engq', fences', live')
         /\ Promised(commands', msgs', engq', fences', live')
    BY <1>6, <1>9, <1>10, <1>11, <1>12, PromisesKept
  <1>14. \A y \in In(msgs') : y \in In(msgs) \/ y.type = "command"
    BY <1>4, <1>5
  <1>15. Leaving(msgs', known', live')
    BY <1>1, <1>14 DEF SurvivalInv, Leaving
  <1>16. Restarting(msgs', engq', up', used'.crashes)
    BY <1>1, <1>14 DEF SurvivalInv, Restarting
  <1> QED BY <1>8, <1>13, <1>15, <1>16 DEF SurvivalInv

\* LocationAPI::destroy: the fences of the client are not wanted any more.
LEMMA RemoveClientCommandSurvives ==
  ASSUME GeofenceInv, SurvivalInv, NEW c \in Clients, RemoveClientCommand(c) PROVE SurvivalInv'
  <1> DEFINE m == [type |-> "removeClient", client |-> c]
  <1>1. /\ msgs' = Append(msgs, m) /\ live' = live \ {c}
        /\ UNCHANGED <<engq, fences, known, up, commands, used>>
    BY DEF RemoveClientCommand, adapter
  <1>2. AnySeq(msgs) /\ CommandsOK(commands, used.sessions)
    BY DEF GeofenceInv, Whole, Typed
  <1>3. m.type = "removeClient" /\ m.client = c
    OBVIOUS
  <1> HIDE DEF m
  <1>4. In(msgs') = In(msgs) \cup {m}
    BY <1>1, <1>2, AppendAt
  <1>5. Later(commands, commands')
    BY <1>1, <1>2, Unedited DEF SameTask
  <1>6. /\ MsgsFrom(commands', msgs, engq, msgs')
        /\ CallsFrom(commands', engq, engq', fences', live')
        /\ FencesFrom(commands', fences, msgs', engq', fences') /\ live' \subseteq live
    BY <1>1, <1>3, <1>4 DEF MsgsFrom, CallsFrom, FencesFrom, NamedMsg, Ends
  <1>7. NamesFrom(commands', msgs, engq, fences, msgs', engq', fences', live')
    BY <1>1, <1>4, NamesHere
  <1>8. ErrsFrom(commands, commands', msgs', engq', fences')
    BY <1>1, <1>5, NothingTold
  <1>9. /\ Named(commands', msgs', engq') /\ Doomed(commands', msgs', engq', fences', live')
        /\ Promised(commands', msgs', engq', fences', live')
    BY <1>5, <1>6, <1>7, <1>8, PromisesKept
  <1>10. Leaving(msgs', known', live')
    BY <1>1, <1>3, <1>4 DEF SurvivalInv, Leaving
  <1>11. Restarting(msgs', engq', up', used'.crashes)
    <2>1. \A y \in In(msgs') : y \in In(msgs) \/ y.type = "removeClient"
      BY <1>3, <1>4
    <2> QED BY <1>1, <2>1 DEF SurvivalInv, Restarting
  <1>12. ErrsOK(commands')
    BY <1>1 DEF SurvivalInv
  <1> QED BY <1>9, <1>10, <1>11, <1>12 DEF SurvivalInv

\* A call of a client.
LEMMA CallsSurvive ==
  ASSUME GeofenceInv, SurvivalInv, Calls PROVE SurvivalInv'
  <1>1. GeofenceInv'
    BY CallsKeep
  <1>2. used \in [sessions : Nat, handles : Nat, refusals : Nat, crashes : Nat]
    BY DEF GeofenceInv
  <1>3. ASSUME NEW c \in Clients, NEW ids \in Batches, AddGeofences(c, ids) PROVE SurvivalInv'
    <2>1. \E q : Issue(c, "add", q, ids)
      BY <1>3 DEF AddGeofences
    <2>2. used' = [used EXCEPT !.sessions = @ + Len(ids)]
      BY <1>3 DEF AddGeofences
    <2>3. used'.crashes = used.crashes
      BY <1>2, <2>2
    <2> QED BY <1>1, <2>1, <2>3, IssueSurvives
  <1>4. ASSUME NEW c \in Clients, NEW ids \in Batches, RemoveGeofences(c, ids) PROVE SurvivalInv'
    <2>1. \E op, q, mapped : Issue(c, op, q, mapped)
      BY <1>4 DEF RemoveGeofences, OnSessions
    <2>2. used'.crashes = used.crashes
      BY <1>4 DEF RemoveGeofences
    <2> QED BY <1>1, <2>1, <2>2, IssueSurvives
  <1>5. ASSUME NEW c \in Clients, NEW ids \in Batches, NEW op, ChangeGeofences(c, op, ids)
        PROVE  SurvivalInv'
    <2>1. \E q, mapped : Issue(c, op, q, mapped)
      BY <1>5 DEF ChangeGeofences, OnSessions
    <2>2. used'.crashes = used.crashes
      BY <1>5 DEF ChangeGeofences
    <2> QED BY <1>1, <2>1, <2>2, IssueSurvives
  <1>6. CASE \E c \in Clients : RemoveClientCommand(c)
    BY <1>6, RemoveClientCommandSurvives
  <1> QED BY <1>3, <1>4, <1>5, <1>6 DEF Calls

\* At first nobody was told of a fence.
LEMMA SurvivalInit == Init => SurvivalInv
  <1> SUFFICES ASSUME Init PROVE SurvivalInv
    OBVIOUS
  <1>1. /\ msgs = << >> /\ engq = << >> /\ fences = << >> /\ commands = << >> /\ up = TRUE
        /\ live = known /\ used.crashes = 0
    BY DEF Init
  <1>2. In(<< >>) = {} /\ Len(<< >>) = 0 /\ DOMAIN << >> = {}
    BY NoneAt
  <1>3. \A i \in 1..Len(<< >>) : FALSE
    BY <1>2
  <1>4. Named(commands, msgs, engq) /\ ErrsOK(commands)
    BY <1>1, <1>2, <1>3 DEF Named, ErrsOK
  <1>5. /\ Doomed(commands, msgs, engq, fences, live)
        /\ Promised(commands, msgs, engq, fences, live)
    BY <1>1, <1>2, <1>3 DEF Doomed, Promised
  <1>6. Leaving(msgs, known, live) /\ Restarting(msgs, engq, up, used.crashes)
    BY <1>1, <1>2 DEF Leaving, Restarting
  <1> QED BY <1>4, <1>5, <1>6 DEF SurvivalInv

\* When nothing is under way, a fence that is somewhere is in the map, and the modem
\* monitors what the map says.
LEMMA SurvivalTells ==
  ASSUME GeofenceInv, SurvivalInv, ModemFollowsMap PROVE FencesSurvive
  <1> SUFFICES ASSUME Idle, NEW x \in Told("add"), x \notin Asked("remove")
               PROVE  \/ \E h \in DOMAIN modem : modem[h].session = x
                      \/ \E n \in 1..Len(commands) :
                            x \in ToSet(commands[n].sessions) /\ commands[n].client \notin live
    BY DEF FencesSurvive
  <1>1. CommandsOK(commands, used.sessions)
    BY DEF GeofenceInv, Whole, Typed
  <1>2. PICK n \in 1..Len(commands) :
           /\ commands[n].op = "add"
           /\ \E i \in DOMAIN commands[n].errs :
                 commands[n].errs[i] = "ok" /\ commands[n].sessions[i] = x
    BY DEF Told
  <1>3. PICK i \in DOMAIN commands[n].errs :
           commands[n].errs[i] = "ok" /\ commands[n].sessions[i] = x
    BY <1>2
  <1>4. ErrsOK(commands)
    BY DEF SurvivalInv
  <1>5. i \in DOMAIN commands[n].sessions
    BY <1>3, <1>4 DEF ErrsOK
  <1>6. i \in 1..Len(commands[n].sessions)
    <2>1. AnySeq(commands[n].sessions)
      BY <1>1 DEF CommandsOK, Shaped
    <2> QED BY <1>5, <2>1, MembersAt
  <1> DEFINE k == ItemName(commands, n, i)
  <1>7. k[1] = commands[n].client /\ k[2] = x /\ k = <<commands[n].client, x>>
    BY <1>3 DEF ItemName
  <1>8. GivenUp(commands, live, k) \/ Somewhere(msgs, engq, fences, k)
    BY <1>2, <1>3, <1>6 DEF SurvivalInv, Promised
  <1>9. x \in ToSet(commands[n].sessions)
    BY <1>3, <1>5 DEF ToSet
  <1> HIDE DEF k
  <1>10. CASE commands[n].client \notin live
    BY <1>9, <1>10
  <1>11. CASE commands[n].client \in live /\ GivenUp(commands, live, k)
    <2>1. PICK r \in 1..Len(commands) : commands[r].op = "remove" /\ x \in In(commands[r].sessions)
      BY <1>7, <1>11 DEF GivenUp
    <2>2. x \in ToSet(commands[r].sessions)
      <3>1. AnySeq(commands[r].sessions)
        BY <1>1 DEF CommandsOK, Shaped
      <3> QED BY <2>1, <3>1, MembersAt DEF In, ToSet
    <2> QED BY <2>1, <2>2 DEF Asked
  <1>12. CASE commands[n].client \in live /\ Somewhere(msgs, engq, fences, k)
    <2>1. msgs = << >> /\ engq = << >> /\ In(<< >>) = {}
      BY NoneAt DEF Idle
    <2>2. PICK h \in DOMAIN fences : Key(fences[h]) = k
      BY <1>12, <2>1 DEF Somewhere
    <2>3. fences[h].client \in known
      BY <1>7, <1>12, <2>2 DEF Key, SurvivalInv, Leaving
    <2>4. h \in DOMAIN modem /\ Key(modem[h]) = k
      BY <2>2, <2>3 DEF ModemFollowsMap
    <2> QED BY <1>7, <2>4 DEF Key
  <1> QED BY <1>8, <1>10, <1>11, <1>12

\* A fence whose client was told that it had been added, and has not asked for its removal,
\* is monitored again when everything has settled: with one restart of the modem at any time,
\* and if a modem that works does not refuse a fence it had.
THEOREM FencesAlwaysSurvive ==
  ASSUME MaxCrashes <= 1, "restore" \notin Refusable
  PROVE  Spec => []FencesSurvive
  <1>1. GeofenceInv /\ SurvivalInv /\ [Next]_vars => SurvivalInv'
    <2> SUFFICES ASSUME GeofenceInv, SurvivalInv, [Next]_vars PROVE SurvivalInv'
      OBVIOUS
    <2>1. CASE Calls
      BY <2>1, CallsSurvive
    <2>2. CASE Proc
      BY <2>2, ProcCommandSurvives, ProcQueuedSurvives, ProcAnswerSurvives,
         ProcRemoveClientSurvives, ProcStoppedSurvives, ProcEngineUpSurvives,
         ProcRestoredSurvives DEF Proc
    <2>3. CASE LocApi
      BY <2>3, QueueSurvives, AcceptSurvives, RefuseSurvives, OpenSurvives DEF LocApi
    <2>4. CASE Crash
      BY <2>4, CrashSurvives
    <2>5. CASE UNCHANGED vars
      <3>1. UNCHANGED <<commands, msgs, engq, fences, live, known, up, used>>
        BY <2>5 DEF vars, adapter, client
      <3> QED BY <3>1 DEF SurvivalInv
    <2> QED BY <2>1, <2>2, <2>3, <2>4, <2>5 DEF Next
  <1>2. GeofenceInv /\ SurvivalInv /\ ModemFollowsMap => FencesSurvive
    BY SurvivalTells
  <1> QED BY GeofenceInvariant, ModemAlwaysFollows, SurvivalInit, <1>1, <1>2, PTL DEF Spec
=============================================================================
