------------------------- MODULE LocationApi_proofs -------------------------
(***************************************************************************)
(* Proofs about LocationApi, for any clients, adapters and callbacks: its  *)
(* types, and that a deleted client is forgotten. A client that is being   *)
(* destroyed is, for each adapter, either still waited for, with its       *)
(* removal the last message about it, or forgotten already.                *)
(***************************************************************************)
EXTENDS LocationApi, SequenceTheorems, FiniteSetTheorems, TLAPS

\* No message of q concerns c; none removes it; the last one that does removes it.
NoneOf(q, c) == \A i \in DOMAIN q : ~Concerns(q[i], c)

IsRemoval(m, c) == m.op = "remove" /\ m.client = c

NoRemoval(q, c) == \A i \in DOMAIN q : ~IsRemoval(q[i], c)

RemovedLast(q, c) ==
    \E i \in DOMAIN q :
        /\ IsRemoval(q[i], c)
        /\ \A j \in DOMAIN q : Concerns(q[j], c) => j = i \/ (j < i /\ ~IsRemoval(q[j], c))

Forgotten(c, k) == c \notin known[k] /\ NoneOf(msgs[k], c)

\* What the registry and the adapters hold of a client, by what became of it.
Unmade(c) ==
    object[c] = "none" =>
        c \notin clientData /\ destroyData[c] = {} /\ \A k \in Kinds : Forgotten(c, k)

Registered(c) ==
    c \in clientData =>
        /\ object[c] = "live" /\ destroyData[c] = {}
        /\ \A k \in Kinds : NoRemoval(msgs[k], c) /\ (k \notin loaded => Forgotten(c, k))

Leaving(c) ==
    object[c] = "live" /\ c \notin clientData =>
        /\ destroyData[c] # {}
        /\ \A k \in Kinds : IF k \in destroyData[c] THEN RemovedLast(msgs[k], c)
                                                    ELSE Forgotten(c, k)

Gone(c) ==
    object[c] = "deleted" =>
        c \notin clientData /\ destroyData[c] = {} /\ \A k \in Kinds : Forgotten(c, k)

Follows(c) == Unmade(c) /\ Registered(c) /\ Leaving(c) /\ Gone(c)

\* The reference count counts the clients, and the framework's object goes by it.
Counted == refs = Cardinality(clientData) /\ FrameworkFollowsClients

IInv == TypeOK /\ Counted /\ \A c \in Clients : Follows(c)

-----------------------------------------------------------------------------
(* Queues. *)

\* Messages added behind a queue, and what they leave true of it.
LEMMA PostKeeps ==
  ASSUME NEW q \in Seq(Messages), NEW u \in Seq(Messages), NEW c
  PROVE  /\ q \o u \in Seq(Messages)
         /\ NoneOf(q, c) /\ NoneOf(u, c) => NoneOf(q \o u, c)
         /\ NoRemoval(q, c) /\ NoRemoval(u, c) => NoRemoval(q \o u, c)
         /\ RemovedLast(q, c) /\ NoneOf(u, c) => RemovedLast(q \o u, c)
  <1> DEFINE r == q \o u
  <1>1. /\ r \in Seq(Messages) /\ Len(r) = Len(q) + Len(u)
        /\ \A i \in 1 .. Len(q) + Len(u) : r[i] = IF i <= Len(q) THEN q[i] ELSE u[i - Len(q)]
    BY ConcatProperties
  <1>2. /\ Len(q) \in Nat /\ Len(u) \in Nat
        /\ DOMAIN q = 1 .. Len(q) /\ DOMAIN u = 1 .. Len(u) /\ DOMAIN r = 1 .. Len(r)
    BY <1>1, LenProperties
  <1> HIDE DEF r
  <1>3. \A i \in DOMAIN r : \/ i \in DOMAIN q /\ r[i] = q[i]
                            \/ i - Len(q) \in DOMAIN u /\ r[i] = u[i - Len(q)] /\ i > Len(q)
    BY <1>1, <1>2
  <1>4. \A i \in DOMAIN q : i \in DOMAIN r /\ r[i] = q[i]
    BY <1>1, <1>2
  <1>5. NoneOf(q, c) /\ NoneOf(u, c) => NoneOf(r, c)
    BY <1>3 DEF NoneOf
  <1>6. NoRemoval(q, c) /\ NoRemoval(u, c) => NoRemoval(r, c)
    BY <1>3 DEF NoRemoval
  <1>7. ASSUME RemovedLast(q, c), NoneOf(u, c) PROVE RemovedLast(r, c)
    <2>1. PICK i \in DOMAIN q :
             /\ IsRemoval(q[i], c)
             /\ \A j \in DOMAIN q : Concerns(q[j], c) => j = i \/ (j < i /\ ~IsRemoval(q[j], c))
      BY <1>7 DEF RemovedLast
    <2>2. ASSUME NEW j \in DOMAIN r, Concerns(r[j], c)
          PROVE  j = i \/ (j < i /\ ~IsRemoval(r[j], c))
      <3>1. j \in DOMAIN q /\ r[j] = q[j]
        BY <2>2, <1>3, <1>7 DEF NoneOf
      <3> QED BY <3>1, <2>1, <2>2
    <2> QED BY <2>1, <2>2, <1>4 DEF RemovedLast
  <1> QED BY <1>1, <1>5, <1>6, <1>7 DEF r

\* A removal posted for a client with none under way is its last message.
LEMMA PostRemoval ==
  ASSUME NEW q \in Seq(Messages), NEW c \in Clients, NoRemoval(q, c)
  PROVE  RemovedLast(q \o <<Message("remove", c)>>, c)
  <1> DEFINE m == Message("remove", c)  u == <<m>>  r == q \o u
  <1>1. m \in Messages /\ IsRemoval(m, c)
    BY DEF Message, Messages, IsRemoval
  <1>2. u \in Seq(Messages) /\ Len(u) = 1 /\ u[1] = m
    BY <1>1
  <1> HIDE DEF m, u
  <1>3. /\ r \in Seq(Messages) /\ Len(r) = Len(q) + 1
        /\ \A i \in 1 .. Len(q) + 1 : r[i] = IF i <= Len(q) THEN q[i] ELSE u[i - Len(q)]
    <2>1. /\ q \o u \in Seq(Messages) /\ Len(q \o u) = Len(q) + Len(u)
          /\ \A i \in 1 .. Len(q) + Len(u) :
                (q \o u)[i] = IF i <= Len(q) THEN q[i] ELSE u[i - Len(q)]
      BY <1>2, ConcatProperties
    <2> QED BY <2>1, <1>2
  <1>4. /\ Len(q) \in Nat /\ DOMAIN q = 1 .. Len(q) /\ DOMAIN r = 1 .. Len(q) + 1
    BY <1>3, LenProperties
  <1> HIDE DEF r
  <1>5. r[Len(q) + 1] = m
    BY <1>2, <1>3, <1>4
  <1>6. \A j \in DOMAIN r : j = Len(q) + 1 \/ (j < Len(q) + 1 /\ ~IsRemoval(r[j], c))
    BY <1>3, <1>4 DEF NoRemoval
  <1> QED BY <1>1, <1>4, <1>5, <1>6 DEF RemovedLast, r, u, m

\* A message taken from a queue, and what the rest of it keeps.
LEMMA TailKeeps ==
  ASSUME NEW q \in Seq(Messages), q # << >>, NEW c
  PROVE  /\ Head(q) \in Messages /\ Tail(q) \in Seq(Messages)
         /\ NoneOf(q, c) => ~Concerns(Head(q), c) /\ NoneOf(Tail(q), c)
         /\ NoRemoval(q, c) => ~IsRemoval(Head(q), c) /\ NoRemoval(Tail(q), c)
         /\ RemovedLast(q, c) /\ ~IsRemoval(Head(q), c) => RemovedLast(Tail(q), c)
         /\ RemovedLast(q, c) /\ IsRemoval(Head(q), c) => NoneOf(Tail(q), c)
  <1> DEFINE t == Tail(q)
  <1>1. /\ Head(q) \in Messages /\ t \in Seq(Messages) /\ Len(t) = Len(q) - 1
        /\ \A i \in 1 .. Len(t) : t[i] = q[i + 1]
    BY HeadTailProperties
  <1>2. /\ Len(q) \in Nat \ {0} /\ DOMAIN q = 1 .. Len(q) /\ DOMAIN t = 1 .. Len(q) - 1
    BY <1>1, LenProperties, EmptySeq
  <1>3. Head(q) = q[1]
    OBVIOUS
  <1> HIDE DEF t
  <1>4. \A i \in DOMAIN t : i \in Nat \ {0} /\ i + 1 \in DOMAIN q /\ t[i] = q[i + 1]
    BY <1>1, <1>2
  <1>5. \A i \in DOMAIN q : i = 1 \/ (i > 1 /\ i - 1 \in DOMAIN t /\ t[i - 1] = q[i])
    BY <1>1, <1>2
  <1>6. NoneOf(q, c) => ~Concerns(Head(q), c) /\ NoneOf(t, c)
    BY <1>2, <1>3, <1>4 DEF NoneOf
  <1>7. NoRemoval(q, c) => ~IsRemoval(Head(q), c) /\ NoRemoval(t, c)
    BY <1>2, <1>3, <1>4 DEF NoRemoval
  <1>8. ASSUME RemovedLast(q, c)
        PROVE  /\ ~IsRemoval(Head(q), c) => RemovedLast(t, c)
               /\ IsRemoval(Head(q), c) => NoneOf(t, c)
    <2>1. PICK i \in DOMAIN q :
             /\ IsRemoval(q[i], c)
             /\ \A j \in DOMAIN q : Concerns(q[j], c) => j = i \/ (j < i /\ ~IsRemoval(q[j], c))
      BY <1>8 DEF RemovedLast
    <2>2. CASE i = 1
      <3>1. NoneOf(t, c)
        BY <2>1, <2>2, <1>2, <1>4 DEF NoneOf
      <3> QED BY <3>1, <2>1, <2>2, <1>3
    <2>3. CASE i > 1
      <3>1. 1 \in DOMAIN q
        BY <1>2
      <3>2. ~IsRemoval(Head(q), c)
        BY <3>1, <2>1, <2>3, <1>3 DEF Concerns, IsRemoval
      <3>3. i - 1 \in DOMAIN t /\ IsRemoval(t[i - 1], c)
        BY <2>1, <2>3, <1>5
      <3>4. ASSUME NEW j \in DOMAIN t, Concerns(t[j], c)
            PROVE  j = i - 1 \/ (j < i - 1 /\ ~IsRemoval(t[j], c))
        BY <3>4, <2>1, <1>4, <1>2
      <3> QED BY <3>2, <3>3, <3>4 DEF RemovedLast
    <2> QED BY <2>2, <2>3, <1>2
  <1> QED BY <1>1, <1>6, <1>7, <1>8 DEF t

-----------------------------------------------------------------------------
(* Types. *)

\* One or two messages make a queue.
LEMMA MessagesTyped ==
  ASSUME NEW c \in Clients
  PROVE  /\ \A op \in {"add", "remove", "capabilities"} :
               /\ Message(op, c) \in Messages
               /\ <<Message(op, c)>> \in Seq(Messages)
         /\ <<Message("add", c), Message("capabilities", c)>> \in Seq(Messages)
         /\ << >> \in Seq(Messages)
  <1>1. \A op \in {"add", "remove", "capabilities"} : Message(op, c) \in Messages
    BY DEF Message, Messages
  <1> QED BY <1>1

\* Asking for capabilities again concerns no client's registration.
LEMMA ResentTyped ==
  ASSUME TypeOK, NEW k \in Kinds
  PROVE  Resent(k) \in Seq(Messages) /\ \A c : NoneOf(Resent(k), c)
  <1>1. pending[k] \in Seq(Clients)
    BY DEF TypeOK
  <1>2. Len(pending[k]) \in Nat /\ DOMAIN pending[k] = 1 .. Len(pending[k])
        /\ \A i \in 1 .. Len(pending[k]) : pending[k][i] \in Clients
    BY <1>1, LenProperties, ElementOfSeq
  <1>3. \A i \in DOMAIN pending[k] : Message("capabilities", pending[k][i]) \in Messages
    BY <1>2, MessagesTyped
  <1>4. Resent(k) \in Seq(Messages)
    BY <1>2, <1>3 DEF Resent
  <1> QED BY <1>4 DEF Resent, NoneOf, Concerns, Message

LEMMA LoadTyped ==
  ASSUME TypeOK, NEW ks \in SUBSET Kinds, Load(ks)
  PROVE  /\ loaded' \subseteq Loadable /\ failed' \subseteq Kinds \ Loadable
         /\ capsKnown' \in [Kinds -> BOOLEAN]
         /\ loaded \subseteq loaded' /\ Served(ks) \subseteq loaded'
  BY DEF Load, Loads, Served, TypeOK

\* A message is received from its adapter's queue.
LEMMA ReceiveTakes ==
  ASSUME TypeOK, NEW k \in Kinds, NEW op, Receive(k, op)
  PROVE  /\ msgs[k] \in Seq(Messages) /\ msgs[k] # << >>
         /\ Head(msgs[k]) \in Messages /\ Head(msgs[k]).op = op
         /\ msgs' \in [Kinds -> Seq(Messages)]
         /\ msgs'[k] = Tail(msgs[k])
         /\ \A l \in Kinds : l # k => msgs'[l] = msgs[l]
  BY HeadTailProperties DEF Receive, TypeOK

LEMMA ClientTyped ==
  ASSUME NEW m \in Messages, m.op # "engineUp"
  PROVE  m.client \in Clients
  BY DEF Messages

\* What createInstance and updateCallbacks post for client c to the adapters of ks.
Added(q, r, c) ==
    \/ r = q
    \/ r = q \o <<Message("add", c)>>
    \/ r = q \o <<Message("add", c), Message("capabilities", c)>>

LEMMA AddedTyped ==
  ASSUME NEW c \in Clients, NEW q \in Seq(Messages), NEW r, Added(q, r, c)
  PROVE  r \in Seq(Messages)
  BY MessagesTyped, PostKeeps DEF Added

LEMMA Counts ==
  ASSUME LocationApiAssumption, TypeOK, Counted, NEW c \in Clients
  PROVE  /\ c \notin clientData => Cardinality(clientData \union {c}) = refs + 1
         /\ c \in clientData => /\ Cardinality(clientData \ {c}) = refs - 1
                               /\ refs - 1 \in Nat
                               /\ (refs = 1 <=> clientData \ {c} = {})
         /\ (refs = 0 <=> clientData = {})
  <1>1. IsFiniteSet(clientData)
    BY FS_Subset DEF LocationApiAssumption, TypeOK
  <1>2. Cardinality(clientData) \in Nat
    BY <1>1, FS_CardinalityType
  <1>3. /\ IsFiniteSet(clientData \ {c})
        /\ Cardinality(clientData \ {c})
             = IF c \in clientData THEN Cardinality(clientData) - 1 ELSE Cardinality(clientData)
    BY <1>1, FS_RemoveElement
  <1>4. Cardinality(clientData \union {c})
          = IF c \in clientData THEN Cardinality(clientData) ELSE Cardinality(clientData) + 1
    BY <1>1, FS_AddElement
  <1>5. /\ Cardinality(clientData) = 0 <=> clientData = {}
        /\ Cardinality(clientData \ {c}) = 0 <=> clientData \ {c} = {}
    BY <1>1, <1>3, FS_EmptySet
  <1>6. Cardinality(clientData \ {c}) \in Nat
    BY <1>3, FS_CardinalityType
  <1>7. refs = Cardinality(clientData)
    BY DEF Counted
  <1> QED BY <1>2, <1>3, <1>4, <1>5, <1>6, <1>7

LEMMA CallTyped ==
  ASSUME LocationApiAssumption, TypeOK, Counted, NEW c \in Clients, NEW ks \in Menu,
         CreateInstance(c, ks) \/ UpdateCallbacks(c, ks)
  PROVE  TypeOK'
  <1> ks \in SUBSET Kinds
    BY DEF LocationApiAssumption
  <1>1. CASE CreateInstance(c, ks)
    <2>1. \A k \in Kinds : Added(msgs[k], msgs'[k], c)
      BY <1>1 DEF CreateInstance, Post, Added
    <2>2. \A k \in Kinds : msgs'[k] \in Seq(Messages)
      BY <2>1, AddedTyped DEF TypeOK
    <2>3. msgs' \in [Kinds -> Seq(Messages)]
      BY <1>1, <2>2 DEF CreateInstance
    <2>4. Load(ks)
      BY <1>1 DEF CreateInstance
    <2>5. refs' \in Nat /\ framework' \in BOOLEAN
      BY <1>1 DEF CreateInstance, TypeOK
    <2> QED BY <1>1, <2>3, <2>4, <2>5, LoadTyped DEF CreateInstance, TypeOK
  <1>2. CASE UpdateCallbacks(c, ks)
    <2>1. \A k \in Kinds : Added(msgs[k], msgs'[k], c)
      BY <1>2 DEF UpdateCallbacks, Post, Added
    <2>2. \A k \in Kinds : msgs'[k] \in Seq(Messages)
      BY <2>1, AddedTyped DEF TypeOK
    <2>3. msgs' \in [Kinds -> Seq(Messages)]
      BY <1>2, <2>2 DEF UpdateCallbacks
    <2>4. Load(ks)
      BY <1>2 DEF UpdateCallbacks
    <2> QED BY <1>2, <2>3, <2>4, LoadTyped DEF UpdateCallbacks, TypeOK
  <1> QED BY <1>1, <1>2

LEMMA DestroyTyped ==
  ASSUME LocationApiAssumption, TypeOK, Counted, NEW c \in Clients, Destroy(c)
  PROVE  TypeOK'
  <1>1. \A k \in Kinds : msgs'[k] \in {msgs[k], msgs[k] \o <<Message("remove", c)>>}
    BY DEF Destroy, Post
  <1>2. \A k \in Kinds : msgs'[k] \in Seq(Messages)
    <2>1. <<Message("remove", c)>> \in Seq(Messages)
      BY MessagesTyped
    <2>2. \A k \in Kinds : msgs[k] \in Seq(Messages)
      BY DEF TypeOK
    <2>3. \A k \in Kinds : msgs[k] \o <<Message("remove", c)>> \in Seq(Messages)
      BY <2>1, <2>2, PostKeeps
    <2> QED BY <1>1, <2>2, <2>3
  <1>3. msgs' \in [Kinds -> Seq(Messages)]
    BY <1>2 DEF Destroy
  <1>4. loaded \in SUBSET Kinds
    BY DEF TypeOK, LocationApiAssumption
  <1>5. refs' \in Nat /\ framework' \in BOOLEAN
    BY Counts DEF Destroy, TypeOK
  <1>6. destroyData' \in [Clients -> SUBSET Kinds]
    BY <1>4 DEF Destroy, Awaited, TypeOK
  <1>7. object' \in [Clients -> {"none", "live", "deleted"}]
    BY DEF Destroy, TypeOK
  <1> QED BY <1>3, <1>5, <1>6, <1>7 DEF Destroy, TypeOK

LEMMA ThreadTyped ==
  ASSUME TypeOK, NEW k \in Kinds, Proc(k) \/ Open(k)
  PROVE  TypeOK'
  <1>1. CASE ProcAddClient(k)
    <2>1. Head(msgs[k]).client \in Clients /\ msgs' \in [Kinds -> Seq(Messages)]
      BY <1>1, ReceiveTakes, ClientTyped DEF ProcAddClient
    <2>2. known' \in [Kinds -> SUBSET Clients]
      BY <1>1, <2>1 DEF ProcAddClient, TypeOK
    <2> QED BY <1>1, <2>1, <2>2 DEF ProcAddClient, TypeOK, registry
  <1>2. CASE ProcRemoveClient(k)
    <2> DEFINE c == Head(msgs[k]).client
    <2>1. c \in Clients /\ msgs' \in [Kinds -> Seq(Messages)]
      BY <1>2, ReceiveTakes, ClientTyped DEF ProcRemoveClient
    <2> HIDE DEF c
    <2>2. OnRemoveClientComplete(c, k) /\ known' = [known EXCEPT ![k] = @ \ {c}]
      BY <1>2 DEF ProcRemoveClient, c
    <2>3. /\ destroyData' \in [Clients -> SUBSET Kinds]
          /\ object' \in [Clients -> {"none", "live", "deleted"}]
      BY <2>1, <2>2 DEF OnRemoveClientComplete, TypeOK
    <2>4. known' \in [Kinds -> SUBSET Clients]
      BY <2>2 DEF TypeOK
    <2> QED BY <1>2, <2>1, <2>3, <2>4 DEF ProcRemoveClient, TypeOK
  <1>3. CASE ProcRequestCapabilities(k)
    <2> DEFINE c == Head(msgs[k]).client
    <2>1. c \in Clients /\ msgs' \in [Kinds -> Seq(Messages)]
      BY <1>3, ReceiveTakes, ClientTyped DEF ProcRequestCapabilities
    <2>2. pending' \in [Kinds -> Seq(Clients)] /\ told' \subseteq Clients
      <3>1. Append(pending[k], c) \in Seq(Clients)
        BY <2>1, AppendProperties DEF TypeOK
      <3> QED BY <1>3, <2>1, <3>1 DEF ProcRequestCapabilities, TypeOK
    <2> QED BY <1>3, <2>1, <2>2 DEF ProcRequestCapabilities, TypeOK, registry
  <1>4. CASE ProcEngineUp(k)
    <2>1. Tail(msgs[k]) \o Resent(k) \in Seq(Messages)
      BY <1>4, ResentTyped, TailKeeps, PostKeeps DEF ProcEngineUp, TypeOK
    <2>2. Kept(k) \in Seq(Clients)
      BY DEF Kept, TypeOK
    <2> QED BY <1>4, <2>1, <2>2 DEF ProcEngineUp, TypeOK, registry
  <1>5. CASE Open(k)
    <2>1. [op |-> "engineUp"] \in Messages
      BY DEF Messages
    <2>2. Append(msgs[k], [op |-> "engineUp"]) \in Seq(Messages)
      BY <2>1, AppendProperties DEF TypeOK
    <2> QED BY <1>5, <2>2 DEF Open, TypeOK, registry
  <1> QED BY <1>1, <1>2, <1>3, <1>4, <1>5 DEF Proc

-----------------------------------------------------------------------------
(* Clients that a step does not concern. *)

KeepsAbout(q, r, d) ==
    /\ NoneOf(q, d) => NoneOf(r, d)
    /\ NoRemoval(q, d) => NoRemoval(r, d)
    /\ RemovedLast(q, d) => RemovedLast(r, d)

\* The messages that createInstance and updateCallbacks post for c.
LEMMA AddedKeeps ==
  ASSUME NEW c \in Clients, NEW q \in Seq(Messages), NEW r, Added(q, r, c), NEW d
  PROVE  /\ d # c => KeepsAbout(q, r, d)
         /\ NoRemoval(q, d) => NoRemoval(r, d)
  <1> DEFINE one == <<Message("add", c)>>
             two == <<Message("add", c), Message("capabilities", c)>>
  <1>1. one \in Seq(Messages) /\ two \in Seq(Messages)
    BY MessagesTyped
  <1>2. d # c => NoneOf(one, d) /\ NoneOf(two, d)
    BY DEF NoneOf, Concerns, Message
  <1>3. NoRemoval(one, d) /\ NoRemoval(two, d)
    BY DEF NoRemoval, IsRemoval, Message
  <1>4. NoneOf(one, d) => NoRemoval(one, d)
    BY <1>3
  <1>5. r = q \/ r = q \o one \/ r = q \o two
    BY DEF Added
  <1> HIDE DEF one, two
  <1>6. \A u \in Seq(Messages) : NoRemoval(u, d) =>
           /\ NoneOf(u, d) => KeepsAbout(q, q \o u, d)
           /\ NoRemoval(q, d) => NoRemoval(q \o u, d)
    BY PostKeeps DEF KeepsAbout
  <1>7. KeepsAbout(q, q, d)
    BY DEF KeepsAbout
  <1> QED BY <1>1, <1>2, <1>3, <1>5, <1>6, <1>7

LEMMA Undisturbed ==
  ASSUME NEW d \in Clients, Follows(d),
         object'[d] = object[d], destroyData'[d] = destroyData[d],
         d \in clientData' <=> d \in clientData, loaded \subseteq loaded',
         \A k \in Kinds : (d \in known'[k] <=> d \in known[k])
                          /\ KeepsAbout(msgs[k], msgs'[k], d)
  PROVE  Follows(d)'
  <1>1. \A k \in Kinds : Forgotten(d, k) => Forgotten(d, k)'
    BY DEF Forgotten, KeepsAbout
  <1>2. \A k \in Kinds : NoRemoval(msgs[k], d) => NoRemoval(msgs'[k], d)
    BY DEF KeepsAbout
  <1>3. \A k \in Kinds : RemovedLast(msgs[k], d) => RemovedLast(msgs'[k], d)
    BY DEF KeepsAbout
  <1>4. Unmade(d)'
    BY <1>1 DEF Follows, Unmade
  <1>5. Registered(d)'
    BY <1>1, <1>2 DEF Follows, Registered
  <1>6. Leaving(d)'
    BY <1>1, <1>3 DEF Follows, Leaving
  <1>7. Gone(d)'
    BY <1>1 DEF Follows, Gone
  <1> QED BY <1>4, <1>5, <1>6, <1>7 DEF Follows

-----------------------------------------------------------------------------
(* The callers' steps. *)

LEMMA CreateFollows ==
  ASSUME LocationApiAssumption, IInv, NEW c \in Clients, NEW ks \in Menu,
         CreateInstance(c, ks), NEW d \in Clients
  PROVE  Follows(d)'
  <1> ks \in SUBSET Kinds
    BY DEF LocationApiAssumption
  <1>1. /\ object' = [object EXCEPT ![c] = "live"] /\ object[c] = "none"
        /\ clientData' = clientData \union {c}
        /\ destroyData' = destroyData /\ known' = known /\ Load(ks)
    BY DEF CreateInstance
  <1>2. \A k \in Kinds : Added(msgs[k], msgs'[k], c)
    BY DEF CreateInstance, Post, Added
  <1>3. \A k \in Kinds : k \notin loaded' => msgs'[k] = msgs[k]
    BY <1>1, LoadTyped DEF CreateInstance, IInv
  <1> \A k \in Kinds : msgs[k] \in Seq(Messages)
    BY DEF IInv, TypeOK
  <1>4. \A k \in Kinds : d # c => KeepsAbout(msgs[k], msgs'[k], d)
    BY <1>2, AddedKeeps
  <1>8. \A k \in Kinds : NoRemoval(msgs[k], d) => NoRemoval(msgs'[k], d)
    BY <1>2, AddedKeeps
  <1>5. loaded \subseteq loaded'
    BY <1>1, LoadTyped DEF IInv
  <1>6. CASE d # c
    <2>1. object'[d] = object[d]
      BY <1>1, <1>6 DEF IInv, TypeOK
    <2>2. \A k \in Kinds : (d \in known'[k] <=> d \in known[k])
                           /\ KeepsAbout(msgs[k], msgs'[k], d)
      BY <1>1, <1>4, <1>6
    <2>3. d \in clientData' <=> d \in clientData
      BY <1>1, <1>6
    <2> QED BY <1>1, <1>5, <2>1, <2>2, <2>3, Undisturbed DEF IInv
  <1>7. CASE d = c
    <2>1. /\ destroyData[d] = {} /\ \A k \in Kinds : Forgotten(d, k)
      BY <1>1, <1>7 DEF IInv, Follows, Unmade
    <2>2. \A k \in Kinds : NoRemoval(msgs[k], d)
      BY <2>1 DEF Forgotten, NoneOf, NoRemoval, Concerns, IsRemoval
    <2>3. object'[d] = "live" /\ d \in clientData'
      BY <1>1, <1>7 DEF IInv, TypeOK
    <2>4. \A k \in Kinds : k \notin loaded' => Forgotten(d, k)'
      BY <1>1, <1>3, <2>1 DEF Forgotten
    <2>5. Registered(d)'
      BY <1>1, <1>8, <2>1, <2>2, <2>3, <2>4 DEF Registered
    <2> QED BY <2>3, <2>5 DEF Follows, Unmade, Leaving, Gone
  <1> QED BY <1>6, <1>7

LEMMA UpdateFollows ==
  ASSUME LocationApiAssumption, IInv, NEW c \in Clients, NEW ks \in Menu,
         UpdateCallbacks(c, ks), NEW d \in Clients
  PROVE  Follows(d)'
  <1> ks \in SUBSET Kinds
    BY DEF LocationApiAssumption
  <1>1. /\ c \in clientData /\ object' = object /\ clientData' = clientData
        /\ destroyData' = destroyData /\ known' = known /\ Load(ks)
    BY DEF UpdateCallbacks
  <1>2. \A k \in Kinds : Added(msgs[k], msgs'[k], c)
    BY DEF UpdateCallbacks, Post, Added
  <1>3. \A k \in Kinds : k \notin loaded' => msgs'[k] = msgs[k]
    BY <1>1, LoadTyped DEF UpdateCallbacks, IInv
  <1> \A k \in Kinds : msgs[k] \in Seq(Messages)
    BY DEF IInv, TypeOK
  <1>4. \A k \in Kinds : d # c => KeepsAbout(msgs[k], msgs'[k], d)
    BY <1>2, AddedKeeps
  <1>8. \A k \in Kinds : NoRemoval(msgs[k], d) => NoRemoval(msgs'[k], d)
    BY <1>2, AddedKeeps
  <1>5. loaded \subseteq loaded'
    BY <1>1, LoadTyped DEF IInv
  <1>6. CASE d # c
    <2>1. \A k \in Kinds : (d \in known'[k] <=> d \in known[k])
                           /\ KeepsAbout(msgs[k], msgs'[k], d)
      BY <1>1, <1>4, <1>6
    <2> QED BY <1>1, <1>5, <2>1, Undisturbed DEF IInv
  <1>7. CASE d = c
    <2>1. Registered(d) /\ d \in clientData
      BY <1>1, <1>7 DEF IInv, Follows
    <2>2. \A k \in Kinds : k \notin loaded' => Forgotten(d, k)'
      BY <1>1, <1>3, <1>5, <2>1 DEF Forgotten, Registered
    <2>3. Registered(d)'
      BY <1>1, <1>8, <2>1, <2>2 DEF Registered
    <2>4. object'[d] = "live"
      BY <1>1, <2>1 DEF Registered
    <2> QED BY <1>1, <2>1, <2>3, <2>4 DEF Follows, Unmade, Leaving, Gone
  <1> QED BY <1>6, <1>7

LEMMA DestroyFollows ==
  ASSUME LocationApiAssumption, IInv, NEW c \in Clients, Destroy(c), NEW d \in Clients
  PROVE  Follows(d)'
  <1>1. /\ c \in clientData /\ clientData' = clientData \ {c}
        /\ destroyData' = [destroyData EXCEPT ![c] = loaded]
        /\ object' = [object EXCEPT ![c] = IF loaded = {} THEN "deleted" ELSE @]
        /\ known' = known /\ loaded' = loaded
    BY DEF Destroy, Awaited
  <1>2. \A k \in Kinds : msgs'[k] = IF k \in loaded THEN msgs[k] \o <<Message("remove", c)>>
                                                    ELSE msgs[k]
    BY DEF Destroy, Post
  <1>3. CASE d # c
    <2>0. <<Message("remove", c)>> \in Seq(Messages)
      BY MessagesTyped
    <2>1. /\ <<Message("remove", c)>> \in Seq(Messages)
          /\ NoneOf(<<Message("remove", c)>>, d) /\ NoRemoval(<<Message("remove", c)>>, d)
      BY <1>3, <2>0 DEF NoneOf, NoRemoval, Concerns, IsRemoval, Message
    <2>2. \A k \in Kinds : msgs[k] \in Seq(Messages)
      BY DEF IInv, TypeOK
    <2>3. \A k \in Kinds : KeepsAbout(msgs[k], msgs[k] \o <<Message("remove", c)>>, d)
      BY <2>1, <2>2, PostKeeps DEF KeepsAbout
    <2>4. \A k \in Kinds : KeepsAbout(msgs[k], msgs'[k], d)
      BY <1>2, <2>3 DEF KeepsAbout
    <2>5. object'[d] = object[d] /\ destroyData'[d] = destroyData[d]
      BY <1>1, <1>3 DEF IInv, TypeOK
    <2> QED BY <1>1, <1>3, <2>4, <2>5, Undisturbed DEF IInv
  <1>4. CASE d = c
    <2>1. Registered(d) /\ d \in clientData /\ d \notin clientData'
      BY <1>1, <1>4 DEF IInv, Follows
    <2>2. destroyData'[d] = loaded
          /\ object'[d] = IF loaded = {} THEN "deleted" ELSE "live"
      BY <1>1, <1>4, <2>1 DEF IInv, TypeOK, Registered
    <2>3. \A k \in Kinds : k \in loaded => RemovedLast(msgs'[k], d)
      BY <1>2, <1>4, <2>1, PostRemoval DEF Registered, IInv, TypeOK
    <2>4. \A k \in Kinds : k \notin loaded => Forgotten(d, k)'
      BY <1>1, <1>2, <2>1 DEF Forgotten, Registered
    <2>5. Leaving(d)'
      BY <2>2, <2>3, <2>4 DEF Leaving
    <2>6. Gone(d)'
      BY <2>1, <2>2, <2>4 DEF Gone
    <2> QED BY <2>1, <2>2, <2>5, <2>6 DEF Follows, Unmade, Registered
  <1> QED BY <1>3, <1>4

-----------------------------------------------------------------------------
(* The adapters' steps. *)

\* What taking a message that does not concern d leaves of the queues.
LEMMA TakenKeeps ==
  ASSUME TypeOK, NEW k \in Kinds, NEW op, Receive(k, op), NEW d,
         ~Concerns(Head(msgs[k]), d)
  PROVE  \A l \in Kinds : KeepsAbout(msgs[l], msgs'[l], d)
  <1>1. ~IsRemoval(Head(msgs[k]), d)
    BY DEF Concerns, IsRemoval
  <1>2. KeepsAbout(msgs[k], Tail(msgs[k]), d)
    BY <1>1, ReceiveTakes, TailKeeps DEF KeepsAbout
  <1>3. \A l \in Kinds : KeepsAbout(msgs[l], msgs[l], d)
    BY DEF KeepsAbout
  <1> QED BY <1>2, <1>3, ReceiveTakes

LEMMA AddFollows ==
  ASSUME IInv, NEW k \in Kinds, ProcAddClient(k), NEW d \in Clients
  PROVE  Follows(d)'
  <1> DEFINE m == Head(msgs[k])
  <1>1. /\ Receive(k, "add") /\ TypeOK
        /\ known' = [known EXCEPT ![k] = @ \union {m.client}]
        /\ object' = object /\ destroyData' = destroyData /\ clientData' = clientData
        /\ loaded' = loaded
    BY DEF ProcAddClient, registry, IInv
  <1>2. m.op = "add" /\ msgs[k] \in Seq(Messages) /\ msgs[k] # << >>
    BY <1>1, ReceiveTakes
  <1>3. CASE m.client # d
    <2>1. ~Concerns(m, d)
      BY <1>3 DEF Concerns
    <2>2. \A l \in Kinds : (d \in known'[l] <=> d \in known[l])
                           /\ KeepsAbout(msgs[l], msgs'[l], d)
      BY <1>1, <1>3, <2>1, TakenKeeps DEF TypeOK
    <2> QED BY <1>1, <2>2, Undisturbed DEF IInv
  <1>4. CASE m.client = d
    <2>1. Concerns(m, d) /\ ~IsRemoval(m, d)
      BY <1>2, <1>4 DEF Concerns, IsRemoval
    <2>2. ~Forgotten(d, k)
      BY <1>2, <2>1, TailKeeps DEF Forgotten
    <2>3. object[d] = "live"
      BY <1>1, <2>2 DEF IInv, Follows, Unmade, Gone, TypeOK
    <2>4. \A l \in Kinds \ {k} : Forgotten(d, l) => Forgotten(d, l)'
      BY <1>1, ReceiveTakes DEF Forgotten, TypeOK
    <2>5. CASE d \in clientData
      <3>1. Registered(d)
        BY DEF IInv, Follows
      <3>2. NoRemoval(msgs'[k], d)
        BY <3>1, <2>5, <1>1, <1>2, ReceiveTakes, TailKeeps DEF Registered
      <3>3. \A l \in Kinds : NoRemoval(msgs'[l], d)
        BY <3>1, <3>2, <2>5, <1>1, ReceiveTakes DEF Registered
      <3>4. \A l \in Kinds : l \notin loaded' => Forgotten(d, l)'
        BY <3>1, <2>2, <2>4, <2>5, <1>1 DEF Registered
      <3>5. Registered(d)'
        BY <3>1, <3>3, <3>4, <1>1 DEF Registered
      <3> QED BY <3>5, <2>3, <2>5, <1>1 DEF Follows, Unmade, Leaving, Gone
    <2>6. CASE d \notin clientData
      <3>1. Leaving(d)
        BY DEF IInv, Follows
      <3>2. k \in destroyData[d] /\ RemovedLast(msgs[k], d)
        BY <3>1, <2>2, <2>3, <2>6 DEF Leaving
      <3>3. RemovedLast(msgs'[k], d)
        BY <3>2, <2>1, <1>1, <1>2, ReceiveTakes, TailKeeps
      <3>4. \A l \in Kinds \ {k} : RemovedLast(msgs[l], d) => RemovedLast(msgs'[l], d)
        BY <1>1, ReceiveTakes
      <3>5. Leaving(d)'
        BY <3>1, <3>2, <3>3, <3>4, <2>3, <2>4, <2>6, <1>1 DEF Leaving
      <3> QED BY <3>5, <2>3, <2>6, <1>1 DEF Follows, Unmade, Registered, Gone
    <2> QED BY <2>5, <2>6
  <1> QED BY <1>3, <1>4

LEMMA RemoveFollows ==
  ASSUME IInv, NEW k \in Kinds, ProcRemoveClient(k), NEW d \in Clients
  PROVE  Follows(d)'
  <1> DEFINE m == Head(msgs[k])
  <1>1. /\ Receive(k, "remove") /\ TypeOK
        /\ known' = [known EXCEPT ![k] = @ \ {m.client}]
        /\ OnRemoveClientComplete(m.client, k)
        /\ clientData' = clientData /\ loaded' = loaded
    BY DEF ProcRemoveClient, IInv
  <1>2. m.op = "remove" /\ m \in Messages /\ msgs[k] \in Seq(Messages) /\ msgs[k] # << >>
    BY <1>1, ReceiveTakes
  <1>3. m.client \in Clients
    BY <1>2, ClientTyped
  <1>4. CASE m.client # d
    <2>1. ~Concerns(m, d)
      BY <1>4 DEF Concerns
    <2>2. \A l \in Kinds : (d \in known'[l] <=> d \in known[l])
                           /\ KeepsAbout(msgs[l], msgs'[l], d)
      BY <1>1, <1>4, <2>1, TakenKeeps DEF TypeOK
    <2>3. object'[d] = object[d] /\ destroyData'[d] = destroyData[d]
      BY <1>1, <1>3, <1>4 DEF OnRemoveClientComplete, TypeOK
    <2> QED BY <1>1, <2>2, <2>3, Undisturbed DEF IInv
  <1>5. CASE m.client = d
    <2>1. Concerns(m, d) /\ IsRemoval(m, d)
      BY <1>2, <1>5 DEF Concerns, IsRemoval
    <2>2. ~Forgotten(d, k) /\ ~NoRemoval(msgs[k], d)
      BY <1>2, <2>1, TailKeeps DEF Forgotten
    <2>3. object[d] = "live" /\ d \notin clientData
      BY <1>1, <2>2 DEF IInv, Follows, Unmade, Registered, Gone, TypeOK
    <2>4. Leaving(d)
      BY DEF IInv, Follows
    <2>5. k \in destroyData[d] /\ RemovedLast(msgs[k], d)
      BY <2>2, <2>3, <2>4 DEF Leaving
    <2>6. Forgotten(d, k)'
      <3>1. NoneOf(msgs'[k], d)
        BY <2>1, <2>5, <1>1, <1>2, ReceiveTakes, TailKeeps
      <3> QED BY <3>1, <1>1, <1>5 DEF Forgotten, TypeOK
    <2>7. /\ destroyData'[d] = destroyData[d] \ {k}
          /\ object'[d] = IF destroyData'[d] = {} THEN "deleted" ELSE "live"
      BY <1>1, <1>5, <2>3, <2>5 DEF OnRemoveClientComplete, TypeOK
    <2>8. \A l \in Kinds \ {k} : /\ Forgotten(d, l) => Forgotten(d, l)'
                                 /\ RemovedLast(msgs[l], d) => RemovedLast(msgs'[l], d)
      BY <1>1, ReceiveTakes DEF Forgotten, TypeOK
    <2>9. \A l \in Kinds : IF l \in destroyData'[d] THEN RemovedLast(msgs'[l], d)
                                                    ELSE Forgotten(d, l)'
      <3>1. k \notin destroyData'[d] /\ Forgotten(d, k)'
        BY <2>6, <2>7
      <3>2. ASSUME NEW l \in Kinds \ {k}
            PROVE  IF l \in destroyData'[d] THEN RemovedLast(msgs'[l], d) ELSE Forgotten(d, l)'
        <4>1. IF l \in destroyData[d] THEN RemovedLast(msgs[l], d) ELSE Forgotten(d, l)
          BY <2>3, <2>4 DEF Leaving
        <4>2. l \in destroyData'[d] <=> l \in destroyData[d]
          BY <2>7
        <4>3. CASE l \in destroyData[d]
          <5>1. RemovedLast(msgs'[l], d)
            BY <4>1, <4>3, <2>8
          <5> QED BY <5>1, <4>2, <4>3
        <4>4. CASE l \notin destroyData[d]
          <5>1. Forgotten(d, l)'
            BY <4>1, <4>4, <2>8
          <5> QED BY <5>1, <4>2, <4>4
        <4> QED BY <4>3, <4>4
      <3> QED BY <3>1, <3>2
    <2>10. Leaving(d)'
      BY <2>7, <2>9 DEF Leaving
    <2>11. Gone(d)'
      BY <1>1, <2>3, <2>7, <2>9 DEF Gone
    <2> QED BY <1>1, <2>3, <2>7, <2>10, <2>11 DEF Follows, Unmade, Registered
  <1> QED BY <1>4, <1>5

LEMMA OtherFollows ==
  ASSUME IInv, NEW k \in Kinds,
         ProcRequestCapabilities(k) \/ ProcEngineUp(k) \/ Open(k), NEW d \in Clients
  PROVE  Follows(d)'
  <1>1. /\ TypeOK /\ known' = known /\ object' = object /\ destroyData' = destroyData
        /\ clientData' = clientData
    BY DEF ProcRequestCapabilities, ProcEngineUp, Open, registry, IInv
  <1>2. loaded' = loaded
    BY DEF ProcRequestCapabilities, ProcEngineUp, Open, registry
  <1>3. \A l \in Kinds : KeepsAbout(msgs[l], msgs'[l], d)
    <2>1. CASE ProcRequestCapabilities(k)
      <3>1. Receive(k, "capabilities")
        BY <2>1 DEF ProcRequestCapabilities
      <3>2. ~Concerns(Head(msgs[k]), d)
        BY <3>1 DEF Receive, Concerns
      <3> QED BY <1>1, <3>1, <3>2, TakenKeeps
    <2>2. CASE ProcEngineUp(k)
      <3> DEFINE t == Tail(msgs[k])
      <3>1. /\ msgs[k] \in Seq(Messages) /\ msgs[k] # << >> /\ Head(msgs[k]).op = "engineUp"
            /\ msgs' = [msgs EXCEPT ![k] = t \o Resent(k)]
        BY <1>1, <2>2 DEF ProcEngineUp, TypeOK
      <3>2. ~Concerns(Head(msgs[k]), d) /\ ~IsRemoval(Head(msgs[k]), d)
        BY <3>1 DEF Concerns, IsRemoval
      <3>3. t \in Seq(Messages) /\ KeepsAbout(msgs[k], t, d)
        BY <3>1, <3>2, TailKeeps DEF KeepsAbout
      <3>4. Resent(k) \in Seq(Messages) /\ NoneOf(Resent(k), d)
        BY <1>1, ResentTyped
      <3>5. NoRemoval(Resent(k), d)
        BY <3>4 DEF NoneOf, NoRemoval, Concerns, IsRemoval
      <3>6. KeepsAbout(t, t \o Resent(k), d)
        BY <3>3, <3>4, <3>5, PostKeeps DEF KeepsAbout
      <3>7. KeepsAbout(msgs[k], msgs'[k], d)
        BY <1>1, <3>1, <3>3, <3>6 DEF KeepsAbout, TypeOK
      <3>8. \A l \in Kinds \ {k} : msgs'[l] = msgs[l]
        BY <1>1, <3>1 DEF TypeOK
      <3> QED BY <3>7, <3>8 DEF KeepsAbout
    <2>3. CASE Open(k)
      <3> DEFINE u == <<[op |-> "engineUp"]>>
      <3>1. u \in Seq(Messages)
        BY DEF Messages
      <3>2. NoneOf(u, d) /\ NoRemoval(u, d)
        BY <3>1 DEF NoneOf, NoRemoval, Concerns, IsRemoval
      <3>3. msgs[k] \in Seq(Messages)
        BY <1>1 DEF TypeOK
      <3>4. Append(msgs[k], [op |-> "engineUp"]) = msgs[k] \o u
        BY <3>1, <3>3, AppendIsConcat DEF Messages
      <3>5. KeepsAbout(msgs[k], msgs[k] \o u, d)
        BY <3>1, <3>2, <3>3, PostKeeps DEF KeepsAbout
      <3>6. msgs'[k] = msgs[k] \o u /\ \A l \in Kinds \ {k} : msgs'[l] = msgs[l]
        BY <1>1, <2>3, <3>4 DEF Open, TypeOK
      <3> QED BY <3>5, <3>6 DEF KeepsAbout
    <2> QED BY <2>1, <2>2, <2>3
  <1> QED BY <1>1, <1>2, <1>3, Undisturbed DEF IInv

-----------------------------------------------------------------------------
(* The theorems. *)

LEMMA Initially == LocationApiAssumption /\ Init => IInv
  <1> SUFFICES ASSUME LocationApiAssumption, Init PROVE IInv
    OBVIOUS
  <1>1. TypeOK
    <2>1. msgs \in [Kinds -> Seq(Messages)] /\ pending \in [Kinds -> Seq(Clients)]
      BY EmptySeq DEF Init
    <2>2. /\ destroyData \in [Clients -> SUBSET Kinds]
          /\ object \in [Clients -> {"none", "live", "deleted"}]
          /\ known \in [Kinds -> SUBSET Clients] /\ capsKnown \in [Kinds -> BOOLEAN]
      BY DEF Init
    <2> QED BY <2>1, <2>2 DEF Init, TypeOK
  <1>2. Counted
    BY FS_EmptySet DEF Init, Counted, FrameworkFollowsClients
  <1>3. ASSUME NEW c \in Clients PROVE Follows(c)
    <2>1. \A k \in Kinds : Forgotten(c, k)
      BY DEF Init, Forgotten, NoneOf
    <2> QED BY <2>1 DEF Init, Follows, Unmade, Registered, Leaving, Gone
  <1> QED BY <1>1, <1>2, <1>3 DEF IInv

LEMMA CountedStep ==
  ASSUME LocationApiAssumption, IInv, Next
  PROVE  Counted'
  <1>1. ASSUME NEW c \in Clients, NEW ks \in Menu, CreateInstance(c, ks) PROVE Counted'
    <2>1. c \notin clientData
      BY <1>1 DEF CreateInstance, IInv, Follows, Unmade
    <2>2. refs' = Cardinality(clientData')
      BY <1>1, <2>1, Counts DEF CreateInstance, IInv
    <2>3. framework'
      <3>1. refs = 0 \/ framework
        BY Counts DEF IInv, Counted, FrameworkFollowsClients
      <3>2. refs' = refs + 1 /\ framework' = (framework \/ refs' = 1)
        BY <1>1 DEF CreateInstance
      <3>3. refs = 0 => refs' = 1
        BY <3>2
      <3>4. framework' = (framework \/ refs' = 1)
        BY <3>2
      <3> QED BY <3>1, <3>3, <3>4, Zenon
    <2> QED BY <1>1, <2>2, <2>3 DEF CreateInstance, Counted, FrameworkFollowsClients
  <1>2. ASSUME NEW c \in Clients, NEW ks \in Menu, UpdateCallbacks(c, ks) PROVE Counted'
    BY <1>2 DEF UpdateCallbacks, IInv, Counted, FrameworkFollowsClients
  <1>3. ASSUME NEW c \in Clients, Destroy(c) PROVE Counted'
    <2>1. refs' = Cardinality(clientData')
      BY <1>3, Counts DEF Destroy, IInv
    <2>2. framework' <=> clientData' # {}
      BY <1>3, Counts DEF Destroy, LastReference, IInv, Counted, FrameworkFollowsClients, TypeOK
    <2> QED BY <2>1, <2>2 DEF Counted, FrameworkFollowsClients
  <1>4. ASSUME NEW k \in Kinds, Proc(k) \/ Open(k) PROVE Counted'
    <2>1. refs' = refs /\ clientData' = clientData /\ framework' = framework
      BY <1>4 DEF Proc, ProcAddClient, ProcRemoveClient, ProcRequestCapabilities,
                  ProcEngineUp, Open, registry
    <2> QED BY <2>1 DEF IInv, Counted, FrameworkFollowsClients
  <1> QED BY <1>1, <1>2, <1>3, <1>4 DEF Next, Calls

LEMMA Step ==
  ASSUME LocationApiAssumption, IInv, Next
  PROVE  IInv'
  <1>1. Counted'
    BY CountedStep
  <1>2. ASSUME NEW c \in Clients, NEW ks \in Menu,
               CreateInstance(c, ks) \/ UpdateCallbacks(c, ks)
        PROVE  IInv'
    <2>1. TypeOK'
      BY <1>2, CallTyped DEF IInv
    <2>2. ASSUME NEW d \in Clients PROVE Follows(d)'
      BY <1>2, CreateFollows, UpdateFollows
    <2> QED BY <1>1, <2>1, <2>2 DEF IInv
  <1>3. ASSUME NEW c \in Clients, Destroy(c) PROVE IInv'
    <2>1. TypeOK'
      BY <1>3, DestroyTyped DEF IInv
    <2>2. ASSUME NEW d \in Clients PROVE Follows(d)'
      BY <1>3, DestroyFollows
    <2> QED BY <1>1, <2>1, <2>2 DEF IInv
  <1>4. ASSUME NEW k \in Kinds, Proc(k) \/ Open(k) PROVE IInv'
    <2>1. TypeOK'
      BY <1>4, ThreadTyped DEF IInv
    <2>2. ASSUME NEW d \in Clients PROVE Follows(d)'
      BY <1>4, AddFollows, RemoveFollows, OtherFollows DEF Proc
    <2> QED BY <1>1, <2>1, <2>2 DEF IInv
  <1> QED BY <1>2, <1>3, <1>4 DEF Next, Calls

\* Types, counts and what is held of every client are kept by every step.
THEOREM Inductive == Spec => []IInv
  <1>1. Init => IInv
    BY Initially, LocationApiAssumption
  <1>2. IInv /\ UNCHANGED vars => IInv'
    <2> SUFFICES ASSUME IInv, UNCHANGED vars PROVE IInv'
      OBVIOUS
    <2>1. TypeOK' /\ Counted'
      BY DEF IInv, vars, registry, adapters, TypeOK, Counted, FrameworkFollowsClients
    <2>2. ASSUME NEW c \in Clients PROVE Follows(c)'
      BY DEF IInv, vars, registry, adapters, Follows, Unmade, Registered, Leaving, Gone, Forgotten
    <2> QED BY <2>1, <2>2 DEF IInv
  <1>3. IInv /\ [Next]_vars => IInv'
    BY <1>2, Step, LocationApiAssumption
  <1> QED BY <1>1, <1>3, PTL DEF Spec

\* The registry, the adapters and their queues stay well typed; the reference
\* count never goes below zero.
THEOREM TypeCorrect == Spec => []TypeOK
  <1>1. IInv => TypeOK
    BY DEF IInv
  <1> QED BY <1>1, Inductive, PTL

\* A deleted client is remembered by no adapter and on its way to none.
THEOREM DeletedForgotten == Spec => []DestroyedIsForgotten
  <1>1. IInv => DestroyedIsForgotten
    BY DEF IInv, Follows, Gone, Forgotten, NoneOf, DestroyedIsForgotten
  <1> QED BY <1>1, Inductive, PTL

\* The framework's object is there exactly while some client is.
THEOREM FrameworkFollows == Spec => []FrameworkFollowsClients
  <1>1. IInv => FrameworkFollowsClients
    BY DEF IInv, Counted
  <1> QED BY <1>1, Inductive, PTL

=============================================================================
