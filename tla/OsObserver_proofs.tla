------------------------- MODULE OsObserver_proofs --------------------------
(***************************************************************************)
(* Proofs about OsObserver, for any clients, items and values: its types;  *)
(* and, when only clients without a subscription update theirs, that the   *)
(* two maps agree, that the framework is subscribed for what clients need, *)
(* that clients know the last values, and that it implements the interface *)
(* Subscriptions.                                                          *)
(***************************************************************************)
EXTENDS OsObserver, SequenceTheorems, TLAPS

RequestTypes == {"subscribe", "requestData", "update", "unsubscribe", "unsubscribeAll"}

Message == ClientRequests \union Reports \union [type : {"source"}]

\* What calls put in a message.
RequestOK(m) ==
    /\ m.type = "requestData" => m.items \subseteq Requestable
    /\ m.type \in RequestTypes => m.items # {}

\* A client that updates has no items, and no message in the queue before that one.
Fresh ==
    \A n \in 1 .. Len(msgs) : msgs[n].type = "update" =>
        /\ clientItems[msgs[n].client] = {}
        /\ \A k \in 1 .. n - 1 :
              msgs[k].type \in RequestTypes => msgs[k].client # msgs[n].client

\* Nobody has been told of an item without a value.
ToldCached == \A c \in Clients, i \in Items : cache[i] = Absent => told[c][i] = Absent

MsgsOK == \A n \in 1 .. Len(msgs) : RequestOK(msgs[n])

IInv == TypeOK /\ MsgsOK /\ Fresh /\ MapsAgree /\ Served /\ ToldCached /\ Informed

-----------------------------------------------------------------------------
(* The queue. *)

\* A message that is received is typed, and leaves the others as they are.
LEMMA ReceiveTakes ==
  ASSUME TypeOK, NEW type, Receive(type)
  PROVE  /\ Head(msgs) \in Message /\ Head(msgs).type = type
         /\ Head(msgs) = msgs[1] /\ Len(msgs) \in Nat \ {0}
         /\ msgs' \in Seq(Message) /\ Len(msgs') = Len(msgs) - 1
         /\ \A n \in 1 .. Len(msgs') : msgs'[n] = msgs[n + 1] /\ n + 1 \in 1 .. Len(msgs)
  <1>1. msgs \in Seq(Message) /\ msgs # << >> /\ msgs' = Tail(msgs)
    BY DEF Receive, TypeOK, Message
  <1>2. Head(msgs) \in Message /\ Tail(msgs) \in Seq(Message)
    BY <1>1, HeadTailProperties
  <1>3. Len(msgs) \in Nat \ {0} /\ Len(Tail(msgs)) = Len(msgs) - 1
    BY <1>1, HeadTailProperties, LenProperties, EmptySeq
  <1>4. \A n \in 1 .. Len(Tail(msgs)) : Tail(msgs)[n] = msgs[n + 1]
    BY <1>1, HeadTailProperties
  <1>5. \A n \in 1 .. Len(msgs') : n + 1 \in 1 .. Len(msgs)
    BY <1>1, <1>3
  <1>6. Head(msgs) = msgs[1]
    BY <1>1
  <1> QED BY <1>1, <1>2, <1>3, <1>4, <1>5, <1>6 DEF Receive

\* A client's message names a client and items.
LEMMA RequestTyped ==
  ASSUME NEW m \in Message, m.type \in RequestTypes
  PROVE  m.client \in Clients /\ m.items \in SUBSET Items
  BY DEF Message, ClientRequests, Reports, RequestTypes

\* A report names values of items.
LEMMA ReportTyped ==
  ASSUME NEW m \in Message, m.type = "notify"
  PROVE  m.values \in [DOMAIN m.values -> Values] /\ DOMAIN m.values \subseteq Items
  BY DEF Message, ClientRequests, Reports

\* A message that is appended leaves the others as they are.
LEMMA AppendAdds ==
  ASSUME TypeOK, NEW m \in Message, msgs' = Append(msgs, m)
  PROVE  /\ msgs' \in Seq(Message) /\ Len(msgs) \in Nat /\ Len(msgs') = Len(msgs) + 1
         /\ msgs'[Len(msgs')] = m
         /\ \A n \in 1 .. Len(msgs) : msgs'[n] = msgs[n]
  BY AppendProperties, LenProperties DEF TypeOK, Message

-----------------------------------------------------------------------------
(* Types. *)

LEMMA TellTyped ==
  ASSUME TypeOK, NEW c \in Clients, NEW S \in SUBSET Items
  PROVE  Tell(c, S) \in [Clients -> [Items -> Values \union {Absent}]]
  BY DEF Tell, TypeOK

LEMMA AddItemsTyped ==
  ASSUME TypeOK, NEW c \in Clients, NEW S \in SUBSET Items, AddItems(c, S)
  PROVE  /\ clientItems' \in [Clients -> SUBSET Items]
         /\ itemClients' \in [Items -> SUBSET Clients]
         /\ told' \in [Clients -> [Items -> Values \union {Absent}]]
  BY TellTyped DEF AddItems, WithClient, TypeOK

LEMMA DropItemsTyped ==
  ASSUME TypeOK, NEW c \in Clients, NEW S \in SUBSET Items, DropItems(c, S)
  PROVE  /\ clientItems' \in [Clients -> SUBSET Items]
         /\ itemClients' \in [Items -> SUBSET Clients]
         /\ subscribed' \subseteq Items
  BY DEF DropItems, WithoutClient, GoneKeys, TypeOK

LEMMA PostTyped ==
  ASSUME TypeOK, NEW type \in RequestTypes, NEW c \in Clients, NEW S \in SUBSET Items,
         Post(type, c, S)
  PROVE  TypeOK'
  <1>1. Request(type, c, S) \in Message
    BY DEF Request, Message, ClientRequests, RequestTypes
  <1>2. msgs' \in Seq(Message)
    BY <1>1, AppendAdds DEF Post
  <1> QED BY <1>2 DEF Post, TypeOK, Message, maps, framework

LEMMA CallTyped == TypeOK /\ Call => TypeOK'
  <1> SUFFICES ASSUME TypeOK, Call PROVE TypeOK'
    OBVIOUS
  <1>1. ASSUME NEW c \in Clients, NEW S \in SUBSET Items,
               Subscribe(c, S) \/ RequestData(c, S) \/ UpdateSubscription(c, S)
                 \/ Unsubscribe(c, S)
        PROVE  TypeOK'
    BY <1>1, PostTyped
       DEF Subscribe, RequestData, UpdateSubscription, Unsubscribe, RequestTypes
  <1>2. ASSUME NEW c \in Clients, UnsubscribeAll(c) PROVE TypeOK'
    BY <1>2, PostTyped DEF UnsubscribeAll, RequestTypes
  <1>3. CASE SetSubscriptionObj
    <2>1. [type |-> "source"] \in Message
      BY DEF Message
    <2>2. msgs' \in Seq(Message)
      BY <1>3, <2>1, AppendAdds DEF SetSubscriptionObj
    <2> QED BY <1>3, <2>2 DEF SetSubscriptionObj, TypeOK, Message, maps, framework, used
  <1> QED BY <1>1, <1>2, <1>3 DEF Call

LEMMA ProcTyped == TypeOK /\ Proc => TypeOK'
  <1> SUFFICES ASSUME TypeOK, Proc PROVE TypeOK'
    OBVIOUS
  <1> DEFINE c == Head(msgs).client
             S == Head(msgs).items
  <1>1. CASE ProcSubscribe
    <2>1. c \in Clients /\ S \in SUBSET Items /\ msgs' \in Seq(Message)
      BY <1>1, ReceiveTakes, RequestTyped DEF ProcSubscribe, RequestTypes
    <2>2. /\ clientItems' \in [Clients -> SUBSET Items] /\ itemClients' \in [Items -> SUBSET Clients]
          /\ told' \in [Clients -> [Items -> Values \union {Absent}]]
      BY <1>1, <2>1, AddItemsTyped DEF ProcSubscribe
    <2>3. subscribed' \subseteq Items
      BY <1>1, <2>1 DEF ProcSubscribe, NewKeys, TypeOK
    <2> QED BY <1>1, <2>1, <2>2, <2>3 DEF ProcSubscribe, TypeOK, Message, used
  <1>2. CASE ProcRequestData
    <2>1. c \in Clients /\ S \in SUBSET Items /\ msgs' \in Seq(Message)
      BY <1>2, ReceiveTakes, RequestTyped DEF ProcRequestData, RequestTypes
    <2>2. /\ clientItems' \in [Clients -> SUBSET Items] /\ itemClients' \in [Items -> SUBSET Clients]
          /\ told' \in [Clients -> [Items -> Values \union {Absent}]]
      BY <1>2, <2>1, AddItemsTyped DEF ProcRequestData
    <2>3. asked' \subseteq Items
      BY <1>2, <2>1 DEF ProcRequestData, TypeOK
    <2> QED BY <1>2, <2>1, <2>2, <2>3 DEF ProcRequestData, TypeOK, Message, used
  <1>3. CASE ProcUpdate
    <2>1. c \in Clients /\ S \in SUBSET Items /\ msgs' \in Seq(Message)
      BY <1>3, ReceiveTakes, RequestTyped DEF ProcUpdate, RequestTypes
    <2>2. clientItems' \in [Clients -> SUBSET Items] /\ itemClients' \in [Items -> SUBSET Clients]
      BY <1>3, <2>1 DEF ProcUpdate, WithClient, WithoutClient, TypeOK
    <2>3. told' \in [Clients -> [Items -> Values \union {Absent}]]
      BY <1>3, <2>1, TellTyped DEF ProcUpdate
    <2>4. subscribed' \subseteq Items
      BY <1>3, <2>1 DEF ProcUpdate, NewKeys, TypeOK
    <2> QED BY <1>3, <2>1, <2>2, <2>3, <2>4 DEF ProcUpdate, TypeOK, Message, used
  <1>4. CASE ProcUnsubscribe
    <2>1. c \in Clients /\ S \in SUBSET Items /\ msgs' \in Seq(Message)
      BY <1>4, ReceiveTakes, RequestTyped DEF ProcUnsubscribe, RequestTypes
    <2>2. /\ clientItems' \in [Clients -> SUBSET Items] /\ itemClients' \in [Items -> SUBSET Clients]
          /\ subscribed' \subseteq Items
      BY <1>4, <2>1, DropItemsTyped DEF ProcUnsubscribe
    <2> QED BY <1>4, <2>1, <2>2 DEF ProcUnsubscribe, TypeOK, Message, used
  <1>5. CASE ProcUnsubscribeAll
    <2>1. c \in Clients /\ msgs' \in Seq(Message)
      BY <1>5, ReceiveTakes, RequestTyped DEF ProcUnsubscribeAll, RequestTypes
    <2>2. clientItems[c] \in SUBSET Items
      BY <2>1 DEF TypeOK
    <2>3. /\ clientItems' \in [Clients -> SUBSET Items] /\ itemClients' \in [Items -> SUBSET Clients]
          /\ subscribed' \subseteq Items
      BY <1>5, <2>1, <2>2, DropItemsTyped DEF ProcUnsubscribeAll
    <2> QED BY <1>5, <2>1, <2>3 DEF ProcUnsubscribeAll, TypeOK, Message, used
  <1>6. CASE ProcSource
    BY <1>6, ReceiveTakes DEF ProcSource, TypeOK, Message, maps, used
  <1>7. CASE ProcNotify
    <2> DEFINE v == Head(msgs).values
    <2>1. v \in [DOMAIN v -> Values] /\ msgs' \in Seq(Message)
      BY <1>7, ReceiveTakes, ReportTyped DEF ProcNotify
    <2>2. cache' \in [Items -> Values \union {Absent}]
      BY <1>7, <2>1 DEF ProcNotify, TypeOK
    <2>3. told' \in [Clients -> [Items -> Values \union {Absent}]]
      BY <1>7, <2>1 DEF ProcNotify, TypeOK, Changed
    <2> QED BY <1>7, <2>1, <2>2, <2>3 DEF ProcNotify, TypeOK, Message, maps, framework, used
  <1> QED BY <1>1, <1>2, <1>3, <1>4, <1>5, <1>6, <1>7 DEF Proc

LEMMA NotifyTyped ==
  ASSUME TypeOK, NEW S \in SUBSET Items, NEW v \in [S -> Values], Notify(S, v)
  PROVE  TypeOK'
  <1>1. [type |-> "notify", values |-> v] \in Message
    BY DEF Message, Reports
  <1>2. msgs' \in Seq(Message)
    BY <1>1, AppendAdds DEF Notify
  <1> QED BY <1>2 DEF Notify, TypeOK, Message, maps

LEMMA TypeInv == TypeOK /\ [Next]_vars => TypeOK'
  <1> SUFFICES ASSUME TypeOK, [Next]_vars PROVE TypeOK'
    OBVIOUS
  <1>1. CASE Next
    BY <1>1, CallTyped, ProcTyped, NotifyTyped DEF Next
  <1>2. CASE UNCHANGED vars
    BY <1>2 DEF vars, maps, framework, used, TypeOK
  <1> QED BY <1>1, <1>2

LEMMA InitTyped == Init => TypeOK
  <1> SUFFICES ASSUME Init PROVE TypeOK
    OBVIOUS
  <1>1. msgs \in Seq(ClientRequests \union Reports \union [type : {"source"}])
    BY EmptySeq DEF Init
  <1>2. cache \in [Items -> Values \union {Absent}]
    BY DEF Init
  <1>3. told \in [Clients -> [Items -> Values \union {Absent}]]
    BY DEF Init
  <1> QED BY <1>1, <1>2, <1>3 DEF Init, TypeOK

\* Every reachable state is typed: no step puts a wrong thing in a map or a message.
THEOREM TypeCorrect == Spec => []TypeOK
  BY InitTyped, TypeInv, PTL DEF Spec
-----------------------------------------------------------------------------
(* What the messages in the queue say. *)

LEMMA PostKeepsMsgs ==
  ASSUME ~Resubscribe, IInv, NEW type \in RequestTypes, NEW c \in Clients, NEW S \in SUBSET Items,
         Post(type, c, S), type = "requestData" => S \subseteq Requestable,
         type = "update" => Holds(c) = {}
  PROVE  MsgsOK' /\ Fresh'
  <1> DEFINE m == Request(type, c, S)
             N == Len(msgs)
  <1>1. m \in Message /\ m.type = type /\ m.client = c /\ m.items = S /\ S # {}
    BY DEF Request, Message, ClientRequests, RequestTypes, Post
  <1>2. /\ N \in Nat /\ Len(msgs') = N + 1 /\ msgs'[N + 1] = m
        /\ \A n \in 1 .. N : msgs'[n] = msgs[n]
    <2>1. msgs' = Append(msgs, m)
      BY DEF Post
    <2> QED BY <1>1, <2>1, AppendAdds DEF IInv
  <1>3. \A n \in 1 .. N + 1 : n \in 1 .. N \/ n = N + 1
    BY <1>2
  <1>4. MsgsOK'
    BY <1>1, <1>2, <1>3 DEF MsgsOK, RequestOK, IInv
  <1>5. clientItems' = clientItems
    BY DEF Post, maps
  <1>6. ASSUME type = "update"
        PROVE  /\ clientItems[c] = {}
               /\ \A k \in 1 .. N : msgs[k].type \in RequestTypes => msgs[k].client # c
    <2>1. clientItems[c] = {}
      BY <1>6 DEF Holds
    <2>2. ASSUME NEW k \in 1 .. N, msgs[k].type \in RequestTypes, msgs[k].client = c PROVE FALSE
      <3>1. k \in DOMAIN msgs /\ msgs[k].type \notin {"source", "notify"}
        BY <2>2 DEF IInv, TypeOK, RequestTypes
      <3>2. msgs[k].items \subseteq Holds(c)
        BY <2>2, <3>1 DEF Holds
      <3> QED BY <1>6, <2>2, <3>2 DEF IInv, MsgsOK, RequestOK
    <2> QED BY <2>1, <2>2
  <1>7. Fresh'
    <2> SUFFICES ASSUME NEW n \in 1 .. N + 1, msgs'[n].type = "update"
                 PROVE  /\ clientItems[msgs'[n].client] = {}
                        /\ \A k \in 1 .. n - 1 :
                              msgs'[k].type \in RequestTypes => msgs'[k].client # msgs'[n].client
      BY <1>2, <1>5 DEF Fresh
    <2>0. \A k \in 1 .. n - 1 : k \in 1 .. N
      BY <1>2
    <2>1. CASE n \in 1 .. N
      BY <1>2, <2>0, <2>1 DEF IInv, Fresh
    <2>2. CASE n = N + 1
      <3>1. msgs'[n] = m /\ type = "update" /\ msgs'[n].client = c
        BY <1>1, <1>2, <2>2
      <3>2. ASSUME NEW k \in 1 .. n - 1, msgs'[k].type \in RequestTypes
            PROVE  msgs'[k].client # c
        BY <1>2, <1>6, <2>0, <3>1, <3>2
      <3>3. clientItems[c] = {}
        BY <1>6, <3>1
      <3> QED BY <3>1, <3>2, <3>3
    <2> QED BY <1>3, <2>1, <2>2
  <1> QED BY <1>4, <1>7

\* A message without items, at the end of the queue, changes nothing of this.
LEMMA OtherKeepsMsgs ==
  ASSUME IInv, NEW m \in Message, m.type \in {"source", "notify"}, msgs' = Append(msgs, m),
         UNCHANGED clientItems
  PROVE  MsgsOK' /\ Fresh'
  <1> DEFINE N == Len(msgs)
  <1>1. /\ N \in Nat /\ Len(msgs') = N + 1 /\ msgs'[N + 1] = m
        /\ \A n \in 1 .. N : msgs'[n] = msgs[n]
    BY AppendAdds DEF IInv
  <1>2. \A n \in 1 .. N + 1 : n \in 1 .. N \/ n = N + 1
    BY <1>1
  <1>3. MsgsOK'
    BY <1>1, <1>2 DEF MsgsOK, RequestOK, IInv, RequestTypes
  <1>4. Fresh'
    <2> SUFFICES ASSUME NEW n \in 1 .. N + 1, msgs'[n].type = "update"
                 PROVE  /\ clientItems[msgs'[n].client] = {}
                        /\ \A k \in 1 .. n - 1 :
                              msgs'[k].type \in RequestTypes => msgs'[k].client # msgs'[n].client
      BY <1>1 DEF Fresh
    <2>1. n \in 1 .. N
      BY <1>1, <1>2
    <2>2. \A k \in 1 .. n - 1 : msgs'[k] = msgs[k]
      <3>1. \A k \in 1 .. n - 1 : k \in 1 .. N
        BY <1>1
      <3> QED BY <1>1, <3>1
    <2>3. msgs'[n] = msgs[n] /\ msgs[n].type = "update"
      BY <1>1, <2>1
    <2>4. /\ clientItems[msgs[n].client] = {}
          /\ \A k \in 1 .. n - 1 :
                msgs[k].type \in RequestTypes => msgs[k].client # msgs[n].client
      BY <2>1, <2>3 DEF IInv, Fresh
    <2> QED BY <2>2, <2>3, <2>4
  <1> QED BY <1>3, <1>4

\* Handling a client's message may change the items of that client; the others' change nothing.
TouchesOne == \A d \in Clients : clientItems'[d] = clientItems[d] \/ d = Head(msgs).client
TouchesNone == \A d \in Clients : clientItems'[d] = clientItems[d]

LEMMA ReceiveKeepsMsgs ==
  ASSUME IInv, NEW type, Receive(type), (type \in RequestTypes /\ TouchesOne) \/ TouchesNone
  PROVE  MsgsOK' /\ Fresh'
  <1> DEFINE h == Head(msgs)
  <1>1. /\ h \in Message /\ h.type = type /\ h = msgs[1] /\ Len(msgs) \in Nat \ {0}
        /\ Len(msgs') = Len(msgs) - 1
        /\ \A n \in 1 .. Len(msgs') : msgs'[n] = msgs[n + 1] /\ n + 1 \in 1 .. Len(msgs)
    BY ReceiveTakes DEF IInv
  <1>2. MsgsOK'
    BY <1>1 DEF IInv, MsgsOK, RequestOK
  <1>3. Fresh'
    <2> SUFFICES ASSUME NEW n \in 1 .. Len(msgs'), msgs'[n].type = "update"
                 PROVE  /\ clientItems'[msgs'[n].client] = {}
                        /\ \A k \in 1 .. n - 1 :
                              msgs'[k].type \in RequestTypes => msgs'[k].client # msgs'[n].client
      BY DEF Fresh
    <2> DEFINE d == msgs[n + 1].client
    <2>1. msgs'[n] = msgs[n + 1] /\ n + 1 \in 1 .. Len(msgs) /\ msgs[n + 1].type = "update"
      BY <1>1
    <2>2. /\ clientItems[d] = {}
          /\ \A k \in 1 .. n : msgs[k].type \in RequestTypes => msgs[k].client # d
      BY <2>1 DEF IInv, Fresh
    <2>3. msgs[n + 1] \in Message
      BY <2>1, ElementOfSeq DEF IInv, TypeOK, Message
    <2>4. d \in Clients
      BY <2>1, <2>3, RequestTyped DEF RequestTypes
    <2>5. 1 \in 1 .. n
      BY <1>1
    <2>6. ~(type \in RequestTypes /\ d = h.client)
      BY <1>1, <2>2, <2>5
    <2>7. clientItems'[d] = {}
      BY <2>2, <2>4, <2>6 DEF TouchesOne, TouchesNone
    <2>8. ASSUME NEW k \in 1 .. n - 1
          PROVE  msgs'[k] = msgs[k + 1] /\ k + 1 \in 1 .. n
      <3>1. k \in 1 .. Len(msgs') /\ k + 1 \in 1 .. n
        BY <1>1
      <3> QED BY <1>1, <3>1
    <2> QED BY <2>1, <2>2, <2>7, <2>8
  <1> QED BY <1>2, <1>3

-----------------------------------------------------------------------------
(* The maps, the framework and what clients know. *)

\* What a step that does not touch the queue has to keep.
Sound == MapsAgree /\ Served /\ ToldCached /\ Informed

LEMMA AddItemsSound ==
  ASSUME TypeOK, Sound, NEW c \in Clients, NEW S \in SUBSET Items, AddItems(c, S),
         UNCHANGED cache
  PROVE  MapsAgree' /\ ToldCached' /\ Informed' /\ Interface!Subscribe(c, S)
  <1>1. MapsAgree'
    BY DEF Sound, MapsAgree, AddItems, WithClient, TypeOK
  <1>2. ToldCached'
    BY DEF Sound, ToldCached, AddItems, Tell, TypeOK
  <1>3. Informed'
    <2> SUFFICES ASSUME NEW d \in Clients, NEW i \in Items, d \in itemClients'[i]
                 PROVE  told'[d][i] = cache'[i]
      BY DEF Informed, Interface!Informed, listOf
    <2>1. CASE d \in itemClients[i]
      <3>1. told[d][i] = cache[i]
        BY <2>1 DEF Sound, Informed, Interface!Informed, listOf
      <3> QED BY <3>1 DEF AddItems, Tell, TypeOK
    <2>2. CASE d \notin itemClients[i]
      <3>1. d = c /\ i \in S
        BY <2>2 DEF AddItems, WithClient, TypeOK
      <3>2. CASE cache[i] = Absent
        <4>1. told[d][i] = Absent
          BY <3>2 DEF Sound, ToldCached
        <4> QED BY <3>1, <3>2, <4>1 DEF AddItems, Tell, TypeOK
      <3>3. CASE cache[i] # Absent
        BY <3>1, <3>3 DEF AddItems, Tell, TypeOK
      <3> QED BY <3>2, <3>3
    <2> QED BY <2>1, <2>2
  <1>4. Interface!Subscribe(c, S)
    <2>1. listOf' = [listOf EXCEPT ![c] = listOf[c] \union S]
      BY DEF listOf, AddItems, WithClient, TypeOK
    <2> QED BY <2>1 DEF Interface!Subscribe, Interface!Tell, AddItems, Tell
  <1> QED BY <1>1, <1>2, <1>3, <1>4

LEMMA DropItemsSound ==
  ASSUME TypeOK, Sound, NEW c \in Clients, NEW S \in SUBSET Items, DropItems(c, S),
         UNCHANGED <<cache, told, source>>
  PROVE  Sound' /\ Interface!Unsubscribe(c, S)
  <1>1. itemClients' = [i \in Items |-> IF i \in S THEN itemClients[i] \ {c} ELSE itemClients[i]]
    BY DEF DropItems, WithoutClient, Sound, MapsAgree, TypeOK
  <1>2. MapsAgree'
    <2>1. clientItems' = [clientItems EXCEPT ![c] = clientItems[c] \ S]
      BY DEF DropItems
    <2> QED BY <1>1, <2>1 DEF Sound, MapsAgree, TypeOK
  <1>3. Served'
    <2> SUFFICES ASSUME source, NEW i \in Items \ Requestable, itemClients'[i] # {}
                 PROVE  i \in subscribed'
      BY DEF Served
    <2>1. i \in subscribed
      BY <1>1 DEF Sound, Served, TypeOK
    <2>2. itemClients[i] # {c} \/ i \notin S
      BY <1>1
    <2> QED BY <2>1, <2>2 DEF DropItems, GoneKeys
  <1>4. ToldCached' /\ Informed'
    BY <1>1 DEF Sound, ToldCached, Informed, Interface!Informed, listOf, TypeOK
  <1>5. Interface!Unsubscribe(c, S)
    <2>1. listOf' = [listOf EXCEPT ![c] = listOf[c] \ S]
      BY <1>1 DEF listOf, TypeOK
    <2> QED BY <2>1 DEF Interface!Unsubscribe
  <1> QED BY <1>2, <1>3, <1>4, <1>5 DEF Sound

LEMMA SubscribeSound ==
  ASSUME IInv, ProcSubscribe PROVE Sound' /\ Interface!Next
  <1> DEFINE c == Head(msgs).client
             S == Head(msgs).items
  <1>1. c \in Clients /\ S \in SUBSET Items
    BY ReceiveTakes, RequestTyped DEF ProcSubscribe, RequestTypes, IInv
  <1>2. MapsAgree' /\ ToldCached' /\ Informed' /\ Interface!Subscribe(c, S)
    BY <1>1, AddItemsSound DEF ProcSubscribe, IInv, Sound
  <1>3. Served'
    <2> SUFFICES ASSUME source, NEW i \in Items \ Requestable, itemClients'[i] # {}
                 PROVE  i \in subscribed'
      BY DEF Served, ProcSubscribe
    <2>1. CASE itemClients[i] # {}
      BY <2>1 DEF IInv, Served, ProcSubscribe
    <2>2. CASE itemClients[i] = {}
      <3>1. i \in S
        BY <1>1, <2>2 DEF ProcSubscribe, AddItems, WithClient
      <3> QED BY <2>2, <3>1 DEF ProcSubscribe, NewKeys
    <2> QED BY <2>1, <2>2
  <1> QED BY <1>1, <1>2, <1>3 DEF Sound, Interface!Next

LEMMA RequestDataSound ==
  ASSUME IInv, ProcRequestData PROVE Sound' /\ Interface!Next
  <1> DEFINE c == Head(msgs).client
             S == Head(msgs).items
  <1>1. /\ c \in Clients /\ S \in SUBSET Items
        /\ Head(msgs) = msgs[1] /\ 1 \in 1 .. Len(msgs) /\ Head(msgs).type = "requestData"
    BY ReceiveTakes, RequestTyped DEF ProcRequestData, RequestTypes, IInv
  <1>2. MapsAgree' /\ ToldCached' /\ Informed' /\ Interface!Subscribe(c, S)
    BY <1>1, AddItemsSound DEF ProcRequestData, IInv, Sound
  <1>3. S \subseteq Requestable
    BY <1>1 DEF IInv, MsgsOK, RequestOK
  <1>4. Served'
    <2> SUFFICES ASSUME source, NEW i \in Items \ Requestable, itemClients'[i] # {}
                 PROVE  i \in subscribed'
      BY DEF Served, ProcRequestData
    <2>1. itemClients[i] # {}
      BY <1>1, <1>3 DEF ProcRequestData, AddItems, WithClient
    <2> QED BY <2>1 DEF IInv, Served, ProcRequestData
  <1> QED BY <1>1, <1>2, <1>4 DEF Sound, Interface!Next

LEMMA UpdateSound ==
  ASSUME IInv, ProcUpdate PROVE Sound' /\ Interface!Next
  <1> DEFINE c == Head(msgs).client
             S == Head(msgs).items
  <1>1. /\ c \in Clients /\ S \in SUBSET Items
        /\ Head(msgs) = msgs[1] /\ 1 \in 1 .. Len(msgs) /\ Head(msgs).type = "update"
    BY ReceiveTakes, RequestTyped DEF ProcUpdate, RequestTypes, IInv
  <1>2. clientItems[c] = {}
    BY <1>1 DEF IInv, Fresh
  <1>3. UpdateReturns(c, S) = {} /\ S \ clientItems[c] = S
    BY <1>2 DEF UpdateReturns
  <1>4. WithoutClient(itemClients, UpdateReturns(c, S), c) = itemClients
    BY <1>1, <1>3 DEF WithoutClient, IInv, TypeOK
  <1>5. GoneKeys(itemClients, UpdateReturns(c, S), c) = {}
    BY <1>3 DEF GoneKeys
  <1>6. /\ clientItems' = [clientItems EXCEPT ![c] = S]
        /\ itemClients' = WithClient(itemClients, S, c)
        /\ told' = Tell(c, S)
        /\ UNCHANGED <<source, cache>>
    BY <1>3, <1>4 DEF ProcUpdate
  <1>7. source => subscribed' = subscribed \union NewKeys(itemClients, S)
    BY <1>3, <1>4, <1>5 DEF ProcUpdate
  <1>8. AddItems(c, S)
    <2>1. S = clientItems[c] \union S
      BY <1>2
    <2> QED BY <1>6, <2>1 DEF AddItems
  <1>9. MapsAgree' /\ ToldCached' /\ Informed'
    BY <1>1, <1>6, <1>8, AddItemsSound DEF IInv, Sound
  <1>10. Served'
    <2> SUFFICES ASSUME source, NEW i \in Items \ Requestable, itemClients'[i] # {}
                 PROVE  i \in subscribed'
      BY <1>6 DEF Served
    <2>1. CASE itemClients[i] # {}
      BY <1>7, <2>1 DEF IInv, Served
    <2>2. CASE itemClients[i] = {}
      BY <1>6, <1>7, <2>2 DEF WithClient, NewKeys
    <2> QED BY <2>1, <2>2
  <1>11. Interface!Update(c, S)
    <2>1. listOf[c] = {}
      BY <1>1, <1>2 DEF listOf, IInv, MapsAgree
    <2>2. listOf' = [listOf EXCEPT ![c] = S]
      <3> SUFFICES ASSUME NEW d \in Clients
                   PROVE  {i \in Items : d \in itemClients'[i]}
                            = IF d = c THEN S ELSE {i \in Items : d \in itemClients[i]}
        BY DEF listOf
      <3>1. \A i \in Items : c \notin itemClients[i]
        BY <1>1, <2>1 DEF listOf
      <3> QED BY <1>1, <1>6, <3>1 DEF WithClient
    <2> QED BY <1>1, <1>6, <2>1, <2>2 DEF Interface!Update, Interface!Tell, Tell, listOf
  <1> QED BY <1>1, <1>9, <1>10, <1>11 DEF Sound, Interface!Next

LEMMA UnsubscribeSound ==
  ASSUME IInv, ProcUnsubscribe \/ ProcUnsubscribeAll PROVE Sound' /\ Interface!Next
  <1> DEFINE c == Head(msgs).client
             S == Head(msgs).items
  <1>1. c \in Clients /\ S \in SUBSET Items
    BY ReceiveTakes, RequestTyped DEF ProcUnsubscribe, ProcUnsubscribeAll, RequestTypes, IInv
  <1>2. CASE ProcUnsubscribe
    <2>1. Sound' /\ Interface!Unsubscribe(c, S)
      BY <1>1, <1>2, DropItemsSound DEF ProcUnsubscribe, IInv, Sound
    <2> QED BY <1>1, <2>1 DEF Interface!Next
  <1>3. CASE ProcUnsubscribeAll
    <2>1. clientItems[c] \in SUBSET Items
      BY <1>1 DEF IInv, TypeOK
    <2>2. Sound' /\ Interface!Unsubscribe(c, clientItems[c])
      BY <1>1, <1>3, <2>1, DropItemsSound DEF ProcUnsubscribeAll, IInv, Sound
    <2> QED BY <1>1, <2>1, <2>2 DEF Interface!Next
  <1> QED BY <1>2, <1>3

LEMMA NotifySound ==
  ASSUME IInv, ProcNotify PROVE Sound' /\ Interface!Next
  <1> DEFINE v == Head(msgs).values
             clients == UNION {itemClients[i] : i \in Changed(v)}
  <1>1. v \in [DOMAIN v -> Values] /\ DOMAIN v \subseteq Items
    BY ReceiveTakes, ReportTyped DEF ProcNotify, IInv
  <1>2. \A c \in Clients, i \in Items :
           c \in clients /\ i \in clientItems[c] \intersect Changed(v)
             <=> i \in listOf[c] /\ i \in DOMAIN v /\ v[i] # cache[i]
    BY <1>1 DEF Changed, listOf, IInv, MapsAgree
  <1>3. cache' = [i \in Items |-> IF i \in DOMAIN v THEN v[i] ELSE cache[i]]
    BY DEF ProcNotify
  <1>4. told' = [c \in Clients |-> [i \in Items |->
                    IF i \in listOf[c] /\ i \in DOMAIN v /\ v[i] # cache[i]
                    THEN v[i] ELSE told[c][i]]]
    BY <1>2 DEF ProcNotify
  <1>5. UNCHANGED <<source, clientItems, itemClients, subscribed, listOf>>
    BY DEF ProcNotify, maps, framework, listOf
  <1>6. MapsAgree' /\ Served'
    BY <1>5 DEF IInv, MapsAgree, Served
  <1>7. ToldCached'
    BY <1>1, <1>3, <1>4, ObserverAssumption DEF ToldCached, IInv, TypeOK
  <1>8. Informed'
    <2> SUFFICES ASSUME NEW c \in Clients, NEW i \in Items, i \in listOf[c]
                 PROVE  told'[c][i] = cache'[i]
      BY <1>5 DEF Informed, Interface!Informed, listOf
    <2>1. told[c][i] = cache[i]
      BY DEF IInv, Informed, Interface!Informed
    <2> QED BY <1>3, <1>4, <2>1
  <1>9. Interface!Report(v)
    BY <1>3, <1>4, <1>5 DEF Interface!Report
  <1> QED BY <1>1, <1>6, <1>7, <1>8, <1>9 DEF Sound, Interface!Next

-----------------------------------------------------------------------------
(* The invariant and the refinement. *)

LEMMA ProcInv == IInv /\ Proc => Sound' /\ MsgsOK' /\ Fresh'
                                  /\ (Interface!Next \/ UNCHANGED <<listOf, cache, told>>)
  <1> SUFFICES ASSUME IInv, Proc
               PROVE  Sound' /\ MsgsOK' /\ Fresh'
                      /\ (Interface!Next \/ UNCHANGED <<listOf, cache, told>>)
    OBVIOUS
  <1>1. CASE ProcSubscribe
    <2>0. /\ Receive("subscribe") /\ "subscribe" \in RequestTypes
          /\ TouchesOne
      BY <1>1 DEF ProcSubscribe, AddItems, RequestTypes, IInv, TypeOK, TouchesOne
    <2>1. MsgsOK' /\ Fresh'
      BY <2>0, ReceiveKeepsMsgs
    <2> QED BY <1>1, <2>1, SubscribeSound
  <1>2. CASE ProcRequestData
    <2>0. /\ Receive("requestData") /\ "requestData" \in RequestTypes
          /\ TouchesOne
      BY <1>2 DEF ProcRequestData, AddItems, RequestTypes, IInv, TypeOK, TouchesOne
    <2>1. MsgsOK' /\ Fresh'
      BY <2>0, ReceiveKeepsMsgs
    <2> QED BY <1>2, <2>1, RequestDataSound
  <1>3. CASE ProcUpdate
    <2>0. /\ Receive("update") /\ "update" \in RequestTypes
          /\ TouchesOne
      BY <1>3 DEF ProcUpdate, RequestTypes, IInv, TypeOK, TouchesOne
    <2>1. MsgsOK' /\ Fresh'
      BY <2>0, ReceiveKeepsMsgs
    <2> QED BY <1>3, <2>1, UpdateSound
  <1>4. CASE ProcUnsubscribe
    <2>0. /\ Receive("unsubscribe") /\ "unsubscribe" \in RequestTypes
          /\ TouchesOne
      BY <1>4 DEF ProcUnsubscribe, DropItems, RequestTypes, IInv, TypeOK, TouchesOne
    <2>1. MsgsOK' /\ Fresh'
      BY <2>0, ReceiveKeepsMsgs
    <2> QED BY <1>4, <2>1, UnsubscribeSound
  <1>5. CASE ProcUnsubscribeAll
    <2>0. /\ Receive("unsubscribeAll") /\ "unsubscribeAll" \in RequestTypes
          /\ TouchesOne
      BY <1>5 DEF ProcUnsubscribeAll, DropItems, RequestTypes, IInv, TypeOK, TouchesOne
    <2>1. MsgsOK' /\ Fresh'
      BY <2>0, ReceiveKeepsMsgs
    <2> QED BY <1>5, <2>1, UnsubscribeSound
  <1>6. CASE ProcSource
    <2>1. UNCHANGED <<clientItems, itemClients, cache, told, listOf>>
      BY <1>6 DEF ProcSource, maps, listOf
    <2>2. MsgsOK' /\ Fresh'
      <3>1. Receive("source") /\ TouchesNone
        BY <1>6, <2>1 DEF ProcSource, TouchesNone
      <3> QED BY <3>1, ReceiveKeepsMsgs
    <2>3. Served'
      BY <1>6, <2>1 DEF ProcSource, Served
    <2>4. MapsAgree' /\ ToldCached' /\ Informed'
      BY <2>1 DEF IInv, MapsAgree, ToldCached, Informed, Interface!Informed
    <2> QED BY <2>1, <2>2, <2>3, <2>4 DEF Sound
  <1>7. CASE ProcNotify
    <2>0. Receive("notify") /\ TouchesNone
      BY <1>7 DEF ProcNotify, maps, TouchesNone
    <2>1. MsgsOK' /\ Fresh'
      BY <2>0, ReceiveKeepsMsgs
    <2> QED BY <1>7, <2>1, NotifySound
  <1> QED BY <1>1, <1>2, <1>3, <1>4, <1>5, <1>6, <1>7 DEF Proc

\* What is outside the queue does not change when something is posted.
LEMMA QuietKeepsSound ==
  ASSUME IInv, UNCHANGED <<source, maps, cache, told, subscribed>>
  PROVE  Sound' /\ UNCHANGED <<listOf, cache, told>>
  BY DEF IInv, Sound, MapsAgree, Served, ToldCached, Informed, Interface!Informed, listOf, maps

LEMMA PostInv ==
  ASSUME ~Resubscribe, IInv, Next, ~Proc
  PROVE  Sound' /\ MsgsOK' /\ Fresh' /\ UNCHANGED <<listOf, cache, told>>
  <1>1. ASSUME NEW type \in RequestTypes, NEW c \in Clients, NEW S \in SUBSET Items,
               Post(type, c, S), type = "requestData" => S \subseteq Requestable,
               type = "update" => Holds(c) = {}
        PROVE  Sound' /\ MsgsOK' /\ Fresh' /\ UNCHANGED <<listOf, cache, told>>
    BY <1>1, PostKeepsMsgs, QuietKeepsSound DEF Post, framework
  <1>2. ASSUME NEW c \in Clients, NEW S \in SUBSET Items,
               Subscribe(c, S) \/ RequestData(c, S) \/ UpdateSubscription(c, S)
                 \/ Unsubscribe(c, S) \/ UnsubscribeAll(c)
        PROVE  Sound' /\ MsgsOK' /\ Fresh' /\ UNCHANGED <<listOf, cache, told>>
    BY <1>1, <1>2 DEF Subscribe, RequestData, UpdateSubscription, Unsubscribe, UnsubscribeAll,
                      RequestTypes
  <1>3. CASE SetSubscriptionObj
    <2>1. [type |-> "source"] \in Message
      BY DEF Message
    <2> QED BY <1>3, <2>1, OtherKeepsMsgs, QuietKeepsSound DEF SetSubscriptionObj, maps, framework
  <1>4. ASSUME NEW S \in SUBSET Items, NEW v \in [S -> Values], Notify(S, v)
        PROVE  Sound' /\ MsgsOK' /\ Fresh' /\ UNCHANGED <<listOf, cache, told>>
    <2>1. [type |-> "notify", values |-> v] \in Message
      BY DEF Message, Reports
    <2> QED BY <1>4, <2>1, OtherKeepsMsgs, QuietKeepsSound DEF Notify, maps
  <1> QED BY <1>2, <1>3, <1>4 DEF Next, Call

LEMMA NextInv ==
  ASSUME ~Resubscribe, IInv, [Next]_vars PROVE IInv' /\ [Interface!Next]_(Interface!vars)
  <1>1. TypeOK'
    BY TypeInv DEF IInv
  <1>2. CASE Proc
    BY <1>1, <1>2, ProcInv DEF IInv, Sound, Interface!vars
  <1>3. CASE Next /\ ~Proc
    BY <1>1, <1>3, PostInv DEF IInv, Sound, Interface!vars
  <1>4. CASE UNCHANGED vars
    <2>1. MsgsOK' /\ Fresh'
      BY <1>4 DEF IInv, MsgsOK, RequestOK, Fresh, vars, maps
    <2>2. Sound' /\ UNCHANGED <<listOf, cache, told>>
      BY <1>4, QuietKeepsSound DEF vars, framework
    <2> QED BY <1>1, <2>1, <2>2 DEF IInv, Sound, Interface!vars
  <1> QED BY <1>2, <1>3, <1>4

LEMMA InitInv == Init => IInv /\ Interface!Init
  <1> SUFFICES ASSUME Init PROVE IInv /\ Interface!Init
    OBVIOUS
  <1>1. Len(msgs) = 0
    BY EmptySeq DEF Init
  <1>2. MsgsOK /\ Fresh
    BY <1>1 DEF MsgsOK, Fresh
  <1>3. MapsAgree /\ Served /\ ToldCached /\ Informed
    BY DEF Init, MapsAgree, Served, ToldCached, Informed, Interface!Informed, listOf
  <1>4. Interface!Init
    BY DEF Init, Interface!Init, listOf
  <1> QED BY <1>2, <1>3, <1>4, InitTyped DEF IInv

LEMMA Inductive ==
  ASSUME ~Resubscribe PROVE Spec => []IInv
  <1>1. IInv /\ [Next]_vars => IInv'
    BY NextInv
  <1> QED BY <1>1, InitInv, PTL DEF Spec

\* For any clients and items: the framework is subscribed for every item with a client, unless
\* the item is one of those that are merely requested.
THEOREM FrameworkServes ==
  ASSUME ~Resubscribe PROVE Spec => []Served
  <1>1. IInv => Served
    BY DEF IInv
  <1> QED BY <1>1, Inductive, PTL

\* Whatever the order of calls and reports, a client knows the last value of what is on its list.
THEOREM ClientsInformed ==
  ASSUME ~Resubscribe PROVE Spec => []Informed
  <1>1. IInv => Informed
    BY DEF IInv
  <1> QED BY <1>1, Inductive, PTL

\* The observer implements the interface of IDataItemSubscription, as long as nobody updates a
\* subscription it has.
THEOREM ObserverImplements ==
  ASSUME ~Resubscribe PROVE Spec => SubscriptionsSpec
  <1>1. IInv /\ [Next]_vars => [Interface!Next]_(Interface!vars)
    BY NextInv
  <1>2. Init => Interface!Init
    BY InitInv
  <1> QED BY <1>1, <1>2, Inductive, PTL DEF Spec, SubscriptionsSpec, Interface!Spec
=============================================================================
