---------------------------- MODULE OsObserver -----------------------------
(***************************************************************************)
(* The framework observer of the location stack: SystemStatusOsObserver.   *)
(*                                                                         *)
(* Clients ask for data items (network, time zone, cell ...) from any      *)
(* thread; every call becomes a message of one MsgTask, whose thread keeps *)
(* two LocUnorderedSetMaps that should be each other's inverse,            *)
(* mClientToDataItems and mDataItemToClients, subscribes with the          *)
(* framework for an item when its first client comes and unsubscribes when *)
(* the last one goes, and hands on what the framework reports. The         *)
(* framework's own subscription object comes later than the first clients. *)
(*                                                                         *)
(* SystemStatus and mDataItemCache hold the same last value of an item; a  *)
(* value that is the last one again goes no further. The maps hold no      *)
(* empty set, so that a client or an item without entry has the empty one. *)
(* turnOn and turnOff, which nothing in the repository calls, are left out.*)
(***************************************************************************)
EXTENDS Integers, Sequences, FiniteSets

CONSTANTS
    Clients, Items, Values,
    Absent,         \* the value of an item that nobody has reported
    Requestable,    \* the items that clients only ask the value of, with requestData
    Subscribable,   \* the items that clients subscribe for
    Direct,         \* the items reported without a subscription (eventConnectionStatus)
    Resubscribe,    \* a client with a subscription may update it
    MaxBacklog,     \* bound: messages in the queue when a client or the framework calls
    MaxCalls,       \* bound: calls of clients
    MaxReports      \* bound: values reported by the framework

ASSUME ObserverAssumption ==
    /\ Absent \notin Values
    /\ {Requestable, Subscribable, Direct} \subseteq SUBSET Items
    /\ Resubscribe \in BOOLEAN
    /\ {MaxBacklog, MaxCalls, MaxReports} \subseteq Nat

VARIABLES
    msgs,           \* the messages of mMsgTask
    source,         \* mSubscriptionObj is set
    offered,        \* setSubscriptionObj has been called
    clientItems,    \* mClientToDataItems
    itemClients,    \* mDataItemToClients
    cache,          \* mDataItemCache: the last value of each item
    subscribed,     \* framework: the items subscribed for
    asked,          \* framework: the items whose value is requested
    told,           \* clients: the value of each item each was told last
    calls, reports  \* calls and reports so far

maps == <<clientItems, itemClients>>
framework == <<subscribed, asked>>
used == <<calls, reports>>
vars == <<msgs, source, offered, maps, cache, framework, told, used>>

Init ==
    /\ msgs = << >>
    /\ source = FALSE /\ offered = FALSE
    /\ clientItems = [c \in Clients |-> {}]
    /\ itemClients = [i \in Items |-> {}]
    /\ cache = [i \in Items |-> Absent]
    /\ subscribed = {} /\ asked = {}
    /\ told = [c \in Clients |-> [i \in Items |-> Absent]]
    /\ calls = 0 /\ reports = 0

-----------------------------------------------------------------------------
(* The calls: each posts a message.                                        *)

Room == Len(msgs) < MaxBacklog

\* type is "subscribe", "requestData", "update", "unsubscribe" or "unsubscribeAll".
Request(type, c, S) == [type |-> type, client |-> c, items |-> S]

Post(type, c, S) ==
    /\ Room /\ calls < MaxCalls /\ S # {}
    /\ calls' = calls + 1
    /\ msgs' = Append(msgs, Request(type, c, S))
    /\ UNCHANGED <<source, offered, maps, cache, framework, told, reports>>

\* Items a client has, or will have once its messages are handled.
Holds(c) == clientItems[c] \union UNION {msgs[n].items : n \in
               {n \in DOMAIN msgs : msgs[n].type \notin {"source", "notify"} /\ msgs[n].client = c}}

Subscribe(c, S) == S \subseteq Subscribable /\ Post("subscribe", c, S)
RequestData(c, S) == S \subseteq Requestable /\ Post("requestData", c, S)
UpdateSubscription(c, S) ==
    /\ S \subseteq Subscribable /\ (Resubscribe \/ Holds(c) = {})
    /\ Post("update", c, S)
Unsubscribe(c, S) == Post("unsubscribe", c, S)
UnsubscribeAll(c) == Post("unsubscribeAll", c, Items)

\* setSubscriptionObj
SetSubscriptionObj ==
    /\ ~offered /\ offered' = TRUE
    /\ msgs' = Append(msgs, [type |-> "source"])
    /\ UNCHANGED <<source, maps, cache, framework, told, used>>

-----------------------------------------------------------------------------
(* The maps: LocUnorderedSetMap.                                           *)

\* add(keys, newVals, newKeys): the items that had no clients become new keys.
WithClient(m, S, c) == [i \in Items |-> IF i \in S THEN m[i] \union {c} ELSE m[i]]
NewKeys(m, S) == {i \in S : m[i] = {}}

\* trimOrRemove(keys, rVals, goneKeys): the entries left empty are removed. goneKeys is filled
\* from the removed entry, which is freed by then: a key may be lost to whoever reuses the memory.
WithoutClient(m, S, c) == [i \in Items |-> IF i \in S THEN m[i] \ {c} ELSE m[i]]
GoneKeys(m, S, c) == {i \in S : m[i] = {c}}

\* update(key, newVals): by its comment the values removed; in fact those that stay.
UpdateReturns(c, S) == clientItems[c] \intersect S

-----------------------------------------------------------------------------
(* The thread of the MsgTask.                                              *)

Receive(type) ==
    /\ msgs # << >> /\ Head(msgs).type = type
    /\ msgs' = Tail(msgs)

\* sendCachedDataItems
Tell(c, S) ==
    [told EXCEPT ![c] = [i \in Items |-> IF i \in S /\ cache[i] # Absent
                                         THEN cache[i] ELSE told[c][i]]]

AddItemsUntold(c, S) ==
    /\ itemClients' = WithClient(itemClients, S, c)
    /\ clientItems' = [clientItems EXCEPT ![c] = clientItems[c] \union S]
    /\ UNCHANGED told

\* HandleSubscribeReq, with mToRequestData and without: the maps do not tell them apart.
AddItems(c, S) ==
    /\ itemClients' = WithClient(itemClients, S, c)
    /\ clientItems' = [clientItems EXCEPT ![c] = clientItems[c] \union S]
    /\ told' = Tell(c, S)

ProcSubscribe ==
    /\ Receive("subscribe")
    /\ LET c == Head(msgs).client
           S == Head(msgs).items
       IN /\ AddItems(c, S)
          /\ subscribed' = IF source THEN subscribed \union NewKeys(itemClients, S) ELSE subscribed
    /\ UNCHANGED <<source, offered, cache, asked, used>>

ProcRequestData ==
    /\ Receive("requestData")
    /\ LET c == Head(msgs).client
           S == Head(msgs).items
       IN /\ AddItems(c, S)
          /\ asked' = IF source THEN asked \union S ELSE asked
    /\ UNCHANGED <<source, offered, cache, subscribed, used>>

\* HandleUpdateSubscriptionReq: takes the client out of the entries that update returns, then
\* adds it to those of the items that update left in the list.
ProcUpdate ==
    /\ Receive("update")
    /\ LET c == Head(msgs).client
           S == Head(msgs).items
           returned == UpdateReturns(c, S)
           fresh == S \ clientItems[c]
           trimmed == WithoutClient(itemClients, returned, c)
       IN /\ clientItems' = [clientItems EXCEPT ![c] = S]
          /\ itemClients' = WithClient(trimmed, fresh, c)
          /\ told' = Tell(c, fresh)
          /\ \E gone \in SUBSET GoneKeys(itemClients, returned, c) :
                subscribed' = IF source THEN (subscribed \union NewKeys(trimmed, fresh)) \ gone
                              ELSE subscribed
    /\ UNCHANGED <<source, offered, cache, asked, used>>

DropForAll(c, S) ==
    LET unused == clientItems[c] \intersect S
    IN /\ clientItems' = [clientItems EXCEPT ![c] = clientItems[c] \ S]
       /\ itemClients' = WithoutClient(itemClients, unused, c)
       /\ subscribed' = IF source THEN subscribed \ unused ELSE subscribed

\* Takes items off a client's list, and unsubscribes from those that had no other client.
DropItems(c, S) ==
    LET unused == clientItems[c] \intersect S
    IN /\ clientItems' = [clientItems EXCEPT ![c] = clientItems[c] \ S]
       /\ itemClients' = WithoutClient(itemClients, unused, c)
       /\ \E gone \in SUBSET GoneKeys(itemClients, unused, c) :
             subscribed' = IF source THEN subscribed \ gone ELSE subscribed

ProcUnsubscribe ==
    /\ Receive("unsubscribe")
    /\ DropItems(Head(msgs).client, Head(msgs).items)
    /\ UNCHANGED <<source, offered, cache, asked, told, used>>

ProcUnsubscribeAllOneMap ==
    /\ Receive("unsubscribeAll")
    /\ clientItems' = [clientItems EXCEPT ![Head(msgs).client] = {}]
    /\ UNCHANGED <<source, offered, itemClients, cache, framework, told, used>>

\* HandleUnsubscribeAllReq
ProcUnsubscribeAll ==
    /\ Receive("unsubscribeAll")
    /\ DropItems(Head(msgs).client, clientItems[Head(msgs).client])
    /\ UNCHANGED <<source, offered, cache, asked, told, used>>

\* SetSubsObj: subscribes for, and asks the value of, every item that has clients.
ProcSource ==
    /\ Receive("source")
    /\ source' = TRUE
    /\ LET keys == {i \in Items : itemClients[i] # {}}
       IN subscribed' = subscribed \union keys /\ asked' = asked \union keys
    /\ UNCHANGED <<offered, maps, cache, told, used>>

\* updateCache, for every item of a report
Changed(v) == {i \in DOMAIN v : v[i] # cache[i]}

\* HandleNotify: the clients of the items that changed are told those of their items that did.
ProcNotify ==
    /\ Receive("notify")
    /\ LET v == Head(msgs).values
           clients == UNION {itemClients[i] : i \in Changed(v)}
       IN /\ cache' = [i \in Items |-> IF i \in DOMAIN v THEN v[i] ELSE cache[i]]
          /\ told' = [c \in Clients |-> [i \in Items |->
                         IF c \in clients /\ i \in clientItems[c] \intersect Changed(v)
                         THEN v[i] ELSE told[c][i]]]
    /\ UNCHANGED <<source, offered, maps, framework, used>>

Proc ==
    \/ ProcSubscribe \/ ProcRequestData \/ ProcUpdate
    \/ ProcUnsubscribe \/ ProcUnsubscribeAll \/ ProcSource \/ ProcNotify

-----------------------------------------------------------------------------
(* The framework, through notify.                                          *)

\* It reports the items subscribed for, those asked for, and a connection by itself.
Notify(S, v) ==
    /\ Room /\ reports < MaxReports /\ S # {}
    /\ S \subseteq subscribed \union asked \union Direct
    /\ asked' = asked \ S
    /\ reports' = reports + 1
    /\ msgs' = Append(msgs, [type |-> "notify", values |-> v])
    /\ UNCHANGED <<source, offered, maps, cache, subscribed, told, calls>>

Call ==
    \/ \E c \in Clients, S \in SUBSET Items :
          Subscribe(c, S) \/ RequestData(c, S) \/ UpdateSubscription(c, S) \/ Unsubscribe(c, S)
    \/ \E c \in Clients : UnsubscribeAll(c)
    \/ SetSubscriptionObj

Next ==
    \/ Call
    \/ Proc
    \/ \E S \in SUBSET Items : \E v \in [S -> Values] : Notify(S, v)

Spec == Init /\ [][Next]_vars

-----------------------------------------------------------------------------

ClientRequests ==
    [type : {"subscribe", "requestData", "update", "unsubscribe", "unsubscribeAll"},
     client : Clients, items : SUBSET Items]
Reports == [type : {"notify"}, values : UNION {[S -> Values] : S \in SUBSET Items}]

\* The types of the queue, the maps and what framework and clients know.
TypeOK ==
    /\ msgs \in Seq(ClientRequests \union Reports \union [type : {"source"}])
    /\ source \in BOOLEAN /\ offered \in BOOLEAN
    /\ clientItems \in [Clients -> SUBSET Items]
    /\ itemClients \in [Items -> SUBSET Clients]
    /\ cache \in [Items -> Values \union {Absent}]
    /\ subscribed \subseteq Items /\ asked \subseteq Items
    /\ told \in [Clients -> [Items -> Values \union {Absent}]]
    /\ calls \in Nat /\ reports \in Nat

\* The two maps are each other's inverse.
MapsAgree == \A c \in Clients, i \in Items : i \in clientItems[c] <=> c \in itemClients[i]

\* Once the framework has given its subscription object, it is subscribed for every item that
\* has a client; requestData subscribes for nothing, and so for no item it was the first to ask.
Served ==
    source => \A i \in Items \ Requestable : itemClients[i] # {} => i \in subscribed

-----------------------------------------------------------------------------
(* The interface this implements: a client is on the list of an item that  *)
(* has it in mDataItemToClients.                                           *)

listOf == [c \in Clients |-> {i \in Items : c \in itemClients[i]}]

Interface == INSTANCE Subscriptions WITH list <- listOf

\* The lists change as IDataItemSubscription documents, and who is on one is told.
SubscriptionsSpec == Interface!Spec

\* Whatever the order of calls and reports, a client knows the last value of every item it is
\* on the list of.
Informed == Interface!Informed
=============================================================================
