---------------------------- MODULE LocationApi -----------------------------
(***************************************************************************)
(* The registry of clients, gps/location/LocationAPI.cpp: one LocationAPI  *)
(* object per client, made by createInstance and deleted once every        *)
(* adapter has removed it. The adapters' libraries are loaded when the     *)
(* first client needs them. All of it is under one mutex (gDataMutex); the *)
(* adapters do what they are told later, on their message thread, and tell *)
(* the registry from there that a client is removed.                       *)
(*                                                                         *)
(* The adapters share the thread and its queue. Nothing depends on the     *)
(* order of messages for two adapters, so each has a queue of its own here. *)
(*                                                                         *)
(* A client is a LocationAPIClientBase: it destroys its LocationAPI once,  *)
(* does not use it after that, and always gives a completion callback.     *)
(***************************************************************************)
EXTENDS Naturals, Sequences, FiniteSets

CONSTANTS
    Clients,        \* LocationAPI objects
    Loadable,       \* the adapters whose libraries can be loaded
    Menu,           \* the sets of adapters a client's callbacks may ask for
    MaxBacklog,     \* bound: messages in a queue when a client calls
    MaxUpdates,     \* bound: calls of updateCallbacks
    MaxOpens        \* bound: engine-up events of an adapter

Kinds == {"gnss", "batching", "geofence"}

ASSUME LocationApiAssumption ==
    /\ IsFiniteSet(Clients)
    /\ Loadable \subseteq Kinds
    /\ Menu \subseteq SUBSET Kinds
    /\ {MaxBacklog, MaxUpdates, MaxOpens} \subseteq Nat

VARIABLES
    loaded,         \* gnssInterface, batchingInterface, geofenceInterface
    failed,         \* gGnssLoadFailed, gBatchingLoadFailed, gGeofenceLoadFailed
    clientData,     \* gData.clientData
    destroyData,    \* gData.destroyClientData: the adapters each client waits for
    refs,           \* gOSFrameworkRefCount
    framework,      \* the OS framework object exists
    object,         \* what became of each LocationAPI
    msgs,           \* the messages for each adapter
    known,          \* mClientData of each adapter
    capsKnown,      \* mIsEngineCapabilitiesKnown of each adapter
    contextKnown,   \* ContextBase::sIsEngineCapabilitiesKnown
    pending,        \* mPendingMsgs of each adapter: clients that ask
    told,           \* clients whose capabilitiesCb has been called
    used            \* the bounded events so far

registry == <<loaded, failed, clientData, destroyData, refs, framework, object>>
adapters == <<msgs, known, capsKnown, contextKnown, pending, told>>
vars == <<registry, adapters, used>>

Init ==
    /\ loaded = {} /\ failed = {}
    /\ clientData = {} /\ destroyData = [c \in Clients |-> {}]
    /\ refs = 0 /\ framework = FALSE
    /\ object = [c \in Clients |-> "none"]
    /\ msgs = [k \in Kinds |-> << >>]
    /\ known = [k \in Kinds |-> {}]
    /\ capsKnown = [k \in Kinds |-> FALSE] /\ contextKnown = FALSE
    /\ pending = [k \in Kinds |-> << >>]
    /\ told = {}
    /\ used = [updates |-> 0, opens |-> [k \in Kinds |-> 0]]

-----------------------------------------------------------------------------
(* The callers, each under gDataMutex.                                     *)

Room == \A k \in Kinds : Len(msgs[k]) < MaxBacklog

Message(op, c) == [op |-> op, client |-> c]

\* The adapters that ks asks for and that are there, now that those missing have
\* been loaded. A library that could not be loaded is not tried again.
Loads(ks) == loaded \cup (ks \cap Loadable)
Served(ks) == ks \cap Loads(ks)

Load(ks) ==
    /\ loaded' = Loads(ks)
    /\ failed' = failed \cup (ks \ Loads(ks))
    /\ capsKnown' = [k \in Kinds |-> IF k \in Loads(ks) \ loaded THEN contextKnown
                                                                 ELSE capsKnown[k]]

\* requestCapabilities goes to the first of these adapters only.
First(ks) ==
    CASE "gnss" \in ks -> "gnss"
      [] "gnss" \notin ks /\ "batching" \in ks -> "batching"
      [] OTHER -> "geofence"

Post(k, new) == msgs[k] \o new

\* createInstance
CreateInstance(c, ks) ==
    /\ object[c] = "none" /\ Room
    /\ object' = [object EXCEPT ![c] = "live"]
    /\ refs' = refs + 1
    /\ framework' = (framework \/ refs' = 1)
    /\ Load(ks)
    /\ msgs' = [k \in Kinds |->
                   IF k \notin Served(ks) THEN msgs[k]
                   ELSE IF k = First(Served(ks))
                   THEN Post(k, <<Message("add", c), Message("capabilities", c)>>)
                   ELSE Post(k, <<Message("add", c)>>)]
    /\ clientData' = clientData \cup {c}
    /\ UNCHANGED <<destroyData, known, contextKnown, pending, told, used>>

\* updateCallbacks
UpdateCallbacks(c, ks) ==
    /\ c \in clientData /\ Room
    /\ used.updates < MaxUpdates
    /\ used' = [used EXCEPT !.updates = @ + 1]
    /\ Load(ks)
    /\ msgs' = [k \in Kinds |-> IF k \in Served(ks) THEN Post(k, <<Message("add", c)>>)
                                                    ELSE msgs[k]]
    /\ UNCHANGED <<clientData, destroyData, refs, framework, object,
                   known, contextKnown, pending, told>>

\* The adapters whose removals destroy waits for.
AwaitedGnss == loaded \cap {"gnss"}

Awaited == loaded

\* The framework's object goes with the last reference.
LastReference == refs = 1

\* destroy: the client is removed from every adapter there is. The object is
\* deleted at once if there is none.
Destroy(c) ==
    /\ c \in clientData /\ Room
    /\ destroyData' = [destroyData EXCEPT ![c] = Awaited]
    /\ msgs' = [k \in Kinds |-> IF k \in loaded THEN Post(k, <<Message("remove", c)>>)
                                                ELSE msgs[k]]
    /\ clientData' = clientData \ {c}
    /\ object' = [object EXCEPT ![c] = IF loaded = {} THEN "deleted" ELSE @]
    /\ framework' = (framework /\ ~LastReference)
    /\ refs' = refs - 1
    /\ UNCHANGED <<loaded, failed, known, capsKnown, contextKnown, pending, told, used>>

-----------------------------------------------------------------------------
(* The adapters' thread.                                                   *)

Receive(k, op) ==
    /\ msgs[k] # << >> /\ Head(msgs[k]).op = op
    /\ msgs' = [msgs EXCEPT ![k] = Tail(@)]

\* MsgAddClient
ProcAddClient(k) ==
    /\ Receive(k, "add")
    /\ known' = [known EXCEPT ![k] = @ \cup {Head(msgs[k]).client}]
    /\ UNCHANGED <<registry, capsKnown, contextKnown, pending, told, used>>

\* onRemoveClientCompleteCb, when the adapter of kind k has removed c.
OnRemoveClientComplete(c, k) ==
    LET wait == destroyData[c] \ {k} IN
    /\ destroyData' = [destroyData EXCEPT ![c] = wait]
    /\ object' = [object EXCEPT ![c] = IF destroyData[c] # {} /\ wait = {} THEN "deleted"
                                                                          ELSE @]

\* MsgRemoveClient for a client the adapter never had: nobody is told.
ProcRemoveKnownClient(k) ==
    /\ Receive(k, "remove")
    /\ LET c == Head(msgs[k]).client IN
       /\ known' = [known EXCEPT ![k] = @ \ {c}]
       /\ IF c \in known[k] THEN OnRemoveClientComplete(c, k)
                            ELSE UNCHANGED <<destroyData, object>>
    /\ UNCHANGED <<loaded, failed, clientData, refs, framework,
                   capsKnown, contextKnown, pending, told, used>>

\* MsgRemoveClient
ProcRemoveClient(k) ==
    /\ Receive(k, "remove")
    /\ LET c == Head(msgs[k]).client IN
       /\ known' = [known EXCEPT ![k] = @ \ {c}]
       /\ OnRemoveClientComplete(c, k)
    /\ UNCHANGED <<loaded, failed, clientData, refs, framework,
                   capsKnown, contextKnown, pending, told, used>>

\* MsgRequestCapabilities: held until the adapter knows them.
ProcRequestCapabilities(k) ==
    /\ Receive(k, "capabilities")
    /\ LET c == Head(msgs[k]).client IN
       IF capsKnown[k]
       THEN /\ told' = IF c \in known[k] THEN told \cup {c} ELSE told
            /\ UNCHANGED pending
       ELSE /\ pending' = [pending EXCEPT ![k] = Append(@, c)]
            /\ UNCHANGED told
    /\ UNCHANGED <<registry, known, capsKnown, contextKnown, used>>

\* What is left of the messages held once they are sent again: only the batching
\* adapter clears its list.
Kept(k) == IF k = "batching" THEN << >> ELSE pending[k]

Resent(k) == [i \in DOMAIN pending[k] |-> Message("capabilities", pending[k][i])]

ProcEngineUpUnknown(k) ==
    /\ msgs[k] # << >> /\ Head(msgs[k]).op = "engineUp"
    /\ msgs' = [msgs EXCEPT ![k] = Tail(@) \o Resent(k)]
    /\ told' = told \cup known[k]
    /\ pending' = [pending EXCEPT ![k] = Kept(k)]
    /\ UNCHANGED <<registry, known, capsKnown, contextKnown, used>>

\* MsgSSREvent: every client is told, and what was held is sent again.
ProcEngineUp(k) ==
    /\ msgs[k] # << >> /\ Head(msgs[k]).op = "engineUp"
    /\ msgs' = [msgs EXCEPT ![k] = Tail(@) \o Resent(k)]
    /\ capsKnown' = [capsKnown EXCEPT ![k] = TRUE]
    /\ told' = told \cup known[k]
    /\ pending' = [pending EXCEPT ![k] = Kept(k)]
    /\ UNCHANGED <<registry, known, contextKnown, used>>

Proc(k) ==
    \/ ProcAddClient(k) \/ ProcRemoveClient(k)
    \/ ProcRequestCapabilities(k) \/ ProcEngineUp(k)

\* The LocApi opens the modem for an adapter that has joined it, or again after the
\* modem has restarted.
Open(k) ==
    /\ k \in loaded /\ used.opens[k] < MaxOpens
    /\ used' = [used EXCEPT !.opens[k] = @ + 1]
    /\ contextKnown' = TRUE
    /\ msgs' = [msgs EXCEPT ![k] = Append(@, [op |-> "engineUp"])]
    /\ UNCHANGED <<registry, known, capsKnown, pending, told>>

Calls ==
    \E c \in Clients :
        \/ \E ks \in Menu : CreateInstance(c, ks) \/ UpdateCallbacks(c, ks)
        \/ Destroy(c)

Next == Calls \/ \E k \in Kinds : Proc(k) \/ Open(k)

Spec == Init /\ [][Next]_vars

\* The message thread keeps running and so does the LocApi's: an adapter that has
\* joined it has the modem opened for it.
FairSpec ==
    /\ Spec
    /\ \A k \in Kinds : WF_vars(Proc(k))
    /\ \A k \in Kinds : WF_vars(Open(k))

-----------------------------------------------------------------------------
(* Properties.                                                             *)

Messages == [op : {"add", "remove", "capabilities"}, client : Clients] \cup [op : {"engineUp"}]

\* The registry and the adapters hold what the threads expect of them.
TypeOK ==
    /\ loaded \subseteq Loadable /\ failed \subseteq Kinds \ Loadable
    /\ clientData \subseteq Clients
    /\ destroyData \in [Clients -> SUBSET Kinds]
    /\ refs \in Nat /\ framework \in BOOLEAN
    /\ object \in [Clients -> {"none", "live", "deleted"}]
    /\ msgs \in [Kinds -> Seq(Messages)]
    /\ known \in [Kinds -> SUBSET Clients]
    /\ capsKnown \in [Kinds -> BOOLEAN] /\ contextKnown \in BOOLEAN
    /\ pending \in [Kinds -> Seq(Clients)]
    /\ told \subseteq Clients

\* A message that makes the adapter remember client c, or tell the registry of it.
Concerns(m, c) == m.op \in {"add", "remove"} /\ m.client = c

\* A deleted client is remembered by no adapter and on its way to none, whichever
\* adapters were loaded since it was made: nobody calls its callbacks any more, and
\* a new client at its address is not taken for it.
DestroyedIsForgotten ==
    \A c \in Clients : object[c] = "deleted" =>
        \A k \in Kinds : /\ c \notin known[k]
                         /\ \A i \in DOMAIN msgs[k] : ~Concerns(msgs[k][i], c)

\* The framework's object is there exactly while some client is.
FrameworkFollowsClients == framework <=> clientData # {}

\* A client that calls destroy is deleted in the end: the adapters that were never
\* told of it acknowledge its removal like the others.
DestroyEnds ==
    \A c \in Clients : (object[c] = "live" /\ c \notin clientData) ~> object[c] = "deleted"

\* A client is given its capabilities, whether the adapter it asks knew them when it
\* was loaded, learns them before the client is added, or holds its request.
CapabilitiesTold ==
    \A c \in Clients : c \in clientData ~> c \in told \/ c \notin clientData

=============================================================================
