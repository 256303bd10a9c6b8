-------------------------------- MODULE Agps --------------------------------
(***************************************************************************)
(* The AGPS data-connection state machines of the GNSS adapter             *)
(* (gps/gnss/Agps.cpp, Agps.h) together with the three parties around      *)
(* them:                                                                   *)
(*                                                                         *)
(*   - the modem, which opens and closes "ATL" handles and is told the     *)
(*     outcome through LocApi::atlOpenStatus / atlCloseStatus;             *)
(*   - the connectivity framework behind the AGNSS state machine (HIDL     *)
(*     IAGnss), which is asked for a data connection and answers later;    *)
(*   - NativeAgpsHandler behind the INTERNET state machine, which answers  *)
(*     inside the call by posting a message to the adapter.                *)
(*                                                                         *)
(* Every input of the state machines is a message of the adapter's queue   *)
(* (one thread), except the direct call GnssAdapter::dataConnOpenCommand   *)
(* makes when the APN is too long.                                         *)
(*                                                                         *)
(* The APN, the bearer, the AGPS type tag and the APN type mask are data   *)
(* the state machines only copy; they are left out.                        *)
(***************************************************************************)
EXTENDS Naturals, Sequences

CONSTANTS
    Handles,  \* ATL connection handles of the modem
    Worlds    \* the surroundings the machines may find themselves in:
              \*   lookup   libloc_api_wds.so is installed: GRANTED waits for a PDN lookup
              \*   longApn  the APN reported with an open connection may be too long
              \*   echoes   the framework also answers a release of no connection
              \*   backlog  bound: messages, calls and lookups pending when the modem
              \*            opens a handle

ASSUME AgpsAssumption ==
    Worlds \subseteq [lookup : BOOLEAN, longApn : BOOLEAN, echoes : BOOLEAN, backlog : Nat]

Nifs == {"AGNSS", "INTERNET"}
States == {"RELEASED", "PENDING", "ACQUIRED", "RELEASING"}

\* LocMsg objects the adapter's queue carries for AgpsManager.
Messages ==
         [type : {"RequestATL"}, handle : Handles, nif : Nifs]
    \cup [type : {"ReleaseATL"}, handle : Handles]
    \cup [type : {"OpenSuccess", "PdnType", "OpenFailed", "Closed"}, nif : Nifs]

VARIABLES
    world,     \* the surroundings, the same for ever
    created,   \* state machines that createAgpsStateMachines has built
    mState,    \* AgpsStateMachine::mState
    subs,      \* mSubscriberList: handle -> "none", "active" or "inactive" (mIsInactive)
    msgs,      \* the adapter's message queue
    inbox,     \* calls of agnssStatusCb the framework has not handled yet
    conn,      \* the framework's AGNSS data connection
    connected, \* NativeAgpsHandler::mConnected
    wds,       \* state machines -> PDN lookups under way
    atl        \* the modem's view of each handle

vars == <<world, created, mState, subs, msgs, inbox, conn, connected, wds, atl>>
external == <<conn, connected>>

Init ==
    /\ world \in Worlds
    /\ created = {}
    /\ mState = [n \in Nifs |-> "RELEASED"]
    /\ subs = [n \in Nifs |-> [h \in Handles |-> "none"]]
    /\ msgs = << >>
    /\ inbox = << >>
    /\ conn = "down"
    /\ connected \in BOOLEAN
    /\ wds = [n \in Nifs |-> 0]
    /\ atl = [h \in Handles |-> "idle"]

-----------------------------------------------------------------------------
(* Subscribers.                                                            *)

Subscribers(n) == {h \in Handles : subs[n][h] # "none"}
InactiveSubscribers(n) == {h \in Handles : subs[n][h] = "inactive"}
ActiveSubscribers(n) == {h \in Handles : subs[n][h] = "active"}

\* A subscriber already in the list keeps its entry, inactive or not.
AddSubscriber(n, h) ==
    IF subs[n][h] = "none" THEN [subs EXCEPT ![n][h] = "active"] ELSE subs

DropSubscribers(n, S) ==
    [subs EXCEPT ![n] = [h \in Handles |-> IF h \in S THEN "none" ELSE @[h]]]

\* notifyEventToSubscriber for the subscribers S: what the modem is told.
NotifyGranted(S) ==
    [h \in Handles |-> IF h \in S /\ atl[h] = "opening" THEN "open" ELSE atl[h]]
NotifyDeniedOrReleased(S) ==
    [h \in Handles |-> IF h \in S THEN "idle" ELSE atl[h]]

-----------------------------------------------------------------------------
(* Asking for, and giving back, the data connection.  q is the adapter's   *)
(* queue once the message being handled is off it.                         *)

\* NativeAgpsHandler::processATLRequestRelease: posts its answer at once.  A
\* too long APN turns the answer into a RELEASED event that comes while the
\* state machine is in RELEASED or PENDING, where it changes nothing.
NativeAnswers(request) ==
    IF ~request THEN {<<[type |-> "Closed", nif |-> "INTERNET"]>>}
    ELSE IF ~connected THEN {<<[type |-> "OpenFailed", nif |-> "INTERNET"]>>}
    ELSE {<<[type |-> "OpenSuccess", nif |-> "INTERNET"]>>}
         \cup (IF world.longApn THEN {<< >>} ELSE {})

RequestOrReleaseDataConn(n, request, q) ==
    \/ /\ n = "AGNSS"
       /\ inbox' = Append(inbox, IF request THEN "request" ELSE "release")
       /\ msgs' = q
    \/ /\ n = "INTERNET"
       /\ \E answer \in NativeAnswers(request) : msgs' = q \o answer
       /\ UNCHANGED inbox

NoDataConnCall(q) == msgs' = q /\ UNCHANGED inbox

-----------------------------------------------------------------------------
(* Events of one state machine.                                            *)

ProcessAgpsEventSubscribe(n, h, q) ==
    /\ subs' = AddSubscriber(n, h)
    /\ IF mState[n] = "RELEASED"
       THEN /\ RequestOrReleaseDataConn(n, TRUE, q)
            /\ mState' = [mState EXCEPT ![n] = "PENDING"]
       ELSE NoDataConnCall(q) /\ UNCHANGED mState
    /\ atl' = IF mState[n] = "ACQUIRED" THEN NotifyGranted({h}) ELSE atl

\* Every subscriber waits for the close to complete (requestATL), so it goes
\* inactive; the last active one starts the release.
ProcessAgpsEventUnsubscribe(n, h, q) ==
    /\ IF mState[n] = "RELEASED"
       THEN UNCHANGED subs /\ atl' = NotifyDeniedOrReleased({h})
       ELSE subs' = [subs EXCEPT ![n][h] = "inactive"] /\ UNCHANGED atl
    /\ IF mState[n] \in {"PENDING", "ACQUIRED"} /\ ActiveSubscribers(n) \subseteq {h}
       THEN /\ mState' = [mState EXCEPT ![n] = "RELEASING"]
            /\ RequestOrReleaseDataConn(n, FALSE, q)
       ELSE NoDataConnCall(q) /\ UNCHANGED mState

ProcessAgpsEventGranted(n, q) ==
    /\ IF mState[n] = "PENDING"
       THEN /\ mState' = [mState EXCEPT ![n] = "ACQUIRED"]
            /\ atl' = NotifyGranted(ActiveSubscribers(n))
       ELSE UNCHANGED <<mState, atl>>
    /\ NoDataConnCall(q)
    /\ UNCHANGED subs

\* RELEASING ends, for a RELEASED as for a DENIED event: inactive subscribers
\* are told and dropped, active ones came meanwhile and need a new connection.
ReleasingDone(n, q) ==
    /\ subs' = DropSubscribers(n, InactiveSubscribers(n))
    /\ atl' = NotifyDeniedOrReleased(InactiveSubscribers(n))
    /\ IF ActiveSubscribers(n) # {}
       THEN /\ mState' = [mState EXCEPT ![n] = "PENDING"]
            /\ RequestOrReleaseDataConn(n, TRUE, q)
       ELSE /\ mState' = [mState EXCEPT ![n] = "RELEASED"]
            /\ NoDataConnCall(q)

\* Mutants: the subscribers are told but stay in the list; only the inactive
\* ones are told.
AllSubscribersKept(n, q) ==
    /\ mState' = [mState EXCEPT ![n] = "RELEASED"]
    /\ atl' = NotifyDeniedOrReleased(Subscribers(n))
    /\ UNCHANGED subs
    /\ NoDataConnCall(q)

OnlyInactiveTold(n, q) ==
    /\ mState' = [mState EXCEPT ![n] = "RELEASED"]
    /\ subs' = DropSubscribers(n, Subscribers(n))
    /\ atl' = NotifyDeniedOrReleased(InactiveSubscribers(n))
    /\ NoDataConnCall(q)

\* Everybody is told and dropped: a forced release, or a denied request.
AllSubscribersDone(n, q) ==
    /\ mState' = [mState EXCEPT ![n] = "RELEASED"]
    /\ subs' = DropSubscribers(n, Subscribers(n))
    /\ atl' = NotifyDeniedOrReleased(Subscribers(n))
    /\ NoDataConnCall(q)

\* Mutant: a forced release is taken for an unexpected event.
ReleasedOnlyWhenReleasing(n, q) ==
    \/ mState[n] = "RELEASING" /\ ReleasingDone(n, q)
    \/ /\ mState[n] # "RELEASING"
       /\ NoDataConnCall(q)
       /\ UNCHANGED <<mState, subs, atl>>

ProcessAgpsEventReleased(n, q) ==
    \/ mState[n] = "ACQUIRED" /\ AllSubscribersDone(n, q)
    \/ mState[n] = "RELEASING" /\ ReleasingDone(n, q)
    \/ /\ mState[n] \in {"RELEASED", "PENDING"}
       /\ NoDataConnCall(q)
       /\ UNCHANGED <<mState, subs, atl>>

\* Mutant: DENIED ignored in PENDING.
DeniedOnlyWhenReleasing(n, q) ==
    \/ mState[n] = "RELEASING" /\ ReleasingDone(n, q)
    \/ /\ mState[n] # "RELEASING"
       /\ NoDataConnCall(q)
       /\ UNCHANGED <<mState, subs, atl>>

ProcessAgpsEventDenied(n, q) ==
    \/ mState[n] = "PENDING" /\ AllSubscribersDone(n, q)
    \/ mState[n] = "RELEASING" /\ ReleasingDone(n, q)
    \/ /\ mState[n] \in {"RELEASED", "ACQUIRED"}
       /\ NoDataConnCall(q)
       /\ UNCHANGED <<mState, subs, atl>>

-----------------------------------------------------------------------------
(* AgpsManager: the messages of the adapter's thread.                      *)

Received(type) == msgs # << >> /\ Head(msgs).type = type

\* AGnss::setCallback (AGNSS) and initDefaultAgps (INTERNET).
CreateAgpsStateMachine(n) ==
    /\ n \notin created
    /\ created' = created \cup {n}
    /\ UNCHANGED <<world, mState, subs, msgs, inbox, external, wds, atl>>

RequestATL ==
    /\ Received("RequestATL")
    /\ LET h == Head(msgs).handle
           n == Head(msgs).nif
       IN  \/ /\ n \notin created
              /\ atl' = NotifyDeniedOrReleased({h})
              /\ NoDataConnCall(Tail(msgs))
              /\ UNCHANGED <<mState, subs>>
           \/ n \in created /\ ProcessAgpsEventSubscribe(n, h, Tail(msgs))
    /\ UNCHANGED <<world, created, external, wds>>

\* The AGNSS state machine is searched first; an unknown handle is ignored.
ReleaseATL ==
    /\ Received("ReleaseATL")
    /\ LET h == Head(msgs).handle
       IN  \/ /\ h \in Subscribers("AGNSS")
              /\ ProcessAgpsEventUnsubscribe("AGNSS", h, Tail(msgs))
           \/ /\ h \in Subscribers("INTERNET") \ Subscribers("AGNSS")
              /\ ProcessAgpsEventUnsubscribe("INTERNET", h, Tail(msgs))
           \/ /\ h \notin Subscribers("AGNSS") \cup Subscribers("INTERNET")
              /\ NoDataConnCall(Tail(msgs))
              /\ UNCHANGED <<mState, subs, atl>>
    /\ UNCHANGED <<world, created, external, wds>>

\* AgpsMsgAtlOpenSuccess: GRANTED at once, or after the PDN lookup.
ReportAtlOpenSuccess ==
    /\ Received("OpenSuccess")
    /\ LET n == Head(msgs).nif
       IN  IF world.lookup
           THEN /\ wds' = [wds EXCEPT ![n] = @ + 1]
                /\ NoDataConnCall(Tail(msgs))
                /\ UNCHANGED <<mState, subs, atl>>
           ELSE ProcessAgpsEventGranted(n, Tail(msgs)) /\ UNCHANGED wds
    /\ UNCHANGED <<world, created, external>>

\* MsgReportAtlPdn, posted by reportPdnTypeFromWds.
ReportAtlPdn ==
    /\ Received("PdnType")
    /\ ProcessAgpsEventGranted(Head(msgs).nif, Tail(msgs))
    /\ UNCHANGED <<world, created, external, wds>>

ReportAtlOpenFailed ==
    /\ Received("OpenFailed")
    /\ ProcessAgpsEventDenied(Head(msgs).nif, Tail(msgs))
    /\ UNCHANGED <<world, created, external, wds>>

ReportAtlClosed ==
    /\ Received("Closed")
    /\ ProcessAgpsEventReleased(Head(msgs).nif, Tail(msgs))
    /\ UNCHANGED <<world, created, external, wds>>

ProcessMessage ==
    \/ RequestATL \/ ReleaseATL
    \/ ReportAtlOpenSuccess \/ ReportAtlPdn \/ ReportAtlOpenFailed \/ ReportAtlClosed

-----------------------------------------------------------------------------
(* The PDN lookup of libloc_api_wds.so answers on a thread of its own.     *)

ReportPdnTypeFromWds(n) ==
    /\ wds[n] > 0
    /\ wds' = [wds EXCEPT ![n] = @ - 1]
    /\ msgs' = Append(msgs, [type |-> "PdnType", nif |-> n])
    /\ UNCHANGED <<world, created, mState, subs, inbox, external, atl>>

(* The connectivity framework behind IAGnss.                               *)

FrameworkPost(type) == msgs' = Append(msgs, [type |-> type, nif |-> "AGNSS"])

FrameworkRequest ==
    /\ inbox # << >> /\ Head(inbox) = "request"
    /\ inbox' = Tail(inbox)
    /\ conn' = "opening"
    /\ UNCHANGED <<world, created, mState, subs, msgs, connected, wds, atl>>

\* A release that finds the connection down is answered as the world says.
FrameworkRelease ==
    /\ inbox # << >> /\ Head(inbox) = "release"
    /\ inbox' = Tail(inbox)
    /\ conn' = "down"
    /\ IF conn # "down" \/ world.echoes THEN FrameworkPost("Closed") ELSE UNCHANGED msgs
    /\ UNCHANGED <<world, created, mState, subs, connected, wds, atl>>

DataConnOpen ==
    /\ conn = "opening"
    /\ conn' = "up"
    /\ FrameworkPost("OpenSuccess")
    /\ UNCHANGED <<world, created, mState, subs, inbox, connected, wds, atl>>

\* dataConnOpenCommand with an APN above MAX_APN_LEN: reportAtlClosed on the
\* caller's thread, past the queue.
DataConnOpenLongApn ==
    /\ world.longApn
    /\ conn = "opening"
    /\ conn' = "up"
    /\ ProcessAgpsEventReleased("AGNSS", msgs)
    /\ UNCHANGED <<world, created, connected, wds>>

DataConnFailed ==
    /\ conn = "opening"
    /\ conn' = "down"
    /\ FrameworkPost("OpenFailed")
    /\ UNCHANGED <<world, created, mState, subs, inbox, connected, wds, atl>>

\* The network goes away: a forced release.
DataConnLost ==
    /\ conn = "up"
    /\ conn' = "down"
    /\ FrameworkPost("Closed")
    /\ UNCHANGED <<world, created, mState, subs, inbox, connected, wds, atl>>

\* NativeAgpsHandler::notify: NETWORKINFO says the mobile network came or went.
NetworkInfo ==
    /\ connected' = ~connected
    /\ UNCHANGED <<world, created, mState, subs, msgs, inbox, conn, wds, atl>>

(* The modem.  A handle is opened when it is idle and closed once; a       *)
(* failed open or a close status makes it idle again.                      *)

ModemOpen(h, n) ==
    /\ atl[h] = "idle"
    /\ Len(msgs) + Len(inbox) + wds["AGNSS"] + wds["INTERNET"] <= world.backlog
    /\ atl' = [atl EXCEPT ![h] = "opening"]
    /\ msgs' = Append(msgs, [type |-> "RequestATL", handle |-> h, nif |-> n])
    /\ UNCHANGED <<world, created, mState, subs, inbox, external, wds>>

ModemClose(h) ==
    /\ atl[h] \in {"opening", "open"}
    /\ atl' = [atl EXCEPT ![h] = "closing"]
    /\ msgs' = Append(msgs, [type |-> "ReleaseATL", handle |-> h])
    /\ UNCHANGED <<world, created, mState, subs, inbox, external, wds>>

Framework ==
    FrameworkRequest \/ FrameworkRelease \/ DataConnOpen
    \/ DataConnOpenLongApn \/ DataConnFailed

Next ==
    \/ \E n \in Nifs : CreateAgpsStateMachine(n) \/ ReportPdnTypeFromWds(n)
    \/ ProcessMessage
    \/ Framework \/ DataConnLost \/ NetworkInfo
    \/ \E h \in Handles : ModemClose(h) \/ \E n \in Nifs : ModemOpen(h, n)

\* The adapter's thread takes every message, the framework handles every call
\* and decides every request, the lookup library answers every lookup.
Fairness ==
    /\ WF_vars(ProcessMessage)
    /\ WF_vars(FrameworkRequest \/ FrameworkRelease)
    /\ WF_vars(DataConnOpen \/ DataConnOpenLongApn \/ DataConnFailed)
    /\ \A n \in Nifs : WF_vars(ReportPdnTypeFromWds(n))

Spec == Init /\ [][Next]_vars
FairSpec == Spec /\ Fairness

-----------------------------------------------------------------------------
(* Properties.                                                             *)

\* The types of the machines, the queues and the handles.
TypeOK ==
    /\ world \in Worlds
    /\ created \subseteq Nifs
    /\ mState \in [Nifs -> States]
    /\ subs \in [Nifs -> [Handles -> {"none", "active", "inactive"}]]
    /\ msgs \in Seq(Messages)
    /\ inbox \in Seq({"request", "release"})
    /\ conn \in {"down", "opening", "up"}
    /\ connected \in BOOLEAN
    /\ wds \in [Nifs -> Nat]
    /\ atl \in [Handles -> {"idle", "opening", "open", "closing"}]

\* Answers come in order, each to a request that was made.
Reliable == ~world.lookup /\ ~world.longApn /\ ~world.echoes

Queued(m) == \E i \in 1..Len(msgs) : msgs[i] = m
QueuedFor(n, type) == Queued([type |-> type, nif |-> n])

\* The state of a state machine and its subscriber list agree ("Subscriber
\* list should be empty if we are in released state", Agps.cpp:201): none when
\* released, somebody to notify while the connection is asked for or held,
\* somebody waiting for the close while it is given back.
SubscribersMatchState ==
    \A n \in Nifs :
        /\ mState[n] = "RELEASED" => Subscribers(n) = {}
        /\ mState[n] \in {"PENDING", "ACQUIRED"} => ActiveSubscribers(n) # {}
        /\ mState[n] = "RELEASING" => InactiveSubscribers(n) # {}

\* A handle the modem uses as open is an active subscriber of a state machine
\* that holds its connection: no subscriber is left believing it has a
\* connection that was released or never came.
OpenHandleIsServed ==
    \A h \in Handles : atl[h] = "open" =>
        \E n \in Nifs : mState[n] = "ACQUIRED" /\ h \in ActiveSubscribers(n)

\* The framework is never asked for a connection that it already sets up or
\* holds: a request only reaches it once the previous connection is down.  An
\* answer to a release of no connection is taken for that of the next one.
NeverAskedTwice ==
    Reliable =>
    (inbox # << >> /\ Head(inbox) = "request" => conn = "down")

\* "We already have the data connection setup" (Agps.cpp:93): in ACQUIRED the
\* framework's connection is up, or the news of its loss is in the queue.  A
\* lookup breaks it: RELEASED overtakes the GRANTED that waits for it.
AcquiredMeansConnected ==
    Reliable /\ mState["AGNSS"] = "ACQUIRED" =>
        conn = "up" \/ QueuedFor("AGNSS", "Closed")

\* Every handle the modem opens is answered: granted, denied or closed.
OpenIsAnswered ==
    \A h \in Handles : ~world.longApn /\ ~world.lookup /\ atl[h] = "opening" ~> atl[h] # "opening"

=============================================================================
