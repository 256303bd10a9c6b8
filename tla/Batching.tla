------------------------------ MODULE Batching ------------------------------
(***************************************************************************)
(* Batching, from the framework's calls down to the modem.                 *)
(*                                                                         *)
(*   front end   android/2.1/GnssBatching and its BatchingAPIClient: one   *)
(*               client at a time, destroyed and made again by init, which *)
(*               keeps what a stop gathers for the flush that follows;     *)
(*   client      gps/location/LocationAPIClientBase: the session of the    *)
(*               client's only id (mSessionBiDict) and its requests in one *)
(*               queue: an answer is taken for the oldest request;         *)
(*   adapter     gps/batching/BatchingAdapter: the sessions, to start them *)
(*               again when the modem has restarted, and whether the modem *)
(*               is to tell of a full batch;                               *)
(*   LocApi      makes the adapter's calls, one at a time, in order.       *)
(*                                                                         *)
(* The engine lock stays ENABLED, as LocApiBase constructs it. Trips and   *)
(* updateSessionOptions are left out, as the front end never asks for one. *)
(* A modem that does not batch has its starts dropped without an answer.   *)
(***************************************************************************)
EXTENDS Naturals, Sequences, FiniteSets, SequencesExt, Functions

CONSTANTS
    Patient,        \* the framework lets a client's requests be answered first
    Supported,      \* the modem has DISTANCE_BASE_LOCATION_BATCHING
    Refusable,      \* the calls a working modem may refuse
    MaxClients,     \* bound: calls of init
    MaxBacklog,     \* bound: messages in the two queues when the framework calls
    MaxCommands,    \* bound: commands given to the adapter
    MaxFaults,      \* bound: calls refused by a working modem, and its restarts
    MaxFull         \* bound: full batches

ASSUME BatchingAssumption ==
    /\ {Patient, Supported} \subseteq BOOLEAN
    /\ Refusable \subseteq {"start", "stop", "get"}
    /\ MaxClients \in Nat \ {0}
    /\ {MaxBacklog, MaxCommands, MaxFaults, MaxFull} \subseteq Nat

\* BATCHING_MODE_ROUTINE reports a full batch, BATCHING_MODE_NO_AUTO_REPORT does not.
Modes == {"routine", "noAuto"}

VARIABLES
    msgs,           \* the adapter's message queue
    engq,           \* the LocApi's message queue
    pending,        \* mPendingMsgs: commands held until the capabilities are known
    capsKnown,      \* mIsEngineCapabilitiesKnown
    known,          \* mClientData: the clients the adapter knows
    sessions,       \* mBatchingSessions: session -> whose it is, and its mode
    full,           \* LOC_API_ADAPTER_BIT_BATCH_FULL in mEvtMask
    modem,          \* the sessions the modem batches for: session -> mode
    up,             \* the LocApi has the modem open
    api,            \* mApi: the client in use, the last one made
    front,          \* each client's state, session and requests
    taken,          \* for every command the request its answer was taken for
    used            \* sessions and bounded events so far

adapter == <<pending, capsKnown, known, sessions, full>>
vars == <<msgs, engq, adapter, modem, up, api, front, taken, used>>

Clients == 1..MaxClients

\* A client: mState, the session of mDefaultId (0: none), its requests, and
\* whether a flush waits for its report and a thread is about to give an empty one.
NewClient ==
    [state |-> "stopped", session |-> 0, requests |-> << >>, owed |-> FALSE, thread |-> FALSE]

\* The modem is not open yet, and no capabilities are known.
Init ==
    /\ msgs = <<[type |-> "addClient", client |-> 1]>>
    /\ engq = <<[op |-> "open"]>>
    /\ pending = << >> /\ capsKnown = FALSE
    /\ known = {} /\ sessions = << >> /\ full = FALSE
    /\ modem = << >> /\ up = FALSE
    /\ api = 1 /\ front = [c \in Clients |-> NewClient]
    /\ taken = << >>
    /\ used = [sessions |-> 0, faults |-> 0, full |-> 0]

Extend(f, x, y) == [z \in DOMAIN f \cup {x} |-> IF z = x THEN y ELSE f[z]]
Without(f, x) == Restrict(f, DOMAIN f \ {x})

-----------------------------------------------------------------------------
(* The front end: GnssBatching, called by the framework.                   *)

MayCall ==
    /\ Len(msgs) + Len(engq) < MaxBacklog
    /\ Patient => front[api].requests = << >> /\ ~front[api].thread

\* The commands of these requests go to the adapter. They are numbered.
Ask(c, ops, mode) ==
    /\ Len(taken) + Len(ops) <= MaxCommands
    /\ taken' = taken \o [i \in DOMAIN ops |-> 0]
    /\ msgs' = msgs \o [i \in DOMAIN ops |->
                           [type |-> ops[i], client |-> c, session |-> front'[c].session,
                            n |-> Len(taken) + i, mode |-> mode]]

RequestsSwapped(ops) ==
    [i \in DOMAIN ops |-> [op |-> ops[Len(ops) + 1 - i], n |-> Len(taken) + Len(ops) + 1 - i]]

\* The requests pushed for these commands, oldest first.
Requests(ops) == [i \in DOMAIN ops |-> [op |-> ops[i], n |-> Len(taken) + i]]

\* init_2_0: the client there is is destroyed, its requests dropped, and a new one
\* made.
Initialize ==
    /\ MayCall /\ api < MaxClients
    /\ api' = api + 1
    /\ front' = [front EXCEPT ![api].requests = << >>]
    /\ msgs' = msgs \o <<[type |-> "removeClient", client |-> api],
                         [type |-> "addClient", client |-> api + 1]>>
    /\ UNCHANGED <<engq, adapter, modem, up, taken, used>>

\* start: mState is STARTED whatever comes of it.
StartNew(mode) ==
    LET s == used.sessions + 1 IN
    /\ front[api].session = 0
    /\ used' = [used EXCEPT !.sessions = s]
    /\ front' = [front EXCEPT ![api].state = "started", ![api].session = s,
                              ![api].requests = @ \o Requests(<<"start">>)]
    /\ Ask(api, <<"start">>, mode)

StartAgain ==
    /\ front[api].session # 0
    /\ front' = [front EXCEPT ![api].state = "started"]
    /\ UNCHANGED <<msgs, taken, used>>

Start(mode) ==
    /\ MayCall
    /\ StartNew(mode) \/ StartAgain
    /\ UNCHANGED <<engq, adapter, modem, up, api>>

\* stop, and cleanup, which is a stop: what the modem has is asked for first.
Stop ==
    LET ops == IF front[api].session = 0 THEN << >> ELSE <<"get", "stop">> IN
    /\ MayCall
    /\ front' = [front EXCEPT ![api].state = "stopping",
                              ![api].requests = @ \o Requests(ops)]
    /\ Ask(api, ops, "none")
    /\ UNCHANGED <<engq, adapter, modem, up, api, used>>

\* flush: a client without a session is given an empty report by a thread.
Flush ==
    LET none == front[api].session = 0
        ops == IF none THEN << >> ELSE <<"get">>
    IN /\ MayCall
       /\ front' = [front EXCEPT ![api].requests = @ \o Requests(ops),
                                 ![api].owed = TRUE, ![api].thread = @ \/ none]
       /\ Ask(api, ops, "none")
       /\ UNCHANGED <<engq, adapter, modem, up, api, used>>

\* onBatchingCb: the first report after a stop is kept for the next.
OnBatchingCb(f) ==
    IF f.state = "stopping" THEN [f EXCEPT !.state = "stopped"] ELSE [f EXCEPT !.owed = FALSE]

\* The thread of flush.
EmptyReport(c) ==
    /\ front[c].thread
    /\ front' = [front EXCEPT ![c] = OnBatchingCb([@ EXCEPT !.thread = FALSE])]
    /\ UNCHANGED <<msgs, engq, adapter, modem, up, api, taken, used>>

\* onResponseCb: an answer about the session the client has is taken for its oldest
\* request; a start that failed and a stop that succeeded end the session.
Respond(a, ok) ==
    LET f == front[a.client]
        r == Head(f.requests)
        ends == IF ok THEN r.op = "stop" ELSE r.op = "start"
    IN IF a.client \in known /\ f.session = a.session /\ f.requests # << >>
       THEN /\ taken' = [taken EXCEPT ![a.n] = r.n]
            /\ front' = [front EXCEPT ![a.client].requests = Tail(@),
                                      ![a.client].session = IF ends THEN 0 ELSE @]
       ELSE UNCHANGED <<taken, front>>

-----------------------------------------------------------------------------
(* The adapter's thread.                                                   *)

Receive(type) ==
    /\ msgs # << >> /\ Head(msgs).type = type
    /\ msgs' = Tail(msgs)

\* autoReportBatchingSessionsCount() > 0
AutoReports(ss) == \E s \in DOMAIN ss : ss[s].mode = "routine"

Session(c, mode) == [client |-> c, mode |-> mode]

\* A call for the modem about the session of message a, of which o are the options.
Call(op, a, o) ==
    [op |-> op, client |-> a.client, session |-> a.session, n |-> a.n, mode |-> o]

\* saveClient, with updateClientsEventMask
ProcAddClient ==
    /\ Receive("addClient")
    /\ known' = known \cup {Head(msgs).client}
    /\ full' = AutoReports(sessions)
    /\ UNCHANGED <<engq, pending, capsKnown, sessions, modem, up, api, front, taken, used>>

\* MsgRemoveClient: stopClientSessions, eraseClient.
ProcRemoveClient ==
    /\ Receive("removeClient")
    /\ LET c == Head(msgs).client
           mine == {s \in DOMAIN sessions : sessions[s].client = c}
           left == Restrict(sessions, DOMAIN sessions \ mine)
           calls == {Call("stop", [client |-> c, session |-> s, n |-> 0], sessions[s].mode) :
                        s \in mine}
       IN /\ known' = known \ {c} /\ sessions' = left
          /\ full' = AutoReports(left)
          /\ engq' = engq \o SetToSeq(calls)
    /\ UNCHANGED <<pending, capsKnown, modem, up, api, front, taken, used>>

\* A command is held while the capabilities are not known.
Hold(type) ==
    /\ Receive(type) /\ ~capsKnown
    /\ pending' = Append(pending, Head(msgs))
    /\ UNCHANGED <<engq, capsKnown, known, sessions, full, modem, up, api, front, taken, used>>

\* MsgStartBatching and startBatching: "Assume start will be OK".
ProcStart ==
    /\ capsKnown /\ Receive("start")
    /\ LET a == Head(msgs) IN
       IF a.client \in known /\ Supported
       THEN /\ full' = (full \/ (a.mode = "routine" /\ ~AutoReports(sessions)))
            /\ sessions' = Extend(sessions, a.session, Session(a.client, a.mode))
            /\ engq' = Append(engq, Call("start", a, a.mode))
       ELSE UNCHANGED <<full, sessions, engq>>
    /\ UNCHANGED <<pending, capsKnown, known, modem, up, api, front, taken, used>>

StillFullAlways(ss, mode) == full

\* Whether the bit stays set now that a session of that mode is gone.
StillFull(ss, mode) == full /\ ~(mode = "routine" /\ ~AutoReports(ss))

ProcStartedKeeps ==
    /\ Receive("started")
    /\ LET a == Head(msgs) IN
       /\ sessions' = sessions
       /\ full' = IF a.ok THEN full ELSE StillFull(sessions', a.mode)
       /\ Respond(a, a.ok)
    /\ UNCHANGED <<engq, pending, capsKnown, known, modem, up, api, used>>

\* The continuation of startBatching.
ProcStarted ==
    /\ Receive("started")
    /\ LET a == Head(msgs) IN
       /\ sessions' = IF a.ok THEN sessions ELSE Without(sessions, a.session)
       /\ full' = IF a.ok THEN full ELSE StillFull(sessions', a.mode)
       /\ Respond(a, a.ok)
    /\ UNCHANGED <<engq, pending, capsKnown, known, modem, up, api, used>>

\* MsgStopBatching: the answer to a session that is not there is never given.
ProcStop ==
    /\ capsKnown /\ Receive("stop")
    /\ LET a == Head(msgs) IN
       IF a.session \in DOMAIN sessions
       THEN /\ sessions' = Without(sessions, a.session)
            /\ engq' = Append(engq, Call("stop", a, sessions[a.session].mode))
       ELSE UNCHANGED <<sessions, engq>>
    /\ UNCHANGED <<pending, capsKnown, known, full, modem, up, api, front, taken, used>>

\* "restore session if not": with the options stopBatching was given, not with
\* those of the session. They are the default's.
Restored(a) == Session(a.client, "routine")

\* The continuation of stopBatching.
ProcStopped ==
    /\ Receive("stopped")
    /\ LET a == Head(msgs) IN
       /\ sessions' = IF a.ok THEN sessions ELSE Extend(sessions, a.session, Restored(a))
       /\ full' = IF a.ok THEN StillFull(sessions, a.mode) ELSE full
       /\ Respond(a, a.ok)
    /\ UNCHANGED <<engq, pending, capsKnown, known, modem, up, api, used>>

\* MsgGetBatchedLocations: the answer to a session that is not there is given at once.
ProcGet ==
    /\ capsKnown /\ Receive("get")
    /\ LET a == Head(msgs) IN
       IF a.client \in known /\ a.session \in DOMAIN sessions
       THEN engq' = Append(engq, Call("get", a, "none")) /\ UNCHANGED <<front, taken>>
       ELSE Respond(a, FALSE) /\ UNCHANGED engq
    /\ UNCHANGED <<adapter, modem, up, api, used>>

\* The continuation of getBatchedLocations.
ProcGot ==
    /\ Receive("got")
    /\ Respond(Head(msgs), Head(msgs).ok)
    /\ UNCHANGED <<engq, adapter, modem, up, api, used>>

\* reportLocations: to every client the adapter knows.
ProcLocations ==
    /\ Receive("locations")
    /\ front' = [c \in Clients |-> IF c \in known THEN OnBatchingCb(front[c]) ELSE front[c]]
    /\ UNCHANGED <<engq, adapter, modem, up, api, taken, used>>

Restart(s) == Call("restart", [client |-> sessions[s].client, session |-> s, n |-> 0],
                   sessions[s].mode)

\* MsgSSREvent: restartSessions, and the commands that were held come again, behind
\* those that have come meanwhile.
ProcEngineUp ==
    /\ Receive("engineUp")
    /\ capsKnown' = TRUE /\ pending' = << >>
    /\ full' = (full \/ AutoReports(sessions))
    /\ engq' = engq \o SetToSeq({Restart(s) : s \in DOMAIN sessions})
    /\ msgs' = Tail(msgs) \o pending
    /\ UNCHANGED <<known, sessions, modem, up, api, front, taken, used>>

Proc ==
    \/ ProcAddClient \/ ProcRemoveClient
    \/ \E type \in {"start", "stop", "get"} : Hold(type)
    \/ ProcStart \/ ProcStarted \/ ProcStop \/ ProcStopped
    \/ ProcGet \/ ProcGot \/ ProcLocations \/ ProcEngineUp

-----------------------------------------------------------------------------
(* The LocApi's thread and the modem.                                      *)

\* The answer to a call; that to a restart is ignored.
Answer(e, ok) ==
    LET types == [start |-> "started", stop |-> "stopped", get |-> "got"] IN
    IF e.op = "restart" THEN << >>
    ELSE <<[type |-> types[e.op], client |-> e.client, session |-> e.session,
            n |-> e.n, mode |-> e.mode, ok |-> ok]>>

\* The locations the modem has are reported before the call is answered.
Accept ==
    /\ engq # << >> /\ Head(engq).op # "open" /\ up
    /\ LET e == Head(engq)
           locations == IF e.op = "get" THEN <<[type |-> "locations"]>> ELSE << >>
       IN /\ modem' = CASE e.op \in {"start", "restart"} -> Extend(modem, e.session, e.mode)
                        [] e.op = "stop" -> Without(modem, e.session)
                        [] e.op = "get" -> modem
          /\ msgs' = msgs \o locations \o Answer(e, TRUE)
    /\ engq' = Tail(engq)
    /\ UNCHANGED <<adapter, up, api, front, taken, used>>

\* A call fails if the modem is not open, or as the modem sees fit.
Refuse ==
    /\ engq # << >> /\ Head(engq).op # "open"
    /\ ~up \/ (Head(engq).op \in Refusable /\ used.faults < MaxFaults)
    /\ msgs' = msgs \o Answer(Head(engq), FALSE)
    /\ engq' = Tail(engq)
    /\ used' = IF up THEN [used EXCEPT !.faults = @ + 1] ELSE used
    /\ UNCHANGED <<adapter, modem, up, api, front, taken>>

\* LocSsrMsg: the adapter is told that the engine is up.
Open ==
    /\ engq # << >> /\ Head(engq).op = "open"
    /\ engq' = Tail(engq)
    /\ up' = TRUE
    /\ msgs' = Append(msgs, [type |-> "engineUp"])
    /\ UNCHANGED <<adapter, modem, api, front, taken, used>>

LocApi == Accept \/ Refuse \/ Open

\* The modem restarts: handleEngineDownEvent queues the LocSsrMsg.
Crash ==
    /\ up /\ used.faults < MaxFaults
    /\ used' = [used EXCEPT !.faults = @ + 1]
    /\ up' = FALSE /\ modem' = << >>
    /\ engq' = Append(engq, [op |-> "open"])
    /\ UNCHANGED <<msgs, adapter, api, front, taken>>

\* The modem's batch is full: reportLocationsEvent.
BatchFull ==
    /\ \E s \in DOMAIN modem : modem[s] = "routine"
    /\ used.full < MaxFull
    /\ used' = [used EXCEPT !.full = @ + 1]
    /\ msgs' = Append(msgs, [type |-> "locations"])
    /\ UNCHANGED <<engq, adapter, modem, up, api, front, taken>>

Framework == Initialize \/ (\E mode \in Modes : Start(mode)) \/ Stop \/ Flush

Next ==
    \/ Framework \/ (\E c \in Clients : EmptyReport(c))
    \/ Proc \/ LocApi \/ Crash \/ BatchFull

Spec == Init /\ [][Next]_vars

-----------------------------------------------------------------------------
(* Properties.                                                             *)

Commands == 1..Len(taken)

\* The clients, the sessions and the modem's are of the kinds the threads expect.
TypeOK ==
    /\ known \subseteq Clients /\ api \in Clients
    /\ {capsKnown, full, up} \subseteq BOOLEAN
    /\ DOMAIN sessions \subseteq 1..used.sessions
    /\ \A s \in DOMAIN sessions :
          sessions[s].client \in Clients /\ sessions[s].mode \in Modes
    /\ DOMAIN modem \subseteq 1..used.sessions
    /\ \A s \in DOMAIN modem : modem[s] \in Modes
    /\ \A c \in Clients :
          /\ front[c].state \in {"started", "stopping", "stopped"}
          /\ front[c].session \in 0..used.sessions
          /\ \A i \in DOMAIN front[c].requests : front[c].requests[i].n \in Commands
    /\ \A n \in Commands : taken[n] \in 0..Len(taken)

Idle == msgs = << >> /\ engq = << >>

\* When everything has settled, restarts of the modem included, the three records
\* of a session agree: the client in use has one exactly if the adapter has it, and
\* the modem batches for the adapter's sessions and no others, in their modes.
SessionsAgree ==
    Idle =>
        /\ {s \in DOMAIN sessions : sessions[s].client = api} = {front[api].session} \ {0}
        /\ DOMAIN modem = DOMAIN sessions
        /\ \A s \in DOMAIN sessions : sessions[s].mode = modem[s]

\* When everything has settled the modem is to tell of a full batch exactly if some
\* session wants to know, whatever starts, stops and clients were under way together.
FullFollowsSessions == Idle => (full <=> AutoReports(sessions))

\* An answer is taken for the command it answers ("used ... in the responseCallback
\* to match command with response", LocationAPI.h), and when everything has settled
\* no request of the client in use is left.
AnswersMatch ==
    /\ \A n \in Commands : taken[n] \in {0, n}
    /\ Idle => front[api].requests = << >>

\* "flush() always trigger report, even on a stopped session": when everything has
\* settled no flush of the client in use waits for its report.
FlushReported == Idle /\ ~front[api].thread => ~front[api].owed

=============================================================================
