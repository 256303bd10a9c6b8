---------------------------- MODULE NetworkInfo -----------------------------
(***************************************************************************)
(* What the location stack knows of the networks, and whom it tells.       *)
(*                                                                         *)
(*   framework     reports each network that comes or goes, through        *)
(*                 AGnssRil; when it dies, Gnss::GnssDeathRecipient calls  *)
(*                 SystemStatus::resetNetworkInfo;                         *)
(*   SystemStatus  collates a report with the last one: a table of the     *)
(*                 networks connected and the set of their types; it keeps *)
(*                 the last reports;                                       *)
(*   NativeAgpsHandler          answers the AGPS requests of the modem     *)
(*                 with a data connection if a mobile network is there;    *)
(*   XtraSystemStatusObserver   keeps what it is told and sends it to the  *)
(*                 XTRA daemon, another process, over a local socket, once *)
(*                 the daemon has asked for it.                            *)
(*                                                                         *)
(* Everything but resetNetworkInfo runs on the adapters' one MsgTask, which *)
(* also takes the reports; that loop runs on the thread that is told of    *)
(* the death, over a vector that the MsgTask changes, one element a step.  *)
(* OsObserver has who is told at all. The APN, and roaming, which no       *)
(* caller sets, are left out.                                              *)
(***************************************************************************)
EXTENDS Integers, Sequences, FiniteSets, SequencesExt

CONSTANTS
    Networks,           \* the networks, by their handles
    TypeOf,             \* the type of each
    Mobile,             \* TYPE_MOBILE
    MaxNetworkHandles,  \* MAX_NETWORK_HANDLES: 10
    MaxItem,            \* SystemStatusItemBase::maxItem: 5
    MaxBacklog,         \* bound: messages in the queue when someone posts one
    MaxReports,         \* bound: reports of the framework
    MaxDeaths,          \* bound: deaths of the framework
    MaxRequests         \* bound: starts and requests of the XTRA daemon

ASSUME NetworkInfoAssumption ==
    /\ IsFiniteSet(Networks) /\ DOMAIN TypeOf = Networks
    /\ {MaxNetworkHandles, MaxItem} \subseteq Nat \ {0}
    /\ Cardinality(Networks) <= MaxNetworkHandles
    /\ {MaxBacklog, MaxReports, MaxDeaths, MaxRequests} \subseteq Nat

VARIABLES
    queue,      \* the messages of the MsgTask
    history,    \* mCache.mNetworkInfo: the last reports as collated, the newest last
    reset,      \* resetNetworkInfo: its next index, 0 when it does not run
    agps,       \* NativeAgpsHandler::mConnected
    xtra,       \* what XtraSystemStatusObserver was told last: mConnections, mNetworkHandle
    asked,      \* XtraSystemStatusObserver::mReqStatusReceived
    daemon,     \* XTRA daemon: [up, knows]: it has asked since it started; the status it was sent
    online,     \* framework: the networks it has reported connected
    orphans,    \* networks a dead framework left connected and the reset did not come to
    used        \* bounded events so far

observers == <<agps, xtra, asked>>
outside == <<daemon, online, orphans, used>>
networkVars == <<queue, history, reset, observers, outside>>

Nothing == [types |-> {}, table |-> << >>]      \* no network
Unknown == [types |-> {"unknown"}, table |-> << >>]     \* mConnections = ~0

NetworkInit ==
    /\ queue = << >> /\ history = << >> /\ reset = 0
    /\ agps = FALSE /\ xtra = Unknown /\ asked = FALSE
    /\ daemon = [up |-> FALSE, knows |-> Unknown]
    /\ online = {} /\ orphans = {}
    /\ used = [reports |-> 0, deaths |-> 0, requests |-> 0]

Report(n, there) == [type |-> "network", network |-> n, connected |-> there]
Room == Len(queue) < MaxBacklog

-----------------------------------------------------------------------------
(* The framework.                                                          *)

\* AGnssRil::updateNetworkState, SystemStatus::eventConnectionStatus: a network comes, or one
\* that the framework reported goes.
UpdateConnectionStatus(n) ==
    /\ Room /\ used.reports < MaxReports /\ reset = 0
    /\ queue' = Append(queue, Report(n, n \notin online))
    /\ online' = IF n \in online THEN online \ {n} ELSE online \union {n}
    /\ orphans' = orphans \ {n}
    /\ used' = [used EXCEPT !.reports = @ + 1]
    /\ UNCHANGED <<history, reset, observers, daemon>>

\* GnssDeathRecipient::serviceDied. A new framework knows of no network yet.
ServiceDied ==
    /\ used.deaths < MaxDeaths /\ reset = 0
    /\ reset' = 1
    /\ orphans' = orphans \union online
    /\ online' = {}
    /\ used' = [used EXCEPT !.deaths = @ + 1]
    /\ UNCHANGED <<queue, history, observers, daemon>>

\* resetNetworkInfo: a disconnection for each report that is kept.
ResetNetworkInfo ==
    /\ reset > 0
    /\ IF reset <= Len(history)
       THEN /\ queue' = Append(queue, Report(history[reset].network, FALSE))
            /\ orphans' = orphans \ {history[reset].network}
            /\ reset' = reset + 1
       ELSE reset' = 0 /\ UNCHANGED <<queue, orphans>>
    /\ UNCHANGED <<history, observers, daemon, online, used>>

-----------------------------------------------------------------------------
(* SystemStatus: the table of networks.                                    *)

\* The first free place; a network that is there already is not entered again.
Entered(table, n) ==
    IF Contains(table, n) \/ Len(table) = MaxNetworkHandles THEN table ELSE Append(table, n)

RemovedTail(table, n) == IF table = << >> THEN table ELSE Front(table)

\* The last network takes the place of the one that goes.
Removed(table, n) ==
    IF Contains(table, n)
    THEN Front([i \in DOMAIN table |-> IF table[i] = n THEN Last(table) ELSE table[i]])
    ELSE table

\* The networks of the type of n that stay when n goes.
OthersOfType(table, n) == {m \in Range(table) \ {n} : TypeOf[m] = TypeOf[n]}

\* SystemStatusNetworkInfo::collate. While another network of the type is there the types
\* become that type alone.
Collate(r, last) ==
    [network |-> r.network, connected |-> r.connected,
     types |-> IF r.connected THEN last.types \union {TypeOf[r.network]}
               ELSE IF OthersOfType(last.table, r.network) = {}
                    THEN last.types \ {TypeOf[r.network]}
                    ELSE {TypeOf[r.network]},
     table |-> IF r.connected THEN Entered(last.table, r.network)
               ELSE Removed(last.table, r.network)]

\* SystemStatusNetworkInfo::equals does not compare the types.
Equals(a, b) == a.connected = b.connected /\ a.table = b.table

\* setIteminReport, with what it would store: the first report is not collated with anything.
Item(r) ==
    IF history = << >>
    THEN [network |-> r.network, connected |-> r.connected,
          types |-> {TypeOf[r.network]}, table |-> <<r.network>>]
    ELSE Collate(r, Last(history))
Stored(item) ==
    LET h == Append(history, item) IN IF Len(h) > MaxItem THEN Tail(h) ELSE h

StatusOf(item) == [types |-> item.types, table |-> item.table]

\* SystemStatusOsObserver::HandleNotify, SystemStatus::eventDataItemNotify: a report that
\* changes something is stored and handed to the observers. NativeAgpsHandler takes it at once,
\* XtraSystemStatusObserver posts a message.
ProcNetwork ==
    /\ queue # << >> /\ Head(queue).type = "network"
    /\ LET item == Item(Head(queue))
       IN  IF history # << >> /\ Equals(item, Last(history))
           THEN /\ queue' = Tail(queue)
                /\ UNCHANGED <<history, agps>>
           ELSE /\ history' = Stored(item)
                /\ agps' = (Mobile \in item.types)
                /\ queue' = Append(Tail(queue), [type |-> "xtra", status |-> StatusOf(item)])
    /\ UNCHANGED <<reset, xtra, asked, outside>>

-----------------------------------------------------------------------------
(* XtraSystemStatusObserver and the XTRA daemon.                           *)

\* LocIpc::send: lost if the daemon has no socket open.
Send(status) == daemon' = IF daemon.up THEN [daemon EXCEPT !.knows = status] ELSE daemon

ProcXtraUnasked ==
    /\ queue # << >> /\ Head(queue).type = "xtra"
    /\ queue' = Tail(queue)
    /\ IF asked THEN xtra' = Head(queue).status /\ Send(Head(queue).status)
       ELSE UNCHANGED <<xtra, daemon>>
    /\ UNCHANGED <<history, reset, agps, asked, online, orphans, used>>

\* HandleOsObserverUpdateMsg, updateConnections
ProcXtra ==
    /\ queue # << >> /\ Head(queue).type = "xtra"
    /\ queue' = Tail(queue)
    /\ xtra' = Head(queue).status
    /\ IF asked THEN Send(Head(queue).status) ELSE UNCHANGED daemon
    /\ UNCHANGED <<history, reset, agps, asked, online, orphans, used>>

\* HandleStatusRequestMsg, onStatusRequested: a daemon that says it is up to date is told
\* nothing.
ProcRequest ==
    /\ queue # << >> /\ Head(queue).type = "request"
    /\ queue' = Tail(queue)
    /\ asked' = TRUE
    /\ IF Head(queue).updated THEN UNCHANGED daemon ELSE Send(xtra)
    /\ UNCHANGED <<history, reset, agps, xtra, online, orphans, used>>

\* External: the daemon starts, again perhaps, and asks (XtraIpcListener::onReceive).
DaemonStarts ==
    /\ Room /\ used.requests < MaxRequests
    /\ daemon' = [up |-> TRUE, knows |-> Unknown]
    /\ queue' = Append(queue, [type |-> "request", updated |-> FALSE])
    /\ used' = [used EXCEPT !.requests = @ + 1]
    /\ UNCHANGED <<history, reset, observers, online, orphans>>

\* External: a daemon that has been told a status asks to be kept informed.
DaemonAsks ==
    /\ Room /\ used.requests < MaxRequests /\ daemon.knows # Unknown
    /\ queue' = Append(queue, [type |-> "request", updated |-> TRUE])
    /\ used' = [used EXCEPT !.requests = @ + 1]
    /\ UNCHANGED <<history, reset, observers, daemon, online, orphans>>

\* External: the daemon dies.
DaemonDies ==
    /\ daemon.up
    /\ daemon' = [up |-> FALSE, knows |-> Unknown]
    /\ UNCHANGED <<queue, history, reset, observers, online, orphans, used>>

NetworkNext ==
    \/ \E n \in Networks : UpdateConnectionStatus(n)
    \/ ServiceDied
    \/ ResetNetworkInfo
    \/ ProcNetwork
    \/ ProcXtra
    \/ ProcRequest
    \/ DaemonStarts
    \/ DaemonAsks
    \/ DaemonDies

NetworkSpec == NetworkInit /\ [][NetworkNext]_networkVars

-----------------------------------------------------------------------------
(* Properties.                                                             *)

Statuses == [types : SUBSET (Range(TypeOf) \union {"unknown"}), table : Seq(Networks)]

\* The variables range over the code's types; the table holds no network twice and the history
\* no more than MaxItem reports.
NetworkTypeOK ==
    /\ \A n \in DOMAIN queue : queue[n].type \in {"network", "xtra", "request"}
    /\ Len(history) <= MaxItem
    /\ \A n \in DOMAIN history :
          /\ StatusOf(history[n]) \in Statuses
          /\ Len(history[n].table) <= MaxNetworkHandles
          /\ IsInjective(history[n].table)
    /\ reset \in 0..(MaxItem + 1)
    /\ agps \in BOOLEAN /\ asked \in BOOLEAN
    /\ xtra \in Statuses
    /\ daemon.up \in BOOLEAN /\ daemon.knows \in Statuses
    /\ {online, orphans} \subseteq SUBSET Networks

Pending(type) == \E n \in DOMAIN queue : queue[n].type = type

Current == IF history = << >> THEN Nothing ELSE StatusOf(Last(history))

\* When every report is handled the table has the networks that the framework has connected,
\* and no others but those a dead framework left behind and resetNetworkInfo did not come to:
\* it walks the last reports, not the table.
TableIsOnline ==
    ~Pending("network") /\ reset = 0 => Range(Current.table) = online \union orphans

\* When every report is handled the modem is offered a data connection exactly if there is a
\* mobile network, and the types are those of the table.
TypesFollowTable ==
    ~Pending("network") =>
        /\ Current.types = {TypeOf[n] : n \in Range(Current.table)}
        /\ agps = (Mobile \in Current.types)

\* The network observer's picture: both, however networks of all types come and go.
NetworksKnown == TableIsOnline /\ TypesFollowTable

\* A daemon that runs, with no message for or from it under way, knows the table as it is,
\* however its starts and requests fell between the reports.
DaemonInformed ==
    daemon.up /\ ~Pending("network") /\ ~Pending("xtra") /\ ~Pending("request")
        => daemon.knows = IF history = << >> THEN Unknown ELSE Current
=============================================================================
