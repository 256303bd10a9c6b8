---------------------------- MODULE GnssTracking ----------------------------
(***************************************************************************)
(* Tracking sessions of the GNSS adapter (gps/gnss/GnssAdapter.cpp).       *)
(*                                                                         *)
(* The modem runs one time-based fix session whatever the number of        *)
(* clients, so the adapter multiplexes: it keeps a table of sessions and   *)
(* restarts the engine whenever the options the table calls for change.    *)
(* Three threads take part, joined by two FIFO queues:                     *)
(*                                                                         *)
(*   client threads   post commands to the adapter's queue (msgs);         *)
(*   the adapter      handles one message at a time, changes its tables    *)
(*                    and queues calls for the modem (engq);               *)
(*   the LocApi       makes the calls one at a time; the modem's answer    *)
(*                    comes back through msgs and runs the LocApiResponse  *)
(*                    continuation the adapter attached to the call.       *)
(*                                                                         *)
(* A modem restart loses its sessions, fails the calls made before the     *)
(* LocApi has reopened it, and ends in an engine-up event.                 *)
(*                                                                         *)
(* The engine lock stays ENABLED, as LocApiBase constructs it, the modem   *)
(* supports distance-based tracking, and power modes are valid ones.       *)
(***************************************************************************)
EXTENDS Integers, Sequences, FiniteSets, SequencesExt, FiniteSetsExt, Functions

CONSTANTS
    Sessions,       \* session ids: 1..n, handed out in order (generateSessionId)
    Clients,        \* LocationAPI instances
    Owner,          \* the client that starts each session
    Menu,           \* the TrackingOptions each session may be started with
    Retune,         \* the TrackingOptions each session may be updated with
    Patient,        \* sessions whose client waits for an answer before its next call
    KnownAtInit,    \* the engine's capabilities are known when the adapter is built
    MaxBacklog,     \* bound: messages in the adapter's queue when a client calls
    MaxUpdates,     \* bound: calls of updateTrackingOptions
    MaxConfigs,     \* bound: configuration changes and changes of the nHz requirement
    MaxCrashes      \* bound: modem restarts

MinInterval == 1    \* MIN_TRACKING_INTERVAL

\* GnssPowerMode: the smaller, the more accurate the fixes.
M1 == 1
M2 == 2
M4 == 4

\* tbm: the time between measurements is above TRACKING_TBM_THRESHOLD_MILLIS.
TrackingOptions ==
    [size : {0, 1}, interval : Nat, power : {M1, M2, M4}, distance : {0, 1}, tbm : BOOLEAN]

\* Options the client never filled in.
Malformed == [size |-> 0, interval |-> 0, power |-> M1, distance |-> 0, tbm |-> FALSE]

ASSUME TrackingAssumption ==
    /\ IsFiniteSet(Sessions) /\ Sessions = 1..Cardinality(Sessions)
    /\ Owner \in [Sessions -> Clients]
    /\ {Menu, Retune} \subseteq [Sessions -> SUBSET TrackingOptions]
    /\ Patient \subseteq Sessions
    /\ KnownAtInit \in BOOLEAN
    /\ {MaxBacklog, MaxUpdates, MaxConfigs, MaxCrashes} \subseteq Nat

VARIABLES
    msgs,           \* the adapter's message queue
    engq,           \* the LocApi's message queue
    clients,        \* mClientData
    timeBased,      \* mTimeBasedTrackingSessions
    distanceBased,  \* mDistanceBasedTrackingSessions
    nHz,            \* mNHzNeeded
    spe,            \* mSPEAlreadyRunningAtHighestInterval
    capsKnown,      \* mIsEngineCapabilitiesKnown
    pending,        \* mPendingMsgs
    engine,         \* what the modem runs
    up,             \* the LocApi has the modem open
    started,        \* session ids handed out
    stopped,        \* sessions whose client has called stopTracking
    live,           \* clients that have not called destroy
    owed,           \* answers each session's client is waiting for
    used            \* bounded events that have happened

tables == <<timeBased, distanceBased>>
adapter == <<clients, timeBased, distanceBased, nHz, spe, capsKnown, pending>>
callers == <<started, stopped, live, owed, used>>
vars == <<msgs, engq, adapter, engine, up, callers>>

EngineOff == [on |-> FALSE, interval |-> 0, power |-> M1, dist |-> {}]

\* LocOpenMsg (first open) and LocSsrMsg (reopen after a restart).
OpenCall == [op |-> "open", s |-> 0, o |-> Malformed, then |-> "none", kept |-> Malformed]

Init ==
    /\ msgs = << >>
    /\ engq = IF KnownAtInit THEN << >> ELSE <<OpenCall>>
    /\ clients = Clients
    /\ timeBased = << >> /\ distanceBased = << >>
    /\ nHz = FALSE /\ spe = FALSE
    /\ capsKnown = KnownAtInit
    /\ pending = << >>
    /\ engine = EngineOff
    /\ up = KnownAtInit
    /\ started = 0 /\ stopped = {}
    /\ live = Clients
    /\ owed = [s \in Sessions |-> 0]
    /\ used = [updates |-> 0, configs |-> 0, crashes |-> 0]

-----------------------------------------------------------------------------
(* The work of one handler is a record: the tables it has written, the     *)
(* calls it has queued for the modem and the answers it has given.         *)

Now == [time |-> timeBased, dist |-> distanceBased, nHz |-> nHz, spe |-> spe,
        calls |-> << >>, owed |-> owed]

Commit(w) ==
    /\ timeBased' = w.time /\ distanceBased' = w.dist
    /\ nHz' = w.nHz /\ spe' = w.spe
    /\ engq' = engq \o w.calls
    /\ owed' = w.owed

With(f, s, o) == [t \in DOMAIN f \cup {s} |-> IF t = s THEN o ELSE f[t]]
Without(f, s) == Restrict(f, DOMAIN f \ {s})

\* then: the LocApiResponse continuation, which has kept a copy of some options.
Call(w, op, s, o, then, kept) ==
    [w EXCEPT !.calls = Append(@, [op |-> op, s |-> s, o |-> o, then |-> then, kept |-> kept])]

\* The same call for each of some sessions, with their options. The code makes them in the
\* order of the table; here in some order, which the modem cannot tell apart.
CallEach(w, op, f, then) ==
    [w EXCEPT !.calls = @ \o SetToSeq(
        {[op |-> op, s |-> s, o |-> f[s], then |-> then, kept |-> Malformed] : s \in DOMAIN f})]

ReportResponse(w, s) ==
    IF Owner[s] \in clients THEN [w EXCEPT !.owed[s] = @ - 1] ELSE w

SaveTrackingSession(w, s, o) ==
    IF o.distance > 0 THEN [w EXCEPT !.dist = With(@, s, o)]
                      ELSE [w EXCEPT !.time = With(@, s, o)]

EraseTrackingSession(w, s) ==
    IF s \in DOMAIN w.time THEN [w EXCEPT !.time = Without(@, s)]
                           ELSE [w EXCEPT !.dist = Without(@, s)]

-----------------------------------------------------------------------------
(* Multiplexing of the time-based sessions.                                *)

\* The first session with the smallest interval, in the order of the table.
SmallestInterval(f) ==
    f[CHOOSE s \in DOMAIN f : \A t \in DOMAIN f :
        f[s].interval < f[t].interval \/ (f[s].interval = f[t].interval /\ s <= t)]

SmallestPower(f) == Min({f[s].power : s \in DOMAIN f})

\* checkAndSetSPEToRunforNHz: with an nHz engine the fix always runs at the
\* shortest interval, and a fix that already does is not started again.
AtNHz(w, o) == IF w.nHz /\ o.interval > MinInterval THEN [o EXCEPT !.interval = MinInterval] ELSE o

StartFix(w, s, o, then, kept) ==
    [Call(w, "startTime", s, AtNHz(w, o), then, kept)
        EXCEPT !.spe = @ \/ (w.nHz /\ o.interval > MinInterval)]

StartOrAnswer(w, s, o, then, kept) ==
    IF w.nHz /\ w.spe THEN ReportResponse(w, s) ELSE StartFix(w, s, o, then, kept)

StartTimeBasedTracking(w, s, o) == StartOrAnswer(w, s, o, "started", Malformed)
UpdateTracking(w, s, o, old) == StartOrAnswer(w, s, o, "updated", old)
StopTrackingNoResponse(w, s) ==
    [Call(w, "stopFix", s, Malformed, "none", Malformed) EXCEPT !.spe = FALSE]

StopTracking(w, s) == [Call(w, "stopFix", s, Malformed, "stopped", Malformed) EXCEPT !.spe = FALSE]

Faster(f, o) == o.interval < SmallestInterval(f).interval
Finer(f, o) == o.power < SmallestPower(f)

MultiplexedKeepsInterval(f, o) ==
    [SmallestInterval(f) EXCEPT !.power = IF Finer(f, o) THEN o.power ELSE @]

\* The options the fix is restarted with when session options o join table f.
Multiplexed(f, o) ==
    [SmallestInterval(f) EXCEPT !.interval = IF Faster(f, o) THEN o.interval ELSE @,
                                !.power = IF Finer(f, o) THEN o.power ELSE @]

StartTimeBasedTrackingMultiplex(w, s, o) ==
    IF DOMAIN w.time = {} THEN StartTimeBasedTracking(w, s, o)
    ELSE IF Faster(w.time, o) \/ Finer(w.time, o)
         THEN StartTimeBasedTracking(w, s, Multiplexed(w.time, o))
         ELSE ReportResponse(w, s)

UpdateTrackingMultiplex(w, s, o) ==
    LET old == w.time[s]
        others == Without(w.time, s)
    IN IF old.interval = o.interval /\ old.power = o.power THEN ReportResponse(w, s)
       ELSE IF DOMAIN others = {} THEN UpdateTracking(w, s, o, old)
       ELSE IF Faster(others, o) \/ Finer(others, o)
            THEN UpdateTracking(w, s, Multiplexed(others, o), old)
            ELSE ReportResponse(w, s)

StopTimeBasedTrackingMultiplex(w, s) ==
    LET others == Without(w.time, s)
    IN IF Cardinality(DOMAIN w.time) = 1 THEN StopTracking(w, s)
       ELSE IF Faster(others, w.time[s]) \/ Finer(others, w.time[s])
            THEN StartTimeBasedTracking(w, s,
                    [SmallestInterval(others) EXCEPT !.power = SmallestPower(others)])
            ELSE ReportResponse(w, s)

SuspendSessions(w) ==
    IF DOMAIN w.time = {} THEN w
    ELSE [Call(w, "stopFix", 0, Malformed, "none", Malformed) EXCEPT !.spe = FALSE]

RestartTimeBased(w) ==
    IF DOMAIN w.time = {} THEN w
    ELSE StartFix(w, 0, [SmallestInterval(w.time) EXCEPT !.power = SmallestPower(w.time)],
                  "none", Malformed)

\* restartSessions and checkAndRestartSPESession
RestartSessions(w) ==
    CallEach(RestartTimeBased([w EXCEPT !.spe = FALSE]), "startDistance", w.dist, "none")

-----------------------------------------------------------------------------
(* Client threads.                                                         *)

Room == Len(msgs) < MaxBacklog
Post(m) == msgs' = Append(msgs, m)

\* A client that waits calls again once everything it asked for is answered.
MayCall(s) ==
    /\ Room
    /\ s <= started /\ Owner[s] \in live
    /\ s \in Patient => owed[s] = 0

Asks(s, m) ==
    /\ Post(m)
    /\ owed' = [owed EXCEPT ![s] = @ + 1]
    /\ UNCHANGED <<engq, adapter, engine, up, live>>

StartTrackingCommand ==
    LET s == started + 1 IN
    /\ s \in Sessions /\ Owner[s] \in live /\ Room
    /\ started' = s
    /\ \E o \in Menu[s] : Asks(s, [type |-> "start", s |-> s, o |-> o])
    /\ UNCHANGED <<stopped, used>>

UpdateTrackingOptionsCommand(s) ==
    /\ MayCall(s)
    /\ used.updates < MaxUpdates
    /\ used' = [used EXCEPT !.updates = @ + 1]
    /\ \E o \in Retune[s] : Asks(s, [type |-> "update", s |-> s, o |-> o])
    /\ UNCHANGED <<started, stopped>>

\* A client stops each session once: a second stop is only refused.
StopTrackingCommand(s) ==
    /\ MayCall(s) /\ s \notin stopped
    /\ stopped' = stopped \cup {s}
    /\ Asks(s, [type |-> "stop", s |-> s])
    /\ UNCHANGED <<started, used>>

\* LocationAPI::destroy
RemoveClientCommand(c) ==
    /\ Room /\ c \in live
    /\ \A s \in Patient : Owner[s] = c => owed[s] = 0
    /\ live' = live \ {c}
    /\ Post([type |-> "removeClient", c |-> c])
    /\ UNCHANGED <<engq, adapter, engine, up, started, stopped, owed, used>>

\* Configuration commands that suspend and restart the fixes, and the callback
\* by which the engine hub changes its nHz requirement.
Reconfigure(m) ==
    /\ Room
    /\ used.configs < MaxConfigs
    /\ used' = [used EXCEPT !.configs = @ + 1]
    /\ Post(m)
    /\ UNCHANGED <<engq, adapter, engine, up, started, stopped, live, owed>>

ConfigCommand == Reconfigure([type |-> "config"])
UpdateNHzRequirement(b) == Reconfigure([type |-> "nHz", needed |-> b])

-----------------------------------------------------------------------------
(* The adapter's thread.                                                   *)

Receive(type) ==
    /\ msgs # << >> /\ Head(msgs).type = type
    /\ msgs' = Tail(msgs)

Unchanging == <<engine, up, started, stopped, live, used>>

\* Distance-based commands wait for the engine's capabilities.
MustWait(m) == ~capsKnown /\ m.o.distance > 0

\* M4 with too long a time between measurements falls back to M2.
FallBack(o) == IF o.power = M4 /\ o.tbm THEN [o EXCEPT !.power = M2] ELSE o
ClampInterval(o) == IF o.interval < MinInterval THEN [o EXCEPT !.interval = MinInterval] ELSE o

Started(s, o) ==
    IF o.distance > 0
    THEN Call(SaveTrackingSession(Now, s, o), "startDistance", s, o, "startedDistance", Malformed)
    ELSE SaveTrackingSession(
            StartTimeBasedTrackingMultiplex(Now, s, FallBack(o)), s, FallBack(o))

\* MsgStartTracking: with no callback, no client or no options nothing is answered.
ProcStart ==
    /\ Receive("start")
    /\ LET m == Head(msgs) IN
       IF MustWait(m)
       THEN pending' = Append(pending, m) /\ Commit(Now)
       ELSE /\ Commit(IF Owner[m.s] \notin clients \/ m.o.size = 0 THEN Now
                      ELSE Started(m.s, ClampInterval(m.o)))
            /\ UNCHANGED pending
    /\ UNCHANGED <<clients, capsKnown, Unchanging>>

SwitchToDistance(s, o) ==
    Call(SaveTrackingSession(
            EraseTrackingSession(StopTimeBasedTrackingMultiplex(Now, s), s), s, o),
         "startDistance", s, o, "none", Malformed)

\* The session is in no table until the modem has answered.
SwitchToTime(s, o) ==
    Call(EraseTrackingSession(Now, s), "stopDistance", s, Malformed, "switchToTime", o)

UpdateTime(s, o) == SaveTrackingSession(UpdateTrackingMultiplex(Now, s, o), s, o)
RestartDistance(s, o) == Call(Now, "stopDistance", s, Malformed, "restartDistance", o)

\* MsgUpdateTracking: four cases by the kind the session has and is to have.
Updated(s, o) ==
    IF s \in DOMAIN timeBased
    THEN IF o.distance > 0 THEN SwitchToDistance(s, o) ELSE UpdateTime(s, o)
    ELSE IF o.distance > 0 THEN RestartDistance(s, o) ELSE SwitchToTime(s, o)

ProcUpdate ==
    /\ Receive("update")
    /\ LET m == Head(msgs) IN
       IF MustWait(m)
       THEN pending' = Append(pending, m) /\ Commit(Now)
       ELSE /\ Commit(IF \/ m.s \notin DOMAIN timeBased \cup DOMAIN distanceBased
                         \/ m.o.size = 0
                      THEN ReportResponse(Now, m.s)
                      ELSE Updated(m.s, ClampInterval(FallBack(m.o))))
            /\ UNCHANGED pending
    /\ UNCHANGED <<clients, capsKnown, Unchanging>>

Stopped(s) ==
    IF s \in DOMAIN timeBased
    THEN EraseTrackingSession(StopTimeBasedTrackingMultiplex(Now, s), s)
    ELSE IF s \in DOMAIN distanceBased
         THEN Call(Now, "stopDistance", s, Malformed, "stoppedDistance", Malformed)
         ELSE ReportResponse(Now, s)

ProcStop ==
    /\ Receive("stop")
    /\ Commit(Stopped(Head(msgs).s))
    /\ UNCHANGED <<clients, capsKnown, pending, Unchanging>>

StopOne(w, s, c) ==
    IF Owner[s] = c /\ s \in DOMAIN w.time
    THEN EraseTrackingSession(StopTimeBasedTrackingMultiplex(w, s), s) ELSE w

\* The time-based sessions of a client are stopped and erased one by one, in the
\* order of the table: after[k] is the work done with those up to k.
StopTimeBased(c) ==
    LET after[k \in 0..Cardinality(Sessions)] ==
            IF k = 0 THEN Now ELSE StopOne(after[k - 1], k, c)
    IN after[Cardinality(Sessions)]

StopTimeBasedOnly(c) == StopTimeBased(c)

\* stopClientSessions: the distance-based sessions stay until the modem agrees.
StopClientSessions(c) ==
    CallEach(StopTimeBased(c), "stopDistance",
             [s \in {t \in DOMAIN distanceBased : Owner[t] = c} |-> Malformed], "erase")

\* MsgRemoveClient; nobody is left to wait for the client's answers.
ProcRemoveClient ==
    /\ Receive("removeClient")
    /\ LET c == Head(msgs).c
           w == StopClientSessions(c)
       IN /\ Commit([w EXCEPT !.owed = [s \in Sessions |-> IF Owner[s] = c THEN 0 ELSE @[s]]])
          /\ clients' = clients \ {c}
    /\ UNCHANGED <<capsKnown, pending, Unchanging>>

ProcConfig ==
    /\ Receive("config")
    /\ Commit(RestartSessions(SuspendSessions(Now)))
    /\ UNCHANGED <<clients, capsKnown, pending, Unchanging>>

ProcNHz ==
    /\ Receive("nHz")
    /\ LET b == Head(msgs).needed IN
       Commit(IF b = nHz THEN Now ELSE RestartSessions([Now EXCEPT !.nHz = b]))
    /\ UNCHANGED <<clients, capsKnown, pending, Unchanging>>

EngineUpNoRestart ==
    /\ msgs # << >> /\ Head(msgs).type = "engineUp"
    /\ msgs' = Tail(msgs) \o pending
    /\ capsKnown' = TRUE
    /\ Commit(Now)
    /\ UNCHANGED <<clients, pending, Unchanging>>

\* MsgHandleEngineUpEvent: the stored messages are sent and stay in the list,
\* so each engine-up event sends them again.
ProcEngineUp ==
    /\ msgs # << >> /\ Head(msgs).type = "engineUp"
    /\ msgs' = Tail(msgs) \o pending
    /\ capsKnown' = TRUE
    /\ Commit(RestartSessions(Now))
    /\ UNCHANGED <<clients, pending, Unchanging>>

\* The LocApiResponse continuations: what each does with the modem's answer.
OnStarted(a) == ReportResponse(IF a.ok THEN Now ELSE EraseTrackingSession(Now, a.s), a.s)

\* "restore the old LocationOptions", whatever became of the session meanwhile.
OnUpdated(a) ==
    ReportResponse(IF a.ok THEN Now ELSE SaveTrackingSession(Now, a.s, a.kept), a.s)

OnStopped(a) == ReportResponse(Now, a.s)

\* The session of a client that is being removed: nobody is told.
OnErase(a) == IF a.ok THEN EraseTrackingSession(Now, a.s) ELSE Now
OnStoppedDistance(a) == ReportResponse(OnErase(a), a.s)

\* Whether the stop succeeded or not, the session goes on as a time-based one.
OnSwitchToTime(a) ==
    SaveTrackingSession(StartTimeBasedTrackingMultiplex(Now, a.s, a.kept), a.s, a.kept)

\* A refused stop ends the update, unanswered.
OnRestartDistance(a) ==
    IF a.ok THEN Call(Now, "startDistance", a.s, a.kept, "restartedDistance", a.kept) ELSE Now

OnRestartedDistance(a) ==
    ReportResponse(IF a.ok THEN SaveTrackingSession(Now, a.s, a.kept) ELSE Now, a.s)

Answered(a) ==
    CASE a.then \in {"started", "startedDistance"} -> OnStarted(a)
      [] a.then = "updated" -> OnUpdated(a)
      [] a.then = "stopped" -> OnStopped(a)
      [] a.then = "stoppedDistance" -> OnStoppedDistance(a)
      [] a.then = "erase" -> OnErase(a)
      [] a.then = "switchToTime" -> OnSwitchToTime(a)
      [] a.then = "restartDistance" -> OnRestartDistance(a)
      [] a.then = "restartedDistance" -> OnRestartedDistance(a)

ProcAnswer ==
    /\ Receive("answer")
    /\ Commit(Answered(Head(msgs)))
    /\ UNCHANGED <<clients, capsKnown, pending, Unchanging>>

Proc ==
    \/ ProcStart \/ ProcUpdate \/ ProcStop \/ ProcRemoveClient
    \/ ProcConfig \/ ProcNHz \/ ProcEngineUp \/ ProcAnswer

-----------------------------------------------------------------------------
(* The LocApi's thread and the modem.                                      *)

\* The engine after a call it accepts.
Runs(e, c) ==
    CASE c.op = "startTime" ->
           [e EXCEPT !.on = TRUE, !.interval = c.o.interval, !.power = c.o.power]
      [] c.op = "stopFix" -> [EngineOff EXCEPT !.dist = e.dist]
      [] c.op = "startDistance" -> [e EXCEPT !.dist = @ \cup {c.s}]
      [] c.op = "stopDistance" -> [e EXCEPT !.dist = @ \ {c.s}]
      [] OTHER -> e

Answer(c, ok) ==
    IF c.then = "none" THEN << >>
    ELSE <<[type |-> "answer", s |-> c.s, then |-> c.then, kept |-> c.kept, ok |-> ok]>>

\* The modem refuses whatever it is asked before the LocApi has reopened it.
Execute ==
    /\ engq # << >> /\ Head(engq).op # "open"
    /\ engq' = Tail(engq)
    /\ engine' = IF up THEN Runs(engine, Head(engq)) ELSE engine
    /\ msgs' = msgs \o Answer(Head(engq), up)
    /\ UNCHANGED <<adapter, up, callers>>

\* LocOpenMsg and LocSsrMsg: the adapter is told that the engine is up.
Open ==
    /\ engq # << >> /\ Head(engq).op = "open"
    /\ engq' = Tail(engq)
    /\ up' = TRUE
    /\ Post([type |-> "engineUp"])
    /\ UNCHANGED <<adapter, engine, callers>>

\* The modem restarts: handleEngineDownEvent queues the LocSsrMsg.
Crash ==
    /\ up /\ used.crashes < MaxCrashes
    /\ used' = [used EXCEPT !.crashes = @ + 1]
    /\ up' = FALSE
    /\ engine' = EngineOff
    /\ engq' = Append(engq, OpenCall)
    /\ UNCHANGED <<msgs, adapter, started, stopped, live, owed>>

LocApi == Execute \/ Open

Calls ==
    \/ StartTrackingCommand
    \/ \E s \in Sessions : UpdateTrackingOptionsCommand(s) \/ StopTrackingCommand(s)
    \/ \E c \in Clients : RemoveClientCommand(c)
    \/ ConfigCommand
    \/ \E b \in BOOLEAN : UpdateNHzRequirement(b)

Next == Calls \/ Proc \/ LocApi \/ Crash

Spec == Init /\ [][Next]_vars

\* The two message threads keep running. Each of them has a step to take exactly
\* when its queue is not empty, so this is WF_vars(Proc) /\ WF_vars(LocApi).
FairSpec ==
    /\ Spec
    /\ []<>(msgs = << >>) \/ []<><<Proc>>_vars
    /\ []<>(engq = << >>) \/ []<><<LocApi>>_vars

-----------------------------------------------------------------------------
(* Properties.                                                             *)

Bodies == [op : {"startTime", "stopFix", "startDistance", "stopDistance", "open"},
           s : Sessions \cup {0}, o : TrackingOptions,
           then : {"none", "started", "updated", "stopped", "startedDistance",
                   "stoppedDistance", "erase", "switchToTime", "restartDistance",
                   "restartedDistance"},
           kept : TrackingOptions]

Commands == [type : {"start", "update"}, s : Sessions, o : TrackingOptions]

\* The queues and the tables hold what the threads expect of them.
TypeOK ==
    /\ \A i \in 1..Len(msgs) :
          \/ msgs[i] \in Commands
          \/ msgs[i] \in [type : {"stop"}, s : Sessions]
          \/ msgs[i] \in [type : {"removeClient"}, c : Clients]
          \/ msgs[i] \in [type : {"config", "engineUp"}]
          \/ msgs[i] \in [type : {"nHz"}, needed : BOOLEAN]
          \/ /\ DOMAIN msgs[i] = {"type", "s", "then", "kept", "ok"}
             /\ msgs[i].s \in Sessions /\ msgs[i].ok \in BOOLEAN
    /\ \A i \in 1..Len(engq) : engq[i] \in Bodies
    /\ \A f \in {timeBased, distanceBased} :
          /\ DOMAIN f \subseteq 1..started
          /\ \A s \in DOMAIN f : f[s] \in TrackingOptions /\ f[s].size = 1
    /\ \A i \in 1..Len(pending) : pending[i] \in Commands /\ pending[i].o.distance > 0
    /\ clients \subseteq Clients /\ live \subseteq clients
    /\ stopped \subseteq 1..started

\* The commands, calls and answers under way for session s.
InFlight(s) ==
    LET For(q) == Cardinality({i \in 1..Len(q) : "s" \in DOMAIN q[i] /\ q[i].s = s})
        Calling == Cardinality({i \in 1..Len(engq) :
                                  engq[i].s = s /\ engq[i].then \notin {"none", "erase"}})
    IN For(msgs) + Calling + IF capsKnown THEN 0 ELSE For(pending)

\* The calls of a queue that are about the fix, and what the fix of the modem will be
\* once it has made them all: the last of them says it.
FixCalls(q) == {i \in 1..Len(q) : q[i].op \in {"startTime", "stopFix"}}
Commanding(q) == IF FixCalls(q) = {} THEN engine ELSE Runs(engine, q[Max(FixCalls(q))])
Commanded == Commanding(engq)

Idle == msgs = << >> /\ engq = << >>

Serves(e, f) ==
    DOMAIN f # {} => /\ e.on
                     /\ e.interval <= SmallestInterval(f).interval
                     /\ nHz => e.interval = MinInterval

\* The fixes the adapter has called for always suit its table, whatever the
\* clients do while calls are under way: they run exactly when some session
\* wants them and at least as often as the most demanding session asks, and at
\* the shortest interval while an engine needs nHz measurements.
EngineFollowsTable ==
    Serves(Commanded, timeBased) /\ (Commanded.on => DOMAIN timeBased # {})

\* stopTracking "stops a tracking session" (LocationAPI.h): when everything has
\* settled the modem runs no distance-based session that is in no table.
StoppedIsNotRun == Idle => engine.dist \subseteq DOMAIN distanceBased

\* A session is time-based or distance-based, never both: the handlers look it
\* up in one table, then in the other.
OneKind == DOMAIN timeBased \cap DOMAIN distanceBased = {}

\* Every command a client waits for is somewhere between the two queues, and
\* every answer under way is waited for: none is lost, none is given twice.
AnswersBalance ==
    \A s \in Sessions : Owner[s] \in clients => owed[s] = InFlight(s)

\* A client is never given more answers than it has asked questions.
NeverAnsweredTwice ==
    \A s \in Sessions : Owner[s] \in clients => owed[s] >= InFlight(s)

\* Once the client that stopped a session has all its answers the session is in
\* no table, and no late answer brings it back.
StoppedIsGone ==
    \A s \in stopped : owed[s] = 0 /\ Owner[s] \in clients =>
        s \notin DOMAIN timeBased \cup DOMAIN distanceBased

\* When everything has settled no session of a destroyed client is left: such a
\* session keeps the engine running with nobody able to stop it.
NoOrphan ==
    Idle => \A s \in DOMAIN timeBased \cup DOMAIN distanceBased : Owner[s] \in clients

\* After a modem restart, when the engine-up event and everything queued has been
\* handled, the modem serves the sessions of the tables again.
SettledServes ==
    Idle => Serves(engine, timeBased) /\ DOMAIN distanceBased \subseteq engine.dist

\* "find the smallest interval and powerMode" (startTimeBasedTrackingMultiplex):
\* the fixes are at least as accurate as the most demanding session asks.
PowerFollowsTable ==
    Commanded.on => Commanded.power <= SmallestPower(timeBased)

\* Every command of a client that stays is answered.
EveryCallAnswered ==
    \A s \in Sessions : owed[s] > 0 ~> owed[s] = 0

=============================================================================
