------------------------------ MODULE LocTimer ------------------------------
(***************************************************************************)
(* The timers of the location utilities (gps/utils/LocTimer.cpp).          *)
(*                                                                         *)
(* A LocTimer that is started creates a LocTimerDelegate and posts it to   *)
(* the timers' MsgTask, the only thread that touches the heap of           *)
(* delegates and the only one that deletes them.  The soonest one is       *)
(* written to a timerfd that a second thread polls; when it fires, that    *)
(* thread disarms it, takes it out of the epoll set and posts an           *)
(* expiration to the MsgTask, which pops the heap and calls back.          *)
(* Clients start, stop and delete their timers in threads of their own.    *)
(*                                                                         *)
(* The heap is the set of its delegates: what LocHeap adds is that its top *)
(* is one that is due first.  One of the two containers is modelled; they  *)
(* share the threads and nothing else.  A delegate is a number, in the     *)
(* order the delegates are created.                                        *)
(***************************************************************************)
EXTENDS Naturals, Sequences

CONSTANTS
    Clients,    \* LocTimer objects
    Delays,     \* timeOutInMs
    MaxStarts,  \* bound: calls of start
    MaxTime     \* bound: the clock

None == 0
Delegates == 1 .. MaxStarts
NoClient == "no client"

ASSUME TimerAssumption ==
    /\ Delays \subseteq Nat \ {0}
    /\ MaxStarts \in Nat /\ MaxTime \in Nat
    /\ NoClient \notin Clients

Messages ==
         [type : {"push", "remove"}, timer : Delegates]
    \cup [type : {"expire"}, timer : {None}]

VARIABLES
    now,      \* CLOCK_BOOTTIME
    alive,    \* LocTimer objects not deleted
    mTimer,   \* LocTimer::mTimer
    mClient,  \* LocTimerDelegate::mClient
    due,      \* LocTimerDelegate::mFutureTime, 0 before the delegate exists
    deleted,  \* delegates that have been deleted
    msgs,     \* the MsgTask's queue
    heap,     \* the delegates in the container
    arm,      \* the time the timerfd is set to, 0 when it is disarmed
    polled,   \* the timerfd is in the epoll set
    poll,     \* the polling thread: waiting, fired, disarmed, unpolled
    task,     \* the MsgTask: idle, or where it is in the expiration of a delegate
    popped,   \* the delegate it has popped
    client,   \* the client pointer LocTimerDelegate::expire keeps
    cutoff,   \* the time the expiration began at
    ended,    \* how each delegate ended: running, stopped by its client, fired
    early,    \* delegates that fired before they were due
    dangling  \* the MsgTask has used a LocTimer after it was deleted

clients == <<alive, mTimer, mClient, due>>
timerQueue == <<deleted, msgs, heap>>
kernel == <<arm, polled>>
expiry == <<task, popped, client, cutoff>>
outcome == <<ended, early, dangling>>
timerVars == <<now, clients, timerQueue, kernel, poll, expiry, outcome>>

Started == {d \in Delegates : due[d] # 0}

TimerInit ==
    /\ now = 0
    /\ alive = Clients
    /\ mTimer = [c \in Clients |-> None]
    /\ mClient = [d \in Delegates |-> NoClient]
    /\ due = [d \in Delegates |-> 0]
    /\ deleted = {} /\ msgs = <<>> /\ heap = {}
    /\ arm = 0 /\ polled = FALSE /\ poll = "waiting"
    /\ task = "idle" /\ popped = None /\ client = NoClient /\ cutoff = 0
    /\ ended = [d \in Delegates |-> "running"] /\ early = {} /\ dangling = FALSE
-----------------------------------------------------------------------------
(* Clients.  Every section that holds the shared lock is one step. *)

\* start: a delegate, and the message that pushes it.
Start(c, delay) ==
    /\ c \in alive
    /\ mTimer[c] = None
    /\ now + delay <= MaxTime
    /\ \E d \in Delegates \ Started :
        /\ \A e \in Delegates \ Started : d <= e
        /\ mTimer' = [mTimer EXCEPT ![c] = d]
        /\ mClient' = [mClient EXCEPT ![d] = c]
        /\ due' = [due EXCEPT ![d] = now + delay]
        /\ msgs' = Append(msgs, [type |-> "push", timer |-> d])
    /\ UNCHANGED <<now, alive, deleted, heap, kernel, poll, expiry, outcome>>

\* stop, when it returns true: destroyLocked on the running delegate, which ends in this way.
StopTimer(c, way) ==
    /\ mTimer[c] # None
    /\ mTimer' = [mTimer EXCEPT ![c] = None]
    /\ mClient' = [mClient EXCEPT ![mTimer[c]] = NoClient]
    /\ msgs' = Append(msgs, [type |-> "remove", timer |-> mTimer[c]])
    /\ ended' = [ended EXCEPT ![mTimer[c]] = way]

ClientStop(c) ==
    /\ c \in alive
    /\ StopTimer(c, "stopped")
    /\ UNCHANGED <<now, alive, due, deleted, heap, kernel, poll, expiry, early, dangling>>

\* ~LocTimer: stop, then the object is gone.
Delete(c) ==
    /\ c \in alive
    /\ alive' = alive \ {c}
    /\ \/ StopTimer(c, "stopped")
       \/ mTimer[c] = None /\ UNCHANGED <<mTimer, mClient, msgs, ended>>
    /\ UNCHANGED <<now, due, deleted, heap, kernel, poll, expiry, early, dangling>>
-----------------------------------------------------------------------------
(* The heap and the timerfd. *)

\* The top of a heap: due first, the older one of equals.
IsTop(d, h) ==
    /\ d \in h
    /\ \A e \in h : due[d] < due[e] \/ (due[d] = due[e] /\ d <= e)

Top(h) == IF h = {} THEN None ELSE CHOOSE d \in h : IsTop(d, h)

\* Mutant: a prior top of NULL is not asked for.
OutdatedOnlyEarlier(prior, h) ==
    /\ Top(h) # prior
    /\ Top(h) = None \/ (prior # None /\ due[Top(h)] < due[prior])

\* The time in the timerfd is no longer that of the top; a caller that passes NULL says so.
Outdated(prior, h) ==
    /\ Top(h) # prior
    /\ Top(h) = None \/ prior = None \/ due[Top(h)] < due[prior]

\* updateSoonestTime(priorTop), up to the call of timerfd_settime, which is a step of its own.
UpdateSoonestTime(prior, h) ==
    IF Outdated(prior, h)
    THEN polled' = (h # {}) /\ task' = "setting"
    ELSE polled' = polled /\ task' = "idle"
-----------------------------------------------------------------------------
(* The polling thread: TimerRunnable::run and LocTimerContainer::expire. *)

PollFires ==
    /\ poll = "waiting" /\ polled
    /\ arm # 0 /\ arm <= now
    /\ poll' = "fired"
    /\ UNCHANGED <<now, clients, timerQueue, kernel, expiry, outcome>>

Disarm ==
    /\ poll = "fired"
    /\ poll' = "disarmed"
    /\ arm' = 0
    /\ UNCHANGED <<now, clients, timerQueue, polled, expiry, outcome>>

RemovePoll ==
    /\ poll = "disarmed"
    /\ poll' = "unpolled"
    /\ polled' = FALSE
    /\ UNCHANGED <<now, clients, timerQueue, arm, expiry, outcome>>

PostExpire ==
    /\ poll = "unpolled"
    /\ poll' = "waiting"
    /\ msgs' = Append(msgs, [type |-> "expire", timer |-> None])
    /\ UNCHANGED <<now, clients, deleted, heap, kernel, expiry, outcome>>
-----------------------------------------------------------------------------
(* The MsgTask. *)

Take(type) ==
    /\ task = "idle"
    /\ msgs # <<>> /\ Head(msgs).type = type
    /\ msgs' = Tail(msgs)

\* MsgTimerPush
ProcPush ==
    /\ Take("push")
    /\ heap' = heap \cup {Head(msgs).timer}
    /\ UpdateSoonestTime(Top(heap), heap')
    /\ UNCHANGED <<now, clients, deleted, arm, poll, popped, client, cutoff, outcome>>

\* Mutant: only the top is found in the heap.
ProcRemoveTop ==
    /\ Take("remove")
    /\ IF Top(heap) = Head(msgs).timer
       THEN heap' = heap \ {Head(msgs).timer} /\ UpdateSoonestTime(None, heap')
       ELSE UNCHANGED <<heap, polled, task>>
    /\ deleted' = deleted \cup {Head(msgs).timer}
    /\ UNCHANGED <<now, clients, arm, poll, popped, client, cutoff, outcome>>

\* MsgTimerRemove: the next one is written if the top was removed, and the delegate deleted.
ProcRemove ==
    /\ Take("remove")
    /\ heap' = heap \ {Head(msgs).timer}
    /\ IF Top(heap) = Head(msgs).timer
       THEN UpdateSoonestTime(None, heap')
       ELSE UNCHANGED <<polled, task>>
    /\ deleted' = deleted \cup {Head(msgs).timer}
    /\ UNCHANGED <<now, clients, arm, poll, popped, client, cutoff, outcome>>

\* The loop of MsgTimerExpire: pop a delegate, or write the next one and be done.
Pop(d) ==
    /\ heap' = heap \ {d}
    /\ task' = "popped" /\ popped' = d /\ client' = NoClient
    /\ UNCHANGED polled

\* Mutant: the delegate popped last is passed as the prior top.
DoneSincePopped ==
    /\ UpdateSoonestTime(popped, heap)
    /\ popped' = None /\ client' = NoClient
    /\ UNCHANGED heap

Done ==
    /\ UpdateSoonestTime(None, heap)
    /\ popped' = None /\ client' = NoClient
    /\ UNCHANGED heap

\* timerfd_settime
SetTime ==
    /\ task = "setting"
    /\ arm' = IF heap = {} THEN 0 ELSE due[Top(heap)]
    /\ task' = "idle"
    /\ UNCHANGED <<now, clients, timerQueue, polled, poll, popped, client, cutoff, outcome>>

\* MsgTimerExpire: the first pop asks for nothing.
ProcExpire ==
    /\ Take("expire")
    /\ cutoff' = now
    /\ IF heap # {} THEN Pop(Top(heap)) ELSE Done
    /\ UNCHANGED <<now, clients, deleted, arm, poll, outcome>>

\* popIfOutRanks(timerOfNow)
Continue ==
    IF heap # {} /\ due[Top(heap)] <= cutoff THEN Pop(Top(heap)) ELSE Done

\* LocTimerDelegate::expire reads mClient, with no lock.
ReadClient ==
    /\ task = "popped"
    /\ \/ /\ mClient[popped] # NoClient
          /\ client' = mClient[popped]
          /\ task' = "holding"
          /\ UNCHANGED <<heap, popped, polled>>
       \/ /\ mClient[popped] = NoClient
          /\ Continue
    /\ UNCHANGED <<now, clients, deleted, msgs, arm, poll, cutoff, outcome>>

\* client->stop(): whatever delegate the client has by now.
StopClient ==
    /\ task = "holding" /\ client \in alive
    /\ StopTimer(client, "fired")
    /\ early' = IF now < due[mTimer[client]] THEN early \cup {mTimer[client]} ELSE early
    /\ task' = "calling"
    /\ UNCHANGED <<now, alive, due, deleted, heap, kernel, poll, popped, client, cutoff, dangling>>

\* Mutant: the callback is called whatever stop returns.
AlreadyStoppedFires ==
    /\ task = "holding" /\ client \in alive /\ mTimer[client] = None
    /\ task' = "calling"
    /\ ended' = [ended EXCEPT ![popped] = "fired"]
    /\ UNCHANGED <<now, clients, timerQueue, kernel, poll, popped, client, cutoff, early, dangling>>

\* client->stop() returns false.
AlreadyStopped ==
    /\ task = "holding" /\ client \in alive /\ mTimer[client] = None
    /\ Continue
    /\ UNCHANGED <<now, clients, deleted, msgs, arm, poll, cutoff, outcome>>

\* client->timeOutCallback()
CallBack ==
    /\ task = "calling" /\ client \in alive
    /\ Continue
    /\ UNCHANGED <<now, clients, deleted, msgs, arm, poll, cutoff, outcome>>

\* stop or timeOutCallback of a LocTimer deleted meanwhile; if it does not crash, it does nothing.
UseDeleted ==
    /\ task \in {"holding", "calling"} /\ client \notin alive
    /\ dangling' = TRUE
    /\ Continue
    /\ UNCHANGED <<now, clients, deleted, msgs, arm, poll, cutoff, ended, early>>
-----------------------------------------------------------------------------
Tick ==
    /\ now < MaxTime
    /\ now' = now + 1
    /\ UNCHANGED <<clients, timerQueue, kernel, poll, expiry, outcome>>

MsgTask ==
    \/ ProcPush \/ ProcRemove \/ ProcExpire
    \/ SetTime \/ ReadClient \/ StopClient \/ AlreadyStopped \/ CallBack \/ UseDeleted

PollTask == PollFires \/ Disarm \/ RemovePoll \/ PostExpire

TimerNext ==
    \/ \E c \in Clients : \E delay \in Delays : Start(c, delay)
    \/ \E c \in Clients : ClientStop(c) \/ Delete(c)
    \/ PollTask
    \/ MsgTask
    \/ Tick

TimerSpec == TimerInit /\ [][TimerNext]_timerVars

\* Both threads run, and time passes.
TimerFairSpec == TimerSpec /\ WF_timerVars(PollTask) /\ WF_timerVars(MsgTask) /\ WF_timerVars(Tick)
-----------------------------------------------------------------------------
\* The types of the timers, the heap, the timerfd and the expiration.
TimerTypeOK ==
    /\ now \in 0 .. MaxTime /\ arm \in 0 .. MaxTime /\ cutoff \in 0 .. MaxTime
    /\ alive \subseteq Clients
    /\ mTimer \in [Clients -> Delegates \cup {None}]
    /\ mClient \in [Delegates -> Clients \cup {NoClient}]
    /\ due \in [Delegates -> 0 .. MaxTime]
    /\ deleted \subseteq Delegates /\ heap \subseteq Delegates /\ early \subseteq Delegates
    /\ msgs \in Seq(Messages)
    /\ polled \in BOOLEAN /\ dangling \in BOOLEAN
    /\ poll \in {"waiting", "fired", "disarmed", "unpolled"}
    /\ task \in {"idle", "setting", "popped", "holding", "calling"}
    /\ popped \in Delegates \cup {None}
    /\ client \in Clients \cup {NoClient}
    /\ ended \in [Delegates -> {"running", "stopped", "fired"}]

\* As long as the container holds a timer, something will wake it in time: the timerfd is polled
\* and set no later than the soonest one, or an expiration is on its way to the MsgTask
\* (the race between updateSoonestTime and LocTimerContainer::expire).
SoonestIsArmed ==
    heap # {} =>
        \/ polled /\ arm # 0 /\ arm <= due[Top(heap)]
        \/ poll # "waiting"
        \/ task # "idle"
        \/ \E i \in DOMAIN msgs : msgs[i].type = "expire"

\* A delegate is deleted once nothing refers to it: not the heap, a message, its client, or the
\* expiration under way ("all timers are deleted here, and only here").
DeletedIsForgotten ==
    \A d \in deleted :
        /\ d \notin heap
        /\ \A i \in DOMAIN msgs : msgs[i].timer # d
        /\ \A c \in Clients : mTimer[c] # d
        /\ popped # d

\* The client and its delegate agree: a LocTimer that runs is the client of its delegate, and
\* only of that one, so that a stopped delegate can never call back (destroyLocked).
ClientsAgree ==
    \A d \in Delegates, c \in Clients : mClient[d] = c <=> mTimer[c] = d

\* Of a stop by the client and an expiration that meet, exactly one ends the timer.
EndsOnce == [][\A d \in Delegates : ended[d] # "running" => ended'[d] = ended[d]]_timerVars

\* A timer that is started is stopped or fires.
EveryTimerEnds == \A d \in Delegates : d \in Started ~> ended[d] # "running"

\* "pop everything in the heap that outRanks now, i.e. has time older than now"
\* (MsgTimerExpire): a timer fires only when it is due.
FiresWhenDue == early = {}
=============================================================================
