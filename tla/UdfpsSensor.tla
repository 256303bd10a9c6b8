---------------------------- MODULE UdfpsSensor ----------------------------
(***************************************************************************)
(* The one-shot sensor of the sensors sub-HAL (sensors/Sensor.cpp): the    *)
(* under-display fingerprint sensor, a SysfsPollingOneShotSensor.  Its     *)
(* thread sleeps on a condition variable while the sensor is off and polls *)
(* two descriptors while it is on: the sysfs attribute of the touch panel  *)
(* and a pipe the callers write to when the thread must look again.        *)
(*                                                                         *)
(* Every section of the code that holds mRunMutex is one step.  The thread *)
(* releases the mutex while it sleeps and while it polls, and polling is   *)
(* two steps: poll returns with its revents, and the thread takes the      *)
(* mutex back to look at them.                                             *)
(*                                                                         *)
(* Two things of the code are undefined and are choices here: the initial  *)
(* value of mStopThread, an atomic_bool no constructor sets, and the run   *)
(* the thread enters when it starts before the derived constructor has     *)
(* begun.  The contents of an event are left out.                          *)
(***************************************************************************)
EXTENDS Integers

CONSTANT PipeBound  \* bound: bytes in the pipe when a call is made

ASSUME PipeAssumption == PipeBound \in Nat

Modes == {"NORMAL", "DATA_INJECTION"}
Descriptors == {"pipe", "poll"}

VARIABLES
    life,        \* the object: building, alive, interrupted and joining (in its destructors), gone
    fds,         \* the descriptors the constructor obtained: mWaitPipeFd, mPollFd
    pc,          \* the thread: start, waiting (mWaitCV), polling, ready (to handle), sampling, done
    body,        \* what an iteration does while the sensor is active: the run that was dispatched
    notified,    \* the sleeping thread has been notified
    revents,     \* what poll returned
    mStopThread, mIsEnabled, mMode,
    pipe,        \* bytes in mWaitPipeFd
    signalling,  \* a setOperationMode has released the mutex and not yet written to the pipe
    pressed,     \* the sysfs attribute
    edge,        \* the attribute was notified since it was last read
    credit       \* 1 when the sensor is switched on, less the events posted since

object == <<life, fds>>
loop == <<pc, body, notified, revents>>
state == <<mStopThread, mIsEnabled, mMode>>
calls == <<pipe, signalling>>
panel == <<pressed, edge>>
sensorVars == <<object, loop, state, calls, panel, credit>>

Active == mIsEnabled /\ mMode = "NORMAL"

SensorInit ==
    /\ life = "building" /\ fds \in SUBSET Descriptors
    /\ pc = "start" /\ body = "polling" /\ notified = FALSE /\ revents = {}
    /\ mStopThread \in BOOLEAN /\ mIsEnabled = FALSE /\ mMode = "NORMAL"
    /\ pipe = 0 /\ signalling = FALSE
    /\ pressed \in BOOLEAN /\ edge \in BOOLEAN
    /\ credit = 0
-----------------------------------------------------------------------------
(* Helpers. *)

\* mWaitCV.notify_all: lost unless the thread sleeps.
NotifyAll == notified' = (pc = "waiting")

\* interruptPoll: one byte, if there is a pipe.
InterruptPoll == pipe' = IF "pipe" \in fds THEN pipe + 1 ELSE pipe

\* One event through ISensorsEventCallback::postEvents; one beyond the credit is told apart.
Posted == IF credit > -1 THEN credit - 1 ELSE credit

\* The top of the loop of run: stop, sleep, or act.
Iterate(run, enabled) ==
    pc' = IF mStopThread THEN "done"
          ELSE IF enabled /\ mMode = "NORMAL" THEN run ELSE "waiting"
-----------------------------------------------------------------------------
(* The object. *)

\* The body of the constructor of SysfsPollingOneShotSensor; nobody is notified.
Construct ==
    /\ life = "building"
    /\ life' = "alive"
    /\ mStopThread' = (mStopThread \/ fds # Descriptors)
    /\ UNCHANGED <<fds, loop, mIsEnabled, mMode, calls, panel, credit>>

\* ~SysfsPollingOneShotSensor, once the calls have returned.
DestroySensor ==
    /\ life = "alive" /\ ~signalling
    /\ life' = "interrupted"
    /\ InterruptPoll
    /\ UNCHANGED <<fds, loop, state, signalling, panel, credit>>

\* ~Sensor up to the join.
StopThread ==
    /\ life = "interrupted"
    /\ life' = "joining"
    /\ mStopThread' = TRUE /\ mIsEnabled' = FALSE
    /\ NotifyAll
    /\ UNCHANGED <<fds, pc, body, revents, mMode, calls, panel, credit>>

Join ==
    /\ life = "joining" /\ pc = "done"
    /\ life' = "gone"
    /\ UNCHANGED <<fds, loop, state, calls, panel, credit>>
-----------------------------------------------------------------------------
(* The calls of the sensors HAL. *)

\* Bound: a call is made with room in the pipe.
Room == pipe < PipeBound

ActivateUnnotified(enable) ==
    /\ life = "alive"
    /\ mIsEnabled # enable
    /\ Room
    /\ mIsEnabled' = enable
    /\ credit' = IF enable THEN 1 ELSE credit
    /\ InterruptPoll
    /\ UNCHANGED <<object, loop, mStopThread, mMode, signalling, panel>>

Activate(enable) ==
    /\ life = "alive"
    /\ mIsEnabled # enable
    /\ Room
    /\ mIsEnabled' = enable
    /\ credit' = IF enable THEN 1 ELSE credit
    /\ InterruptPoll
    /\ NotifyAll
    /\ UNCHANGED <<object, pc, body, revents, mStopThread, mMode, signalling, panel>>

SetOperationModeUnnotified(mode) ==
    /\ life = "alive" /\ ~signalling
    /\ Room
    /\ mMode' = mode
    /\ signalling' = TRUE
    /\ UNCHANGED <<object, loop, mStopThread, mIsEnabled, pipe, panel, credit>>

\* The section under the mutex; the pipe is written after it.
SetOperationMode(mode) ==
    /\ life = "alive" /\ ~signalling
    /\ Room
    /\ mMode' = mode
    /\ IF mMode # mode THEN NotifyAll ELSE UNCHANGED notified
    /\ signalling' = TRUE
    /\ UNCHANGED <<object, pc, body, revents, mStopThread, mIsEnabled, pipe, panel, credit>>

SignalMode ==
    /\ signalling
    /\ signalling' = FALSE
    /\ InterruptPoll
    /\ UNCHANGED <<object, loop, state, panel, credit>>
-----------------------------------------------------------------------------
(* The thread. *)

\* std::thread(startThread): the vtable may still be that of Sensor.
StartThread ==
    /\ pc = "start"
    /\ body' \in IF life = "building" THEN {"polling", "sampling"} ELSE {"polling"}
    /\ Iterate(body', mIsEnabled)
    /\ UNCHANGED <<object, notified, revents, state, calls, panel, credit>>

\* The wait ends, or in Sensor::run the wait_for of a sampling period of 0; Sensor::run posts
\* in the iteration it enters.
Wake ==
    /\ (pc = "waiting" /\ notified) \/ pc = "sampling"
    /\ notified' = FALSE
    /\ Iterate(body, mIsEnabled)
    /\ credit' = IF pc' = "sampling" THEN Posted ELSE credit
    /\ UNCHANGED <<object, body, revents, state, calls, panel>>

\* poll returns and the mutex is still free for others.
PollReturns ==
    /\ pc = "polling"
    /\ revents' = {e \in {"pipe", "press"} : IF e = "pipe" THEN pipe > 0 ELSE edge}
    /\ revents' # {}
    /\ pc' = "ready"
    /\ UNCHANGED <<object, body, notified, state, calls, panel, credit>>

\* poll fails, with EINTR for instance, and ends the thread.
PollFails ==
    /\ pc = "polling"
    /\ mStopThread' = TRUE
    /\ pc' = "done"
    /\ UNCHANGED <<object, body, notified, revents, mIsEnabled, mMode, calls, panel, credit>>

\* The attribute is read, and reads as pressed.
Reported == "press" \in revents /\ pressed

ReportStaysOn ==
    /\ pc = "ready" /\ Reported
    /\ credit' = Posted
    /\ edge' = FALSE
    /\ revents' = {}
    /\ Iterate(body, mIsEnabled)
    /\ UNCHANGED <<object, body, notified, state, calls, pressed>>

Report ==
    /\ pc = "ready" /\ Reported
    /\ mIsEnabled' = FALSE
    /\ credit' = Posted
    /\ edge' = FALSE
    /\ revents' = {}
    /\ Iterate(body, FALSE)
    /\ UNCHANGED <<object, body, notified, mStopThread, mMode, calls, pressed>>

\* Nothing to report: the byte that interrupted the poll, if there is one, is read.
Look ==
    /\ pc = "ready" /\ ~Reported
    /\ edge' = (edge /\ "press" \notin revents)
    /\ pipe' = IF "pipe" \in revents THEN pipe - 1 ELSE pipe
    /\ revents' = {}
    /\ Iterate(body, mIsEnabled)
    /\ UNCHANGED <<object, body, notified, state, signalling, pressed, credit>>
-----------------------------------------------------------------------------
\* The touch panel's driver: it changes the attribute and notifies it.
Touch ==
    /\ pressed' = ~pressed
    /\ edge' = TRUE
    /\ UNCHANGED <<object, loop, state, calls, credit>>

SensorNext ==
    \/ Construct \/ DestroySensor \/ StopThread \/ Join
    \/ \E enable \in BOOLEAN : Activate(enable)
    \/ \E mode \in Modes : SetOperationMode(mode)
    \/ SignalMode
    \/ StartThread \/ Wake \/ PollReturns \/ PollFails \/ Report \/ Look
    \/ Touch

SensorSpec == SensorInit /\ [][SensorNext]_sensorVars

\* A thread that can run does, and a call or a destructor under way goes on; nobody has to
\* call, and no finger has to touch the panel.
SensorFairSpec ==
    /\ SensorSpec
    /\ WF_sensorVars(StartThread) /\ WF_sensorVars(Wake) /\ WF_sensorVars(PollReturns)
    /\ WF_sensorVars(Report \/ Look)
    /\ WF_sensorVars(SignalMode)
    /\ WF_sensorVars(Construct) /\ WF_sensorVars(StopThread) /\ WF_sensorVars(Join)
-----------------------------------------------------------------------------
\* The types of the object, its thread and its descriptors.
SensorTypeOK ==
    /\ life \in {"building", "alive", "interrupted", "joining", "gone"}
    /\ fds \subseteq Descriptors
    /\ pc \in {"start", "waiting", "polling", "ready", "sampling", "done"}
    /\ body \in {"polling", "sampling"}
    /\ revents \subseteq {"pipe", "press"}
    /\ notified \in BOOLEAN /\ signalling \in BOOLEAN
    /\ mStopThread \in BOOLEAN /\ mIsEnabled \in BOOLEAN /\ mMode \in Modes
    /\ pipe \in Nat
    /\ pressed \in BOOLEAN /\ edge \in BOOLEAN
    /\ credit \in -1 .. 1

\* A one-shot sensor posts at most one event each time it is switched on, whatever the order of
\* its thread, the activations and the mode changes (SysfsPollingOneShotSensor::run), provided
\* the thread runs the loop of the derived class.
OneEventPerActivation == body = "polling" => credit >= 0

\* The thread never sleeps through what it sleeps for: the flags change and the notification
\* is sent under one hold of mRunMutex (activate, setOperationMode, ~Sensor).
NoLostWakeup == pc = "waiting" /\ (Active \/ life = "joining") => notified

\* A thread that polls for a sensor switched off, or put in data injection, has a byte to read
\* or will get one: the pipe of interruptPoll is what ends the poll.
PollerIsInterrupted == pc = "polling" /\ life = "alive" /\ ~Active => pipe > 0 \/ signalling

\* A finger on the panel while the sensor is on is reported, unless it is lifted, the sensor is
\* switched off or the thread has ended.
PressIsReported ==
    life = "alive" /\ Active /\ pressed /\ edge
        ~> life # "alive" \/ ~Active \/ ~pressed \/ pc = "done" \/ credit < 1

\* ~Sensor releases mRunMutex so that the join returns (Sensor.cpp, the comment in ~Sensor).
\* The byte of ~SysfsPollingOneShotSensor may be read before mStopThread is set: the thread
\* polls again and the join waits for a finger.
DestructorReturns == life = "joining" ~> life = "gone"
=============================================================================
