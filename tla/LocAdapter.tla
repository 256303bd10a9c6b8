----------------------------- MODULE LocAdapter -----------------------------
(***************************************************************************)
(* What the handlers of the GNSS adapter share (gps/core/LocAdapterBase,   *)
(* ContextBase, LocApiBase): two threads with a message queue each.        *)
(*                                                                         *)
(*   - the adapter's thread (MsgTask of the context): calls of the         *)
(*     framework, events of the modem and answers of the other thread;     *)
(*   - the thread of LocApiBase: what the adapter sends to the modem with  *)
(*     LocApiMsg, one blocking request after the other.                    *)
(*                                                                         *)
(* The modem may restart: what it was sent is lost until an engine-up      *)
(* event makes the adapter configure it again.                             *)
(***************************************************************************)
EXTENDS Naturals, Sequences

CONSTANTS
    MaxCalls,  \* bound: calls and events of a theme, restarts of the modem
    Plans      \* what a behaviour may start from, its bounds, and whether its
               \* surroundings are rough: a call may overtake another one (the
               \* guards that mention Rough)

Themes == {"config", "ni", "odcpi"}

ASSUME LocAdapterAssumption ==
    /\ MaxCalls \in Nat
    /\ Plans \subseteq [rough : BOOLEAN, calls : [Themes -> 0..MaxCalls],
                        restarts : 0..MaxCalls,
                        booted : BOOLEAN,                \* the first engine-up event came
                        lock : SUBSET {"MO", "NI"},      \* GPS_LOCK of gps.conf
                        listens : BOOLEAN,               \* a client has a gnssNiCb
                        blacklists : BOOLEAN,            \* CONSTELLATION_ENABLEMENT_V02
                        spawns : BOOLEAN]                \* pthread_create never fails

VARIABLES
    plan,       \* one of Plans, the same for ever
    msgs,       \* the adapter's queue
    apiq,       \* the queue of LocApiBase
    pending,    \* mPendingMsgs: messages held until the capabilities are known
    capsKnown,  \* mIsEngineCapabilitiesKnown
    modem,      \* "down" or "up"
    calls,      \* calls and events of each theme so far
    restarts    \* restarts so far

adapterVars ==
    <<plan, msgs, apiq, pending, capsKnown, modem, calls, restarts>>

Rough == plan.rough

InitAdapter ==
    /\ plan \in Plans
    /\ msgs = << >>
    /\ apiq = IF plan.booted THEN << >> ELSE <<[type |-> "Open"]>>
    /\ pending = << >>
    /\ capsKnown = plan.booted
    /\ modem = IF plan.booted THEN "up" ELSE "down"
    /\ calls = [t \in Themes |-> 0]
    /\ restarts = 0

-----------------------------------------------------------------------------

Queued(type) == \E i \in 1..Len(msgs) : msgs[i].type = type
Under(type) == \E i \in 1..Len(apiq) : apiq[i].type = type

\* The number of the next call of a theme: generateSessionId and the like.
Number(theme) == calls[theme] + 1

\* A call or an event of a theme that posts the message m.
Call(theme, m) ==
    /\ calls[theme] < plan.calls[theme]
    /\ calls' = [calls EXCEPT ![theme] = @ + 1]
    /\ msgs' = Append(msgs, m)
    /\ UNCHANGED <<plan, apiq, pending, capsKnown, modem, restarts>>

\* The adapter's thread handles the first message, of this type, and sends the
\* requests in sends to the thread of LocApiBase.
Handle(type, sends) ==
    /\ msgs # << >>
    /\ Head(msgs).type = type
    /\ msgs' = Tail(msgs)
    /\ apiq' = apiq \o sends
    /\ UNCHANGED <<plan, pending, capsKnown, modem, calls, restarts>>

\* proc() of a message that needs the capabilities and keeps a copy of itself.
Hold(type) ==
    /\ msgs # << >>
    /\ Head(msgs).type = type
    /\ ~capsKnown
    /\ pending' = Append(pending, Head(msgs))
    /\ msgs' = Tail(msgs)
    /\ UNCHANGED <<plan, apiq, capsKnown, modem, calls, restarts>>

\* MsgHandleEngineUpEvent: what the handlers send, and the messages held are
\* posted again.  The list is not cleared.
HandleEngineUp(sends) ==
    /\ msgs # << >>
    /\ Head(msgs).type = "EngineUp"
    /\ capsKnown' = TRUE
    /\ msgs' = Tail(msgs) \o pending
    /\ apiq' = apiq \o sends
    /\ UNCHANGED <<plan, pending, modem, calls, restarts>>

\* The thread of LocApiBase does its first request, of this type, and posts
\* the answers to the adapter's queue.
Serve(type, answers) ==
    /\ apiq # << >>
    /\ Head(apiq).type = type
    /\ apiq' = Tail(apiq)
    /\ msgs' = msgs \o answers
    /\ UNCHANGED <<plan, pending, capsKnown, modem, calls, restarts>>

\* A thread of its own posts the messages ms.
Post(ms) ==
    /\ msgs' = msgs \o ms
    /\ UNCHANGED <<plan, apiq, pending, capsKnown, modem, calls, restarts>>

-----------------------------------------------------------------------------
(* The modem.  A second engine-up event would post the messages that were  *)
(* held once more, freed by then: restarts with such messages, or before   *)
(* the first event, when there may be some, are left to GnssTracking.      *)

ModemDown ==
    /\ restarts < plan.restarts
    /\ modem = "up"
    /\ capsKnown /\ pending = << >>
    /\ restarts' = restarts + 1
    /\ modem' = "down"
    /\ apiq' = Append(apiq, [type |-> "Open"])
    /\ UNCHANGED <<plan, msgs, pending, capsKnown, calls>>

\* LocSsrMsg and LocOpenMsg: the modem is opened behind the requests already
\* made, which it refuses, and the adapter is told.
OpenModem ==
    /\ apiq # << >>
    /\ Head(apiq).type = "Open"
    /\ apiq' = Tail(apiq)
    /\ modem' = "up"
    /\ msgs' = Append(msgs, [type |-> "EngineUp"])
    /\ UNCHANGED <<plan, pending, capsKnown, calls, restarts>>

Quiet == msgs = << >> /\ apiq = << >> /\ modem = "up" /\ capsKnown
=============================================================================
