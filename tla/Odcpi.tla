------------------------------- MODULE Odcpi -------------------------------
(***************************************************************************)
(* On-demand coarse positions (ODCPI, gps/gnss/GnssAdapter.cpp): the modem *)
(* asks for a position of the framework and takes its request back, at any *)
(* rate; a timer keeps the framework from being asked more often than      *)
(* every 10 s, and asks again while the request lasts.  The timer expires  *)
(* on the thread of LocTimer, that posts the expiry to the adapter.        *)
(*                                                                         *)
(* The position that is injected is passed on; it is left out.             *)
(***************************************************************************)
EXTENDS LocAdapter

Priorities == {"low", "high"}

VARIABLES
    odcpiCb,        \* mOdcpiRequestCb and mCallbackPriority: "none" or who is asked
    odcpiActive,    \* mOdcpiRequestActive
    odcpiEmergency, \* mOdcpiRequest.isEmergencyMode
    timerActive,    \* OdcpiTimer::mActive
    timer,          \* LocTimer: "off", "armed"
    expiring,       \* the thread of LocTimer has taken the timer, to call back
    wanted,         \* the modem's last request is not taken back
    asked           \* the framework was asked since the request became active

odcpiVars ==
    <<odcpiCb, odcpiActive, odcpiEmergency, timerActive, timer, expiring, wanted, asked>>

InitOdcpi ==
    /\ odcpiCb = "none"
    /\ odcpiActive = FALSE
    /\ odcpiEmergency = FALSE
    /\ timerActive = FALSE
    /\ timer = "off"
    /\ expiring = FALSE
    /\ wanted = FALSE
    /\ asked = FALSE

-----------------------------------------------------------------------------
(* Who is asked.                                                           *)

InitOdcpiCommand(priority) ==
    /\ Call("odcpi", [type |-> "InitOdcpi", priority |-> priority])
    /\ UNCHANGED odcpiVars

\* A handler of a lower priority does not replace the one there is.
HandleInitOdcpi ==
    LET priority == Head(msgs).priority
    IN  /\ Handle("InitOdcpi", << >>)
        /\ odcpiCb' = IF priority = "high" \/ odcpiCb # "high" THEN priority ELSE odcpiCb
        /\ UNCHANGED <<odcpiActive, odcpiEmergency, timerActive, timer, expiring, wanted, asked>>

-----------------------------------------------------------------------------
(* The modem's requests.                                                   *)

RequestOdcpiEvent(request, emergency) ==
    /\ modem = "up"
    /\ Call("odcpi", [type |-> "Odcpi", request |-> request, emergency |-> emergency])
    /\ UNCHANGED odcpiVars

StartTimer == timerActive' = TRUE /\ timer' = "armed"

\* Mutant: a request that comes while the timer runs is dropped.
StartDuringTimerDropped(emergency) ==
    /\ \/ /\ (~odcpiActive /\ ~timerActive) \/ (~odcpiEmergency /\ emergency)
          /\ odcpiActive' = TRUE /\ asked' = TRUE /\ StartTimer
       \/ /\ odcpiActive \/ timerActive
          /\ odcpiEmergency \/ ~emergency
          /\ UNCHANGED <<odcpiActive, asked, timerActive, timer>>
    /\ odcpiEmergency' = emergency
    /\ wanted' = TRUE

\* requestOdcpi, START: asked at once when nothing was lately, or when it is
\* an emergency and the last request was not; else the timer's expiry asks.
StartOdcpi(emergency) ==
    /\ \/ /\ (~odcpiActive /\ ~timerActive) \/ (~odcpiEmergency /\ emergency)
          /\ odcpiActive' = TRUE /\ asked' = TRUE /\ StartTimer
       \/ /\ odcpiActive \/ timerActive
          /\ odcpiEmergency \/ ~emergency
          /\ odcpiActive' = TRUE
          /\ UNCHANGED <<asked, timerActive, timer>>
    /\ odcpiEmergency' = emergency
    /\ wanted' = TRUE

\* requestOdcpi, STOP: the timer is left to expire.
StopOdcpi ==
    /\ odcpiActive' = FALSE
    /\ wanted' = FALSE
    /\ asked' = FALSE
    /\ UNCHANGED <<odcpiEmergency, timerActive, timer>>

RequestOdcpi ==
    LET m == Head(msgs)
    IN  /\ Handle("Odcpi", << >>)
        /\ IF odcpiCb = "none"
           THEN UNCHANGED <<odcpiActive, odcpiEmergency, timerActive, timer, wanted, asked>>
           ELSE IF m.request = "START" THEN StartOdcpi(m.emergency) ELSE StopOdcpi
        /\ UNCHANGED <<odcpiCb, expiring>>

-----------------------------------------------------------------------------
(* The timer.                                                              *)

\* LocTimerDelegate::expire stops the timer and then calls back.
OdcpiTimerExpires ==
    /\ timer = "armed"
    /\ ~expiring
    /\ timer' = "off"
    /\ expiring' = TRUE
    /\ UNCHANGED <<adapterVars, odcpiCb, odcpiActive, odcpiEmergency, timerActive, wanted, asked>>

TimeOutCallback ==
    /\ expiring
    /\ expiring' = FALSE
    /\ Post(<<[type |-> "OdcpiTimerExpire"]>>)
    /\ UNCHANGED <<odcpiCb, odcpiActive, odcpiEmergency, timerActive, timer, wanted, asked>>

\* Mutant: the expiry asks again but does not start the timer again.
ExpireAsksOnce ==
    /\ Handle("OdcpiTimerExpire", << >>)
    /\ asked' = odcpiActive
    /\ UNCHANGED <<odcpiCb, odcpiActive, odcpiEmergency, expiring, timerActive, timer, wanted>>

OdcpiTimerExpire ==
    /\ Handle("OdcpiTimerExpire", << >>)
    /\ IF odcpiActive
       THEN asked' = TRUE /\ StartTimer
       ELSE timerActive' = FALSE /\ timer' = "off" /\ UNCHANGED asked
    /\ UNCHANGED <<odcpiCb, odcpiActive, odcpiEmergency, expiring, wanted>>

\* restartSessions at an engine-up event: the modem has forgotten its request.
ForgetOdcpi ==
    /\ odcpiActive' = FALSE
    /\ wanted' = FALSE
    /\ asked' = FALSE
    /\ UNCHANGED <<odcpiCb, odcpiEmergency, timerActive, timer, expiring>>

-----------------------------------------------------------------------------
(* Properties.                                                             *)

\* A request is never left without a timer that will ask again, nor the timer
\* believed to run when it does not: then no later request would be passed on
\* ("wait for timer to expire before requesting new ODCPI",
\* GnssAdapter.cpp:4893).  What expires meanwhile may be on its way.
OdcpiIsTimed ==
    /\ odcpiActive => timerActive
    /\ timerActive => timer = "armed" \/ expiring \/ Queued("OdcpiTimerExpire")

\* The framework is asked for every request that is not taken back, also for
\* one that comes while the timer of an earlier one runs.
OdcpiIsServed == wanted /\ ~asked ~> asked \/ ~wanted
=============================================================================
