---------------------------- MODULE GnssControl ----------------------------
(***************************************************************************)
(* Configuration, network-initiated requests and on-demand positions on    *)
(* the threads of one GNSS adapter: their messages share the adapter's     *)
(* queue, the lock decides on the requests of the network, and an          *)
(* engine-up event makes all three start again.                            *)
(***************************************************************************)
EXTENDS NetInitiated, Odcpi

vars == <<adapterVars, configVars, niVars, odcpiVars>>

Init == InitAdapter /\ InitConfig /\ InitNi /\ InitOdcpi

-----------------------------------------------------------------------------
(* Calls and events.                                                       *)

FrameworkConfigures ==
    /\ \/ LocAPIEnable
       \/ LocAPIDisable
       \/ \E enable \in BOOLEAN : NfwControl(enable)
       \/ \E lock \in LockConfigs : UpdateConfig("lock", lock)
       \/ \E list \in Lists : UpdateConfig("list", list)
    /\ UNCHANGED <<niVars, odcpiVars>>

NiComes ==
    /\ \/ \E on \in BOOLEAN : SetNiCb(on)
       \/ RequestNiNotifyEvent
       \/ \E p \in shown, answer \in {"ACCEPT", "DENY"} : GnssNiResponse(p[1], p[2], answer)
    /\ UNCHANGED <<configVars, odcpiVars>>

OdcpiComes ==
    /\ \/ \E priority \in Priorities : InitOdcpiCommand(priority)
       \/ \E emergency \in BOOLEAN : RequestOdcpiEvent("START", emergency)
       \/ RequestOdcpiEvent("STOP", FALSE)
    /\ UNCHANGED <<configVars, niVars>>

ModemRestarts == ModemDown /\ LoseConfig /\ UNCHANGED <<niVars, odcpiVars>>

-----------------------------------------------------------------------------
(* The threads.                                                            *)

\* The adapter's thread takes a message when it is done with the last one.
HandleConfigMessage ==
    /\ writes = << >>
    /\ \/ HandleEnable
       \/ HandleDisable
       \/ HandleNfw
       \/ HoldConfig
       \/ HandleLockConfig
       \/ HandleListConfig
       \/ HandleConfigAnswer
    /\ UNCHANGED <<niVars, odcpiVars>>

HandleNiMessage ==
    /\ writes = << >>
    /\ HandleNiCb \/ HandleNiNotify \/ HandleNiResponse \/ HandleNiAnswer
    /\ UNCHANGED <<configVars, odcpiVars>>

HandleOdcpiMessage ==
    /\ writes = << >>
    /\ HandleInitOdcpi \/ RequestOdcpi \/ OdcpiTimerExpire
    /\ UNCHANGED <<configVars, niVars>>

\* In calm surroundings the other thread is done with its configurations.
HandleEngineUpEvent ==
    /\ writes = << >>
    /\ Rough \/ ~Under("Config")
    /\ HandleEngineUp(SetConfig)
    /\ ForgetOdcpi
    /\ UNCHANGED <<configVars, niVars>>

AdapterThread ==
    \/ HandleConfigMessage \/ HandleNiMessage \/ HandleOdcpiMessage \/ HandleEngineUpEvent
    \/ WriteResponse /\ UNCHANGED <<configVars, odcpiVars>>

LocApiThread ==
    /\ \/ ServeSetLock
       \/ GnssUpdateConfig
       \/ ServeSetBlacklist
       \/ OpenModem /\ UNCHANGED configVars
    /\ UNCHANGED <<niVars, odcpiVars>>

NiThread(t) ==
    /\ NiThreadWakes(t, TRUE) \/ NiThreadWakes(t, FALSE) \/ NiThreadEnds(t)
    /\ UNCHANGED <<configVars, odcpiVars>>

TimerThread ==
    /\ OdcpiTimerExpires \/ TimeOutCallback
    /\ UNCHANGED <<configVars, niVars>>

Next ==
    \/ FrameworkConfigures \/ NiComes \/ OdcpiComes
    \/ ModemRestarts
    \/ AdapterThread \/ LocApiThread \/ TimerThread
    \/ \E t \in threads : NiThread(t)

Spec == Init /\ [][Next]_vars

\* The threads run, waits time out, and the modem opens again when it is asked to.
FairSpec ==
    /\ Spec
    /\ WF_vars(AdapterThread)
    /\ WF_vars(LocApiThread)
    /\ WF_vars(TimerThread)
    /\ WF_vars(\E t \in threads : NiThread(t))
=============================================================================
