---------------------------- MODULE EngineConfig ----------------------------
(***************************************************************************)
(* What GnssAdapter configures in the modem, and who asks for it           *)
(* (gps/gnss/GnssAdapter.cpp, gps/location/LocationAPIClientBase.cpp):     *)
(*                                                                         *)
(*   - the GPS lock, that keeps positions from the device (MO) and from    *)
(*     the network (NI): the framework enables and disables location,      *)
(*     allows the network access (the "Q behaviour") or, older, sets the   *)
(*     lock to use while location is disabled (the "P behaviour", from     *)
(*     its first such call on);                                            *)
(*   - the satellites not to use, the blacklist.                           *)
(*                                                                         *)
(* The lock is kept in GPS_LOCK, sent to the modem by the other thread,    *)
(* and both are sent again at each engine-up event.  The other items of    *)
(* GnssConfig are copied only; they are left out.                          *)
(***************************************************************************)
EXTENDS LocAdapter

CONSTANTS
    LockConfigs,  \* the locks the framework sets, the older way
    Lists         \* the lists of satellites it does not want

ASSUME EngineConfigAssumption == LockConfigs \subseteq SUBSET {"MO", "NI"}

VARIABLES
    gpsLock,      \* ContextBase::mGps_conf.GPS_LOCK
    nfw,          \* mSupportNfwControl: the Q behaviour
    afw,          \* mAfwControlId, 0 when location is disabled
    blacklist,    \* mBlacklistedSvIds, and mGnssSvIdConfig made of it
    enabled,      \* LocationAPIControlClient::mEnabled
    session,      \* the session of its last enable
    lastConfig,   \* its mConfig
    modemLock,    \* the lock in the modem, kept over a restart
    modemList,    \* the blacklist in the modem
    wish,         \* what the framework asked for last: the NI lock, the list
    open          \* configurations asked for and not answered

configVars == <<gpsLock, nfw, afw, blacklist, enabled, session, lastConfig,
                modemLock, modemList, wish, open>>

NoList == CHOOSE l \in Lists : TRUE

\* The modem may hold another lock than gps.conf.
InitConfig ==
    /\ gpsLock = plan.lock
    /\ nfw = TRUE
    /\ afw = 0
    /\ blacklist = NoList
    /\ enabled = FALSE
    /\ session = 0
    /\ lastConfig = [item |-> "none"]
    /\ modemLock = {"MO", "NI"}
    /\ modemList = NoList
    /\ wish = [deny |-> "NI" \in gpsLock, list |-> NoList]
    /\ open = {}

SetLock(lock) == <<[type |-> "SetLock", lock |-> lock]>>

-----------------------------------------------------------------------------
(* Location enabled and disabled.                                          *)

LocAPIEnable ==
    /\ ~enabled
    /\ enabled' = TRUE
    /\ session' = Number("config")
    /\ Call("config", [type |-> "Enable", id |-> Number("config")])
    /\ UNCHANGED <<gpsLock, nfw, afw, blacklist, lastConfig, modemLock, modemList, wish, open>>

LocAPIDisable ==
    /\ enabled
    /\ enabled' = FALSE
    /\ Call("config", [type |-> "Disable", id |-> session])
    /\ UNCHANGED <<gpsLock, nfw, afw, blacklist, session, lastConfig, modemLock, modemList,
                   wish, open>>

HandleEnable ==
    LET id == Head(msgs).id
        lock == IF nfw THEN gpsLock \cap {"NI"} ELSE {}
    IN  /\ Handle("Enable", IF afw = 0 THEN SetLock(lock) ELSE << >>)
        /\ IF afw = 0
           THEN /\ afw' = id
                /\ gpsLock' = IF nfw THEN lock ELSE gpsLock
           ELSE UNCHANGED <<afw, gpsLock>>
        /\ UNCHANGED <<nfw, blacklist, enabled, session, lastConfig, modemLock, modemList,
                       wish, open>>

\* Mutant: the lock of the Q behaviour is not taken when location is disabled.
DisableKeepsLock ==
    LET id == Head(msgs).id
        lock == gpsLock
    IN  /\ Handle("Disable", IF afw = id THEN SetLock(lock) ELSE << >>)
        /\ IF afw = id THEN afw' = 0 /\ gpsLock' = lock ELSE UNCHANGED <<afw, gpsLock>>
        /\ UNCHANGED <<nfw, blacklist, enabled, session, lastConfig, modemLock, modemList,
                       wish, open>>

HandleDisable ==
    LET id == Head(msgs).id
        lock == IF nfw THEN gpsLock \cup {"MO"} ELSE gpsLock
    IN  /\ Handle("Disable", IF afw = id THEN SetLock(lock) ELSE << >>)
        /\ IF afw = id THEN afw' = 0 /\ gpsLock' = lock ELSE UNCHANGED <<afw, gpsLock>>
        /\ UNCHANGED <<nfw, blacklist, enabled, session, lastConfig, modemLock, modemList,
                       wish, open>>

-----------------------------------------------------------------------------
(* The network's access.                                                   *)

LockConfigComes ==
    \/ \E i \in 1..Len(msgs) : msgs[i].type = "UpdateConfig" /\ msgs[i].item = "lock"
    \/ ~capsKnown /\ \E i \in 1..Len(pending) : pending[i].item = "lock"

\* nfwControlCommand asks for the behaviour on the caller's thread.  In calm
\* surroundings no lock of the older kind is on its way.
NfwControl(enable) ==
    /\ nfw
    /\ Rough \/ ~LockConfigComes
    /\ wish' = [wish EXCEPT !.deny = ~enable]
    /\ Call("config", [type |-> "Nfw", enable |-> enable])
    /\ UNCHANGED <<gpsLock, nfw, afw, blacklist, enabled, session, lastConfig, modemLock,
                   modemList, open>>

HandleNfw ==
    LET lock == IF Head(msgs).enable THEN gpsLock \ {"NI"} ELSE gpsLock \cup {"NI"}
    IN  /\ Handle("Nfw", SetLock(lock))
        /\ gpsLock' = lock
        /\ UNCHANGED <<nfw, afw, blacklist, enabled, session, lastConfig, modemLock, modemList,
                       wish, open>>

-----------------------------------------------------------------------------
(* Configurations of one item.                                             *)

\* locAPIGnssUpdateConfig: the configuration of the last call is not sent
\* again.  In calm surroundings none is sent that would overtake those held.
UpdateConfig(item, value) ==
    /\ lastConfig # [item |-> item, value |-> value]
    /\ Rough \/ capsKnown \/ ~Queued("EngineUp")
    /\ lastConfig' = [item |-> item, value |-> value]
    /\ wish' = IF item = "list" THEN [wish EXCEPT !.list = value]
               ELSE [wish EXCEPT !.deny = "NI" \in value]
    /\ open' = open \cup {Number("config")}
    /\ Call("config", [type |-> "UpdateConfig", id |-> Number("config"), item |-> item, value |-> value])
    /\ UNCHANGED <<gpsLock, nfw, afw, blacklist, enabled, session, modemLock, modemList>>

HoldConfig == Hold("UpdateConfig") /\ UNCHANGED configVars

\* What LocApiBase is asked to set: a lock, a list, and the configuration to
\* answer, 0 for none.
Config(locks, lists, id) ==
    <<[type |-> "Config", locks |-> locks, lists |-> lists, id |-> id]>>

\* The first lock of the older kind, while location is enabled, unlocks all;
\* later ones wait for location to be disabled.
HandleLockConfig ==
    LET m == Head(msgs)
        new == m.value \cup {"MO"}
        sent == IF afw = 0 THEN {new} ELSE IF nfw THEN {{}} ELSE {}
    IN  /\ Handle("UpdateConfig", Config(sent, {}, m.id))
        /\ capsKnown
        /\ m.item = "lock"
        /\ gpsLock' = new
        /\ nfw' = FALSE
        /\ UNCHANGED <<afw, blacklist, enabled, session, lastConfig, modemLock, modemList,
                       wish, open>>

HandleListConfig ==
    LET m == Head(msgs)
    IN  /\ Handle("UpdateConfig", Config({}, {m.value}, m.id))
        /\ capsKnown
        /\ m.item = "list"
        /\ UNCHANGED configVars

ConfigAnswer(id) ==
    IF id = 0 THEN << >> ELSE <<[type |-> "ConfigAnswer", id |-> id]>>

\* reportResponse of the collective response.
HandleConfigAnswer ==
    /\ Handle("ConfigAnswer", << >>)
    /\ open' = open \ {Head(msgs).id}
    /\ UNCHANGED <<gpsLock, nfw, afw, blacklist, enabled, session, lastConfig, modemLock,
                   modemList, wish>>

-----------------------------------------------------------------------------
(* The thread of LocApiBase.                                               *)

Accepts(old, new) == IF modem = "down" THEN old ELSE new

ServeSetLock ==
    /\ Serve("SetLock", << >>)
    /\ modemLock' = Accepts(modemLock, Head(apiq).lock)
    /\ UNCHANGED <<gpsLock, nfw, afw, blacklist, enabled, session, lastConfig, modemList,
                   wish, open>>

\* Mutant: the list is not kept for the next engine-up event.
ListIsNotKept ==
    LET r == Head(apiq)
        lists == IF plan.blacklists THEN r.lists ELSE {}
    IN  /\ Serve("Config", ConfigAnswer(r.id))
        /\ modemLock' = IF r.locks = {} THEN modemLock
                        ELSE Accepts(modemLock, CHOOSE l \in r.locks : TRUE)
        /\ modemList' = IF lists = {} THEN modemList
                        ELSE Accepts(modemList, CHOOSE l \in lists : TRUE)
        /\ UNCHANGED <<gpsLock, nfw, afw, blacklist, enabled, session, lastConfig, wish, open>>

\* gnssUpdateConfig: the list is kept by this thread, whether the modem takes it or
\* is down.  A modem that cannot take lists is sent none, and none is kept.
GnssUpdateConfig ==
    LET r == Head(apiq)
        lists == IF plan.blacklists THEN r.lists ELSE {}
        list == IF lists = {} THEN blacklist ELSE CHOOSE l \in lists : TRUE
    IN  /\ Serve("Config", ConfigAnswer(r.id))
        /\ modemLock' = IF r.locks = {} THEN modemLock
                        ELSE Accepts(modemLock, CHOOSE l \in r.locks : TRUE)
        /\ blacklist' = list
        /\ modemList' = IF lists = {} THEN modemList ELSE Accepts(modemList, list)
        /\ UNCHANGED <<gpsLock, nfw, afw, enabled, session, lastConfig, wish, open>>

ServeSetBlacklist ==
    /\ Serve("SetBlacklist", << >>)
    /\ modemList' = Accepts(modemList, Head(apiq).list)
    /\ UNCHANGED <<gpsLock, nfw, afw, blacklist, enabled, session, lastConfig, modemLock,
                   wish, open>>

\* setConfig and gnssSvIdConfigUpdate at an engine-up event: the lock by the
\* behaviour, the list as it is now.
SetConfig ==
    Config({IF nfw \/ afw = 0 THEN gpsLock ELSE {}}, {blacklist}, 0)
    \o <<[type |-> "SetBlacklist", list |-> blacklist]>>

\* A restart of the modem loses the list.
LoseConfig ==
    /\ modemList' = NoList
    /\ UNCHANGED <<gpsLock, nfw, afw, blacklist, enabled, session, lastConfig, modemLock,
                   wish, open>>

-----------------------------------------------------------------------------
(* Properties.                                                             *)

\* The lock the framework asked for, once it enabled location: nothing locked
\* in the P behaviour while location is enabled.
WantedLock ==
    LET ni == IF wish.deny THEN {"NI"} ELSE {}
    IN  IF ~enabled THEN {"MO"} \cup ni ELSE IF nfw THEN ni ELSE {}

\* When nothing is under way the modem has the lock the framework asked for,
\* through changes of behaviour and restarts.  Rough surroundings break it: an
\* nfwControlCommand that found the Q behaviour is handled after the first lock
\* of the older kind and locks a device whose location is enabled
\* (GnssAdapter.cpp:5906).
LockFollowsFramework ==
    ~Rough /\ Quiet /\ session > 0 => modemLock = WantedLock

\* When nothing is under way a modem that takes lists has the one the framework
\* asked for last, over restarts and with configurations held until the first
\* engine-up event.  Rough surroundings break it: setConfig sends the list of before the
\* request that is still on its way (GnssAdapter.cpp:939).
ListFollowsFramework ==
    ~Rough /\ plan.blacklists /\ Quiet => modemList = wish.list

=============================================================================
