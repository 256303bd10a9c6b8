---------------------------- MODULE NetInitiated ----------------------------
(***************************************************************************)
(* Network-initiated location requests (NI, gps/gnss/GnssAdapter.cpp).     *)
(* The modem passes on a request of the network; it is denied while the    *)
(* lock keeps the network out, or shown to the user, whose answer goes     *)
(* back to the modem.  Each of the two sessions, for emergency SUPL and    *)
(* for the others, has a thread of its own that waits for the answer, up   *)
(* to a time.                                                              *)
(*                                                                         *)
(* The session is shared: the adapter's thread looks at it without the     *)
(* mutex, then writes the answer under it; the waiting thread frees it     *)
(* under the mutex, then clears its id without.                            *)
(***************************************************************************)
EXTENDS EngineConfig

CONSTANT DenyOnLocked   \* NI_SUPL_DENY_ON_NFW_LOCKED of gps.conf

ASSUME NetInitiatedAssumption == DenyOnLocked \in BOOLEAN

Kinds == {"session", "sessionEs"}
Answers == {"ACCEPT", "DENY", "NO_RESPONSE", "IGNORE"}

VARIABLES
    niCb,       \* a client has a gnssNiCb
    ni,         \* NiSession of each kind: its request (rawRequest, 0 for none), its id
                \* (reqID), respRecvd and resp
    niCounter,  \* NiData::reqIDCounter
    threads,    \* the NI threads: kind, pc, and the answer they will post
    writes,     \* what the handler under way of the adapter's thread has yet to write
    shown,      \* pairs of an id and the request the user was asked about with it
    said,       \* the answer of the user to each request, if any
    told,       \* answers of the adapter to each request
    decided,    \* requests answered without asking the user
    closed      \* requests that are not, and need not be, answered

niVars == <<niCb, ni, niCounter, threads, writes, shown, said, told, decided, closed>>

Requests == 1..MaxCalls

InitNi ==
    /\ niCb = plan.listens
    /\ ni = [k \in Kinds |-> [raw |-> 0, id |-> 0, recvd |-> FALSE, resp |-> "NO_RESPONSE"]]
    /\ niCounter = 0
    /\ threads = {}
    /\ writes = << >>
    /\ shown = {}
    /\ said = [r \in Requests |-> {}]
    /\ told = [r \in Requests |-> << >>]
    /\ decided = {}
    /\ closed = {}

Tell(r, answer) == told' = [told EXCEPT ![r] = Append(@, answer)]

-----------------------------------------------------------------------------
(* The framework's callback and the modem's requests.                      *)

SetNiCb(on) ==
    /\ Call("ni", [type |-> "NiCb", on |-> on])
    /\ UNCHANGED niVars

HandleNiCb ==
    /\ Handle("NiCb", << >>)
    /\ niCb' = Head(msgs).on
    /\ UNCHANGED <<ni, niCounter, threads, writes, shown, said, told, decided, closed>>

RequestNiNotifyEvent ==
    /\ modem = "up"
    /\ Call("ni", [type |-> "NiNotify", request |-> Number("ni")])
    /\ UNCHANGED niVars

\* An NI thread of each new session waits for the answer.  If it cannot be made
\* the user is asked all the same, and nothing ends the session any more.
StartSession(k, r) ==
    /\ niCounter' = niCounter + 1
    /\ ni' = [ni EXCEPT ![k].raw = r, ![k].id = niCounter + 1]
    /\ \/ threads' = threads \cup {[kind |-> k, id |-> niCounter + 1, pc |-> "waiting",
                                    request |-> 0, answer |-> "IGNORE"]}
       \/ ~plan.spawns /\ UNCHANGED threads
    /\ shown' = shown \cup {<<niCounter + 1, r>>}
    /\ UNCHANGED <<niCb, writes, said, told, decided, closed>>

\* The request is dropped: nobody tells the modem.
Drop(r) ==
    /\ closed' = closed \cup {r}
    /\ UNCHANGED <<niCb, ni, niCounter, threads, writes, shown, said, told, decided>>

\* Nobody to ask: an emergency is accepted, and the other session ignored.
AcceptUnasked(r) ==
    /\ Tell(r, "ACCEPT")
    /\ decided' = decided \cup {r}
    /\ writes' = IF ni["session"].raw = 0 THEN << >> ELSE <<<<"session", "IGNORE">>>>
    /\ UNCHANGED <<niCb, ni, niCounter, threads, shown, said, closed>>

DecideAtOnce(r, answer) ==
    /\ Tell(r, answer)
    /\ decided' = decided \cup {r}
    /\ UNCHANGED <<niCb, ni, niCounter, threads, writes, shown, said, closed>>

\* requestNiNotify: one session of a kind, and none beside an emergency.
RequestNiNotify(k, r) ==
    IF ~niCb THEN IF k = "sessionEs" THEN AcceptUnasked(r) ELSE Drop(r)
    ELSE IF ni[k].raw # 0 \/ ni["sessionEs"].raw # 0 THEN Drop(r)
    ELSE StartSession(k, r)

\* The lock keeps the network out, in the Q behaviour or with location disabled.
NetworkLocked == DenyOnLocked /\ (nfw \/ afw = 0) /\ "NI" \in gpsLock

\* What is done with a request of this type: override is its privacy option,
\* anyEs and cpEs the settings SUPL_ES = 0 and CP_MTLR_ES = 1.
Decide(r, type, emergency, override, anyEs, cpEs) ==
    IF NetworkLocked /\ type # "CP" /\ ~emergency /\ ~override THEN DecideAtOnce(r, "DENY")
    ELSE IF type = "ES"
    THEN IF emergency \/ anyEs THEN RequestNiNotify("sessionEs", r)
         ELSE DecideAtOnce(r, "DENY")
    ELSE IF type = "CP" /\ emergency /\ cpEs THEN DecideAtOnce(r, "ACCEPT")
    ELSE RequestNiNotify("session", r)

\* In calm surroundings the thread of the last session has cleared its id.
HandleNiNotify ==
    LET r == Head(msgs).request
    IN  /\ Rough \/ \A t \in threads : t.pc = "waiting"
        /\ Handle("NiNotify", << >>)
        /\ \E type \in {"SUPL", "ES", "CP"}, emergency, override, anyEs, cpEs \in BOOLEAN :
               Decide(r, type, emergency, override, anyEs, cpEs)

-----------------------------------------------------------------------------
(* The user's answer.                                                      *)

GnssNiResponse(id, r, answer) ==
    /\ <<id, r>> \in shown
    /\ said[r] = {}
    /\ said' = [said EXCEPT ![r] = {answer}]
    /\ Post(<<[type |-> "NiResponse", id |-> id, answer |-> answer]>>)
    /\ UNCHANGED <<niCb, ni, niCounter, threads, writes, shown, told, decided, closed>>

Writes(k, answer) == <<<<k, answer>>>>

\* Mutant: the sessions are told apart by being busy, not by the id.
ResponseToAnySession ==
    LET m == Head(msgs)
        es == ni["sessionEs"]
        plain == ni["session"]
    IN  /\ Handle("NiResponse", << >>)
        /\ writes' = IF ~niCb THEN << >>
                     ELSE IF es.raw # 0 THEN Writes("sessionEs", m.answer)
                     ELSE IF plain.raw # 0 THEN Writes("session", m.answer)
                     ELSE << >>
        /\ UNCHANGED <<niCb, ni, niCounter, threads, shown, said, told, decided, closed>>

\* MsgGnssNiResponse looks for the session without the mutex.  An accepted
\* emergency has the other session ignored.
HandleNiResponse ==
    LET m == Head(msgs)
        es == ni["sessionEs"]
        plain == ni["session"]
    IN  /\ Handle("NiResponse", << >>)
        /\ writes' = IF ~niCb THEN << >>
                     ELSE IF m.id = es.id /\ es.raw # 0
                     THEN (IF m.answer = "ACCEPT" /\ plain.raw # 0
                           THEN Writes("session", "IGNORE") ELSE << >>)
                          \o Writes("sessionEs", m.answer)
                     ELSE IF m.id = plain.id /\ plain.raw # 0 THEN Writes("session", m.answer)
                     ELSE << >>
        /\ UNCHANGED <<niCb, ni, niCounter, threads, shown, said, told, decided, closed>>

\* The answer is written under the mutex.
WriteResponse ==
    /\ writes # << >>
    /\ LET w == Head(writes)
       IN  ni' = [ni EXCEPT ![w[1]].resp = w[2], ![w[1]].recvd = TRUE]
    /\ writes' = Tail(writes)
    /\ UNCHANGED <<adapterVars, niCb, niCounter, threads, shown, said, told, decided, closed>>

-----------------------------------------------------------------------------
(* niThreadProc.                                                           *)

\* Mutant: a time-out leaves the session taken.
TimeoutKeepsSession(t, timeout) ==
    LET s == ni[t.kind]
        answer == IF timeout THEN "NO_RESPONSE" ELSE s.resp
        sends == s.raw # 0 /\ answer # "IGNORE"
    IN  /\ t.pc = "waiting"
        /\ timeout \/ s.recvd
        /\ Rough \/ writes = << >>
        /\ ni' = [ni EXCEPT ![t.kind].recvd = FALSE, ![t.kind].resp = answer,
                            ![t.kind].raw = IF timeout THEN @ ELSE 0]
        /\ threads' = (threads \ {t}) \cup
               {[t EXCEPT !.pc = "clearing", !.request = IF sends THEN s.raw ELSE 0,
                          !.answer = answer]}
        /\ closed' = IF s.raw # 0 /\ ~sends THEN closed \cup {s.raw} ELSE closed
        /\ UNCHANGED <<adapterVars, niCb, niCounter, writes, shown, said, told, decided>>

\* The wait ends, with the user's answer or by the time, that wins when both
\* are there.  In calm surroundings it does not end between the two steps of a
\* response.
NiThreadWakes(t, timeout) ==
    LET s == ni[t.kind]
        answer == IF timeout THEN "NO_RESPONSE" ELSE s.resp
        sends == s.raw # 0 /\ answer # "IGNORE"
    IN  /\ t.pc = "waiting"
        /\ timeout \/ s.recvd
        /\ Rough \/ writes = << >>
        /\ ni' = [ni EXCEPT ![t.kind].recvd = FALSE, ![t.kind].resp = answer,
                            ![t.kind].raw = 0]
        /\ threads' = (threads \ {t}) \cup
               {[t EXCEPT !.pc = "clearing", !.request = IF sends THEN s.raw ELSE 0,
                          !.answer = answer]}
        /\ closed' = IF s.raw # 0 /\ ~sends THEN closed \cup {s.raw} ELSE closed
        /\ UNCHANGED <<adapterVars, niCb, niCounter, writes, shown, said, told, decided>>

\* The id is cleared, whosever it is now, and the answer posted.
NiThreadEnds(t) ==
    /\ t.pc = "clearing"
    /\ threads' = threads \ {t}
    /\ ni' = [ni EXCEPT ![t.kind].id = 0]
    /\ Post(IF t.request = 0 THEN << >>
            ELSE <<[type |-> "NiAnswer", request |-> t.request, answer |-> t.answer]>>)
    /\ UNCHANGED <<niCb, niCounter, writes, shown, said, told, decided, closed>>

HandleNiAnswer ==
    /\ Handle("NiAnswer", << >>)
    /\ Tell(Head(msgs).request, Head(msgs).answer)
    /\ UNCHANGED <<niCb, ni, niCounter, threads, writes, shown, said, decided, closed>>

-----------------------------------------------------------------------------
(* Properties.                                                             *)

\* A request gets one answer at most, none if it is dropped or ignored; and
\* what the modem is told was decided without the user, is what the user said
\* of this very request, or that the user did not say.  Rough surroundings break
\* the latter: an answer written to a session that has just timed out is taken
\* by the next one (GnssAdapter.cpp:3536, :4646).
AnswerIsOwn ==
    \A r \in Requests :
        /\ Len(told[r]) <= 1
        /\ r \in closed => told[r] = << >>
        /\ told[r] # << >> /\ ~Rough /\ r \notin decided =>
               Head(told[r]) \in said[r] \cup {"NO_RESPONSE"}

\* A request the user is asked about is answered or ignored in the end, and its
\* session free for another, also when ids are mixed up, as long as every session
\* gets its thread: one without keeps its kind taken for ever.
\* (There are not more requests than the plan allows.)
NiIsClosed ==
    LET Undecided == {p \in shown : told[p[2]] = << >> /\ p[2] \notin closed}
    IN  plan.spawns /\ Undecided # {} ~> Undecided = {} /\ \A k \in Kinds : ni[k].raw = 0
=============================================================================
