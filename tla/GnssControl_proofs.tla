------------------------- MODULE GnssControl_proofs -------------------------
(***************************************************************************)
(* Proofs about GnssControl, for any plans, locks and lists:               *)
(*                                                                         *)
(*   - a request for positions on demand always has a timer that will ask  *)
(*     again, whatever else is in the queues;                              *)
(*   - when nothing is under way the modem has the lock and the list that  *)
(*     the framework asked for;                                            *)
(*   - a request of the network is answered once at most, and with what    *)
(*     the user said of it.                                                *)
(***************************************************************************)
EXTENDS GnssControl, SequenceTheorems, TLAPS

Expire == "OdcpiTimerExpire"

AnySeq(s) == \E S : s \in Seq(S)

Has(s, type) == \E i \in 1..Len(s) : s[i].type = type

SeqOK == AnySeq(msgs) /\ AnySeq(pending)

IInv == SeqOK /\ OdcpiIsTimed

\* What a step does that takes no expiry from the queue.
Kept == SeqOK' /\ (Queued(Expire) => Queued(Expire)')

-----------------------------------------------------------------------------
(* Sequences of any messages.                                              *)

\* Short sequences.
LEMMA ShortSeq ==
  ASSUME NEW m
  PROVE  AnySeq(<< >>) /\ AnySeq(<<m>>) /\ Has(<<m>>, m.type)
  <1>1. << >> \in Seq({m}) /\ <<m>> \in Seq({m})
    OBVIOUS
  <1>2. 1 \in 1..Len(<<m>>) /\ <<m>>[1] = m
    OBVIOUS
  <1> QED BY <1>1, <1>2 DEF AnySeq, Has

\* One sequence after the other: each message of both stays.
LEMMA ConcatKeeps ==
  ASSUME NEW s, NEW r, NEW type, AnySeq(s), AnySeq(r)
  PROVE  AnySeq(s \o r) /\ (Has(s, type) \/ Has(r, type) => Has(s \o r, type))
  <1>1. PICK S : s \in Seq(S)
    BY DEF AnySeq
  <1>2. PICK R : r \in Seq(R)
    BY DEF AnySeq
  <1> DEFINE T == S \union R
  <1>3. s \in Seq(T) /\ r \in Seq(T)
    BY <1>1, <1>2, SeqMonotonic
  <1>4. /\ s \o r \in Seq(T)
        /\ Len(s \o r) = Len(s) + Len(r)
        /\ \A i \in 1..Len(s) : (s \o r)[i] = s[i]
        /\ \A i \in 1..Len(r) : (s \o r)[Len(s) + i] = r[i]
    BY <1>3, ConcatProperties
  <1>5. Len(s) \in Nat /\ Len(r) \in Nat
    BY <1>3, LenProperties
  <1>6. Has(s, type) => Has(s \o r, type)
    BY <1>4, <1>5 DEF Has
  <1>7. ASSUME NEW i \in 1..Len(r), r[i].type = type
        PROVE  Has(s \o r, type)
    <2>1. Len(s) + i \in 1..Len(s \o r)
      BY <1>4, <1>5
    <2>2. (s \o r)[Len(s) + i].type = type
      BY <1>4, <1>7
    <2> QED BY <2>1, <2>2 DEF Has
  <1>8. Has(r, type) => Has(s \o r, type)
    BY <1>7 DEF Has
  <1> QED BY <1>4, <1>6, <1>8 DEF AnySeq

\* One message more.
LEMMA AppendKeeps ==
  ASSUME NEW s, NEW m, NEW type, AnySeq(s)
  PROVE  AnySeq(Append(s, m)) /\ (Has(s, type) => Has(Append(s, m), type))
  <1>1. PICK S : s \in Seq(S)
    BY DEF AnySeq
  <1> DEFINE T == S \union {m}
  <1>2. s \in Seq(T) /\ m \in T
    BY <1>1, SeqMonotonic
  <1>3. /\ Append(s, m) \in Seq(T)
        /\ Len(Append(s, m)) = Len(s) + 1
        /\ \A i \in 1..Len(s) : Append(s, m)[i] = s[i]
    BY <1>2, AppendProperties
  <1>4. Len(s) \in Nat
    BY <1>2, LenProperties
  <1>5. Has(s, type) => Has(Append(s, m), type)
    BY <1>3, <1>4 DEF Has
  <1> QED BY <1>3, <1>5 DEF AnySeq

\* The first message taken, of another type.
LEMMA TailKeeps ==
  ASSUME NEW s, NEW type, AnySeq(s), s # << >>
  PROVE  /\ AnySeq(Tail(s))
         /\ Has(s, type) /\ Head(s).type # type => Has(Tail(s), type)
  <1>1. PICK S : s \in Seq(S)
    BY DEF AnySeq
  <1>2. /\ Tail(s) \in Seq(S)
        /\ Len(Tail(s)) = Len(s) - 1
        /\ \A i \in 1..Len(Tail(s)) : Tail(s)[i] = s[i + 1]
    BY <1>1, HeadTailProperties
  <1>3. Len(s) \in Nat \ {0} /\ Head(s) = s[1]
    BY <1>1, LenProperties, EmptySeq
  <1>4. ASSUME NEW i \in 1..Len(s), s[i].type = type, Head(s).type # type
        PROVE  Has(Tail(s), type)
    <2>1. i # 1
      BY <1>3, <1>4
    <2>2. i - 1 \in 1..Len(Tail(s)) /\ (i - 1) + 1 = i
      BY <2>1, <1>2, <1>3
    <2>3. Tail(s)[i - 1].type = type
      BY <2>2, <1>2, <1>4
    <2> QED BY <2>2, <2>3 DEF Has
  <1> QED BY <1>2, <1>4 DEF AnySeq, Has

-----------------------------------------------------------------------------
(* The steps on the queue.                                                 *)

\* A call adds a message.
LEMMA CallKeeps ==
  ASSUME SeqOK, NEW theme, NEW m, Call(theme, m)
  PROVE  Kept
  <1>1. msgs' = Append(msgs, m) /\ pending' = pending
    BY DEF Call
  <1>2. AnySeq(msgs') /\ (Has(msgs, Expire) => Has(msgs', Expire))
    BY <1>1, AppendKeeps DEF SeqOK
  <1> QED BY <1>1, <1>2 DEF Kept, SeqOK, Queued, Has

\* A handler takes its own message only.
LEMMA HandleKeeps ==
  ASSUME SeqOK, NEW type, NEW sends, Handle(type, sends)
  PROVE  SeqOK' /\ (type # Expire => Kept)
  <1>1. /\ msgs # << >> /\ Head(msgs).type = type
        /\ msgs' = Tail(msgs) /\ pending' = pending
    BY DEF Handle
  <1>2. AnySeq(msgs') /\ (Has(msgs, Expire) /\ type # Expire => Has(msgs', Expire))
    BY <1>1, TailKeeps DEF SeqOK
  <1> QED BY <1>1, <1>2 DEF Kept, SeqOK, Queued, Has

\* A message that is held is one of its own type.
LEMMA HoldKeeps ==
  ASSUME SeqOK, Hold("UpdateConfig")
  PROVE  Kept
  <1>1. /\ msgs # << >> /\ Head(msgs).type = "UpdateConfig"
        /\ msgs' = Tail(msgs) /\ pending' = Append(pending, Head(msgs))
    BY DEF Hold
  <1>2. AnySeq(msgs') /\ (Has(msgs, Expire) => Has(msgs', Expire))
    BY <1>1, TailKeeps, "UpdateConfig" # Expire DEF SeqOK, Expire
  <1>3. AnySeq(pending')
    BY <1>1, AppendKeeps DEF SeqOK
  <1> QED BY <1>2, <1>3 DEF Kept, SeqOK, Queued, Has

\* The messages held come behind those there are.
LEMMA EngineUpKeeps ==
  ASSUME SeqOK, NEW sends, HandleEngineUp(sends)
  PROVE  Kept
  <1>1. /\ msgs # << >> /\ Head(msgs).type = "EngineUp"
        /\ msgs' = Tail(msgs) \o pending /\ pending' = pending
    BY DEF HandleEngineUp
  <1>2. AnySeq(Tail(msgs)) /\ (Has(msgs, Expire) => Has(Tail(msgs), Expire))
    BY <1>1, TailKeeps, "EngineUp" # Expire DEF SeqOK, Expire
  <1>3. AnySeq(msgs') /\ (Has(Tail(msgs), Expire) => Has(msgs', Expire))
    BY <1>1, <1>2, ConcatKeeps DEF SeqOK
  <1> QED BY <1>1, <1>2, <1>3 DEF Kept, SeqOK, Queued, Has

\* What the thread of LocApiBase answers comes behind.
LEMMA ServeKeeps ==
  ASSUME SeqOK, NEW type, NEW answers, AnySeq(answers), Serve(type, answers)
  PROVE  Kept
  <1>1. msgs' = msgs \o answers /\ pending' = pending
    BY DEF Serve
  <1>2. AnySeq(msgs') /\ (Has(msgs, Expire) => Has(msgs', Expire))
    BY <1>1, ConcatKeeps DEF SeqOK
  <1> QED BY <1>1, <1>2 DEF Kept, SeqOK, Queued, Has

\* And what another thread posts.
LEMMA PostKeeps ==
  ASSUME SeqOK, NEW ms, AnySeq(ms), Post(ms)
  PROVE  Kept /\ (Has(ms, Expire) => Queued(Expire)')
  <1>1. msgs' = msgs \o ms /\ pending' = pending
    BY DEF Post
  <1>2. AnySeq(msgs') /\ (Has(msgs, Expire) \/ Has(ms, Expire) => Has(msgs', Expire))
    BY <1>1, ConcatKeeps DEF SeqOK
  <1> QED BY <1>1, <1>2 DEF Kept, SeqOK, Queued, Has

\* A step that leaves positions on demand alone.
LEMMA Untouched ==
  ASSUME IInv, Kept, UNCHANGED odcpiVars
  PROVE  IInv'
  BY DEF IInv, Kept, OdcpiIsTimed, odcpiVars, Expire

-----------------------------------------------------------------------------
(* The actions of each part.                                               *)

\* Calls of the framework and handlers of the configuration.
LEMMA ConfigKeeps ==
  ASSUME SeqOK, FrameworkConfigures \/ HandleConfigMessage
  PROVE  Kept /\ UNCHANGED odcpiVars
  <1>1. CASE FrameworkConfigures
    <2>1. UNCHANGED odcpiVars
      BY <1>1 DEF FrameworkConfigures
    <2>2. \E m : Call("config", m)
      BY <1>1 DEF FrameworkConfigures, LocAPIEnable, LocAPIDisable, NfwControl, UpdateConfig
    <2> QED BY <2>1, <2>2, CallKeeps
  <1>2. CASE HandleConfigMessage
    <2>1. UNCHANGED odcpiVars
      BY <1>2 DEF HandleConfigMessage
    <2>2. CASE HoldConfig
      BY <2>1, <2>2, HoldKeeps DEF HoldConfig
    <2>3. CASE HandleEnable
      <3>1. \E sends : Handle("Enable", sends)
        BY <2>3 DEF HandleEnable
      <3> QED BY <3>1, <2>1, HandleKeeps, "Enable" # Expire DEF Expire
    <2>4. CASE HandleDisable
      <3>1. \E sends : Handle("Disable", sends)
        BY <2>4 DEF HandleDisable
      <3> QED BY <3>1, <2>1, HandleKeeps, "Disable" # Expire DEF Expire
    <2>5. CASE HandleNfw
      <3>1. \E sends : Handle("Nfw", sends)
        BY <2>5 DEF HandleNfw
      <3> QED BY <3>1, <2>1, HandleKeeps, "Nfw" # Expire DEF Expire
    <2>6. CASE HandleLockConfig \/ HandleListConfig
      <3>1. \E sends : Handle("UpdateConfig", sends)
        BY <2>6 DEF HandleLockConfig, HandleListConfig
      <3> QED BY <3>1, <2>1, HandleKeeps, "UpdateConfig" # Expire DEF Expire
    <2>7. CASE HandleConfigAnswer
      <3>1. Handle("ConfigAnswer", << >>)
        BY <2>7 DEF HandleConfigAnswer
      <3> QED BY <3>1, <2>1, HandleKeeps, "ConfigAnswer" # Expire DEF Expire
    <2> QED
      BY <1>2, <2>2, <2>3, <2>4, <2>5, <2>6, <2>7 DEF HandleConfigMessage
  <1> QED BY <1>1, <1>2

\* Requests of the network, the user's answers and their handlers.
LEMMA NiKeeps ==
  ASSUME SeqOK, NiComes \/ HandleNiMessage
  PROVE  Kept /\ UNCHANGED odcpiVars
  <1>1. CASE NiComes
    <2>1. UNCHANGED odcpiVars
      BY <1>1 DEF NiComes
    <2>2. (\E m : Call("ni", m)) \/ (\E m : Post(<<m>>))
      BY <1>1 DEF NiComes, SetNiCb, RequestNiNotifyEvent, GnssNiResponse
    <2> QED BY <2>1, <2>2, CallKeeps, PostKeeps, ShortSeq
  <1>2. CASE HandleNiMessage
    <2>1. UNCHANGED odcpiVars
      BY <1>2 DEF HandleNiMessage
    <2>2. \/ Handle("NiCb", << >>)
          \/ Handle("NiNotify", << >>)
          \/ Handle("NiResponse", << >>)
          \/ Handle("NiAnswer", << >>)
      BY <1>2 DEF HandleNiMessage, HandleNiCb, HandleNiNotify, HandleNiResponse,
                  HandleNiAnswer
    <2>3. /\ "NiCb" # Expire /\ "NiNotify" # Expire
          /\ "NiResponse" # Expire /\ "NiAnswer" # Expire
      BY DEF Expire
    <2> QED BY <2>1, <2>2, <2>3, HandleKeeps
  <1> QED BY <1>1, <1>2

\* The thread of LocApiBase.
LEMMA LocApiThreadKeeps ==
  ASSUME SeqOK, LocApiThread
  PROVE  Kept /\ UNCHANGED odcpiVars
  <1>1. UNCHANGED odcpiVars
    BY DEF LocApiThread
  <1>2. CASE OpenModem
    <2>1. msgs' = Append(msgs, [type |-> "EngineUp"]) /\ pending' = pending
      BY <1>2 DEF OpenModem
    <2>2. AnySeq(msgs') /\ (Has(msgs, Expire) => Has(msgs', Expire))
      BY <2>1, AppendKeeps DEF SeqOK
    <2> QED BY <1>1, <2>1, <2>2 DEF Kept, SeqOK, Queued, Has
  <1>3. CASE ServeSetLock
    BY <1>1, <1>3, ServeKeeps, ShortSeq DEF ServeSetLock
  <1>4. CASE ServeSetBlacklist
    BY <1>1, <1>4, ServeKeeps, ShortSeq DEF ServeSetBlacklist
  <1>5. CASE GnssUpdateConfig
    <2>1. Serve("Config", ConfigAnswer(Head(apiq).id))
      BY <1>5 DEF GnssUpdateConfig
    <2>2. AnySeq(ConfigAnswer(Head(apiq).id))
      BY ShortSeq DEF ConfigAnswer
    <2> QED BY <1>1, <2>1, <2>2, ServeKeeps
  <1> QED BY <1>2, <1>3, <1>4, <1>5 DEF LocApiThread

\* The threads of the sessions.
LEMMA NiThreadKeeps ==
  ASSUME SeqOK, NEW t \in threads, NiThread(t)
  PROVE  Kept /\ UNCHANGED odcpiVars
  <1>1. UNCHANGED odcpiVars
    BY DEF NiThread
  <1>2. CASE NiThreadEnds(t)
    <2>1. PICK ms : Post(ms) /\ (ms = << >> \/ \E m : ms = <<m>>)
      BY <1>2 DEF NiThreadEnds
    <2> QED BY <1>1, <2>1, PostKeeps, ShortSeq
  <1>3. CASE NiThreadWakes(t, TRUE) \/ NiThreadWakes(t, FALSE)
    BY <1>1, <1>3 DEF NiThreadWakes, adapterVars, Kept, SeqOK, AnySeq, Queued
  <1> QED BY <1>2, <1>3 DEF NiThread

-----------------------------------------------------------------------------
(* Positions on demand.                                                    *)

\* A new client, or a request of the modem.
LEMMA RequestTimed ==
  ASSUME IInv, OdcpiComes \/ HandleInitOdcpi \/ RequestOdcpi
  PROVE  IInv'
  <1>0. SeqOK
    BY DEF IInv
  <1>1. CASE OdcpiComes
    <2>1. UNCHANGED odcpiVars
      BY <1>1 DEF OdcpiComes, InitOdcpiCommand, RequestOdcpiEvent
    <2>2. \E m : Call("odcpi", m)
      BY <1>1 DEF OdcpiComes, InitOdcpiCommand, RequestOdcpiEvent
    <2> QED BY <1>0, <2>1, <2>2, CallKeeps, Untouched
  <1>2. CASE HandleInitOdcpi
    <2>1. Handle("InitOdcpi", << >>)
      BY <1>2 DEF HandleInitOdcpi
    <2>2. Kept
      BY <1>0, <2>1, HandleKeeps, "InitOdcpi" # Expire DEF Expire
    <2>3. UNCHANGED <<odcpiActive, timerActive, timer, expiring>>
      BY <1>2 DEF HandleInitOdcpi
    <2> QED BY <2>2, <2>3 DEF IInv, Kept, OdcpiIsTimed, Expire
  <1>3. CASE RequestOdcpi
    <2>1. Handle("Odcpi", << >>) /\ expiring' = expiring
      BY <1>3 DEF RequestOdcpi
    <2>2. Kept
      BY <1>0, <2>1, HandleKeeps, "Odcpi" # Expire DEF Expire
    <2>3. CASE UNCHANGED <<odcpiActive, timerActive, timer>>
      BY <2>1, <2>2, <2>3 DEF IInv, Kept, OdcpiIsTimed, Expire
    <2>4. CASE StartOdcpi(Head(msgs).emergency)
      <3>1. CASE odcpiActive' = TRUE /\ StartTimer
        BY <2>2, <3>1 DEF IInv, Kept, OdcpiIsTimed, StartTimer
      <3>2. CASE /\ odcpiActive \/ timerActive
                 /\ odcpiActive' = TRUE
                 /\ UNCHANGED <<timerActive, timer>>
        BY <2>1, <2>2, <3>2 DEF IInv, Kept, OdcpiIsTimed, Expire
      <3> QED BY <2>4, <3>1, <3>2 DEF StartOdcpi
    <2>5. CASE StopOdcpi
      BY <2>1, <2>2, <2>5 DEF IInv, Kept, OdcpiIsTimed, StopOdcpi, Expire
    <2> QED BY <1>3, <2>3, <2>4, <2>5 DEF RequestOdcpi
  <1> QED BY <1>1, <1>2, <1>3

\* The timer runs out, and its message is handled.
LEMMA TimerTimed ==
  ASSUME IInv, TimerThread \/ OdcpiTimerExpire
  PROVE  IInv'
  <1>0. SeqOK
    BY DEF IInv
  <1>1. CASE OdcpiTimerExpires
    BY <1>1 DEF OdcpiTimerExpires, adapterVars, IInv, SeqOK, AnySeq, OdcpiIsTimed, Queued
  <1>2. CASE TimeOutCallback
    <2> DEFINE m == [type |-> Expire]
    <2>1. Post(<<m>>) /\ UNCHANGED <<odcpiActive, timerActive>>
      BY <1>2 DEF TimeOutCallback, Expire
    <2>2. AnySeq(<<m>>) /\ Has(<<m>>, Expire)
      <3>1. m.type = Expire
        OBVIOUS
      <3> QED BY <3>1, ShortSeq
    <2>3. Kept /\ Queued(Expire)'
      BY <1>0, <2>1, <2>2, PostKeeps
    <2> QED BY <2>1, <2>3 DEF IInv, Kept, OdcpiIsTimed, Expire
  <1>3. CASE OdcpiTimerExpire
    <2>1. SeqOK'
      <3>1. Handle(Expire, << >>)
        BY <1>3 DEF OdcpiTimerExpire, Expire
      <3> QED BY <1>0, <3>1, HandleKeeps
    <2>2. CASE odcpiActive
      BY <1>3, <2>1, <2>2 DEF OdcpiTimerExpire, StartTimer, IInv, OdcpiIsTimed
    <2>3. CASE ~odcpiActive
      BY <1>3, <2>1, <2>3 DEF OdcpiTimerExpire, IInv, OdcpiIsTimed
    <2> QED BY <2>2, <2>3
  <1> QED BY <1>1, <1>2, <1>3 DEF TimerThread

-----------------------------------------------------------------------------

\* No step leaves a request without its timer.
LEMMA StepKeeps ==
  ASSUME IInv, [Next]_vars
  PROVE  IInv'
  <1>0. SeqOK
    BY DEF IInv
  <1>1. CASE FrameworkConfigures \/ HandleConfigMessage
    BY <1>0, <1>1, ConfigKeeps, Untouched
  <1>2. CASE NiComes \/ HandleNiMessage
    BY <1>0, <1>2, NiKeeps, Untouched
  <1>3. CASE OdcpiComes \/ HandleOdcpiMessage
    BY <1>3, RequestTimed, TimerTimed DEF HandleOdcpiMessage
  <1>4. CASE TimerThread
    BY <1>4, TimerTimed
  <1>5. CASE LocApiThread
    BY <1>0, <1>5, LocApiThreadKeeps, Untouched
  <1>6. CASE \E t \in threads : NiThread(t)
    BY <1>0, <1>6, NiThreadKeeps, Untouched
  <1>7. CASE ModemRestarts
    BY <1>7 DEF ModemRestarts, ModemDown, odcpiVars, IInv, SeqOK, AnySeq, OdcpiIsTimed,
                Queued
  <1>8. CASE HandleEngineUpEvent
    <2>1. HandleEngineUp(SetConfig) /\ ForgetOdcpi
      BY <1>8 DEF HandleEngineUpEvent
    <2>2. Kept
      BY <1>0, <2>1, EngineUpKeeps
    <2> QED BY <2>1, <2>2 DEF ForgetOdcpi, IInv, Kept, OdcpiIsTimed, Expire
  <1>9. CASE WriteResponse /\ UNCHANGED <<configVars, odcpiVars>>
    BY <1>9 DEF WriteResponse, adapterVars, odcpiVars, IInv, SeqOK, AnySeq, OdcpiIsTimed,
                Queued
  <1>10. CASE UNCHANGED vars
    BY <1>10 DEF vars, adapterVars, odcpiVars, IInv, SeqOK, AnySeq, OdcpiIsTimed, Queued
  <1> QED
    BY <1>1, <1>2, <1>3, <1>4, <1>5, <1>6, <1>7, <1>8, <1>9, <1>10 DEF Next, AdapterThread

\* A request for positions on demand has a timer that will ask again, and the
\* timer that is believed to run does, or its expiry is on its way: for any
\* plans, through restarts, new clients, and whatever else is queued.
THEOREM RequestsTimed == Spec => []OdcpiIsTimed
  <1>1. Init => IInv
    <2> SUFFICES ASSUME Init PROVE IInv
      OBVIOUS
    <2>1. AnySeq(msgs) /\ AnySeq(pending)
      BY ShortSeq DEF Init, InitAdapter
    <2> QED BY <2>1 DEF Init, InitOdcpi, IInv, SeqOK, OdcpiIsTimed
  <1>2. IInv /\ [Next]_vars => IInv'
    BY StepKeeps
  <1>3. IInv => OdcpiIsTimed
    BY DEF IInv
  <1> QED BY <1>1, <1>2, <1>3, PTL DEF Spec

-----------------------------------------------------------------------------
(* What a queue sets last.  A message sets at most one value of a kind;    *)
(* taking the first message makes its value the one of before the queue.   *)

\* What a lock keeps from the network.
NiPart(lock) == lock \cap {"NI"}

\* The value m sets, as a set of one, or none: the list and the lock of the
\* network the framework wishes, who enabled location, the list that is kept,
\* the list and the lock of the modem.
Tag(kind, m) ==
    CASE kind = "wishList" -> IF m.type = "UpdateConfig" /\ m.item = "list" THEN {m.value} ELSE {}
      [] kind = "wishDeny" -> IF m.type = "Nfw" THEN {IF m.enable THEN {} ELSE {"NI"}}
                              ELSE IF m.type = "UpdateConfig" /\ m.item = "lock"
                              THEN {NiPart(m.value)} ELSE {}
      [] kind = "afw" -> IF m.type = "Enable" THEN {m.id}
                         ELSE IF m.type = "Disable" THEN {0} ELSE {}
      [] kind = "keptList" -> IF m.type = "Config" THEN m.lists ELSE {}
      [] kind = "modemList" -> IF m.type = "Config" THEN m.lists
                               ELSE IF m.type = "SetBlacklist" THEN {m.list} ELSE {}
      [] kind = "modemLock" -> IF m.type = "Config" THEN m.locks
                               ELSE IF m.type = "SetLock" THEN {m.lock} ELSE {}

\* After the first n messages of q the value is v, if it is d before them.
FinalTo(q, n, kind, d, v) ==
    \/ \E i \in 1..n : /\ Tag(kind, q[i]) = {v}
                       /\ \A j \in 1..n : j > i => Tag(kind, q[j]) = {}
    \/ v = d /\ \A i \in 1..n : Tag(kind, q[i]) = {}

\* And after all.
Final(q, kind, d, v) == FinalTo(q, Len(q), kind, d, v)

\* None of the first n messages of q sets a value.
SilentTo(q, n, kind) == \A i \in 1..n : Tag(kind, q[i]) = {}
Silent(q, kind) == SilentTo(q, Len(q), kind)

\* The same messages set the same.
LEMMA FinalSame ==
  ASSUME NEW q, NEW r, NEW n \in Nat, NEW kind, NEW d, NEW v, \A i \in 1..n : r[i] = q[i],
         FinalTo(q, n, kind, d, v)
  PROVE  FinalTo(r, n, kind, d, v)
  BY DEF FinalTo

\* One message more.
LEMMA FinalMore ==
  ASSUME NEW q, NEW n \in Nat, NEW kind, NEW d, NEW v, FinalTo(q, n, kind, d, v)
  PROVE  /\ Tag(kind, q[n + 1]) = {} => FinalTo(q, n + 1, kind, d, v)
         /\ \A w : Tag(kind, q[n + 1]) = {w} => FinalTo(q, n + 1, kind, d, w)
  <1>1. \A i \in 1..(n + 1) : i = n + 1 \/ i \in 1..n
    OBVIOUS
  <1>2. \A i \in 1..n : i \in 1..(n + 1)
    OBVIOUS
  <1>3. ASSUME Tag(kind, q[n + 1]) = {} PROVE FinalTo(q, n + 1, kind, d, v)
    BY <1>1, <1>2, <1>3 DEF FinalTo
  <1>4. ASSUME NEW w, Tag(kind, q[n + 1]) = {w} PROVE FinalTo(q, n + 1, kind, d, w)
    <2>1. n + 1 \in 1..(n + 1) /\ \A j \in 1..(n + 1) : ~(j > n + 1)
      OBVIOUS
    <2> QED BY <1>4, <2>1 DEF FinalTo
  <1> QED BY <1>3, <1>4

\* The first message less.
LEMMA FinalLess ==
  ASSUME NEW q, NEW r, NEW n \in Nat, NEW kind, NEW d, NEW v,
         \A i \in 1..n : r[i] = q[i + 1], FinalTo(q, n + 1, kind, d, v)
  PROVE  /\ Tag(kind, q[1]) = {} => FinalTo(r, n, kind, d, v)
         /\ \A w : Tag(kind, q[1]) = {w} => FinalTo(r, n, kind, w, v)
  <1>1. \A i \in 1..n : i + 1 \in 1..(n + 1)
    OBVIOUS
  <1>2. \A i \in 1..(n + 1) : i = 1 \/ (i - 1 \in 1..n /\ (i - 1) + 1 = i)
    OBVIOUS
  <1>3. CASE v = d /\ \A i \in 1..(n + 1) : Tag(kind, q[i]) = {}
    <2>1. 1 \in 1..(n + 1)
      OBVIOUS
    <2>2. Tag(kind, q[1]) = {} /\ \A i \in 1..n : Tag(kind, r[i]) = {}
      BY <1>1, <1>3, <2>1
    <2> QED BY <1>3, <2>2 DEF FinalTo
  <1>4. CASE \E i \in 1..(n + 1) : /\ Tag(kind, q[i]) = {v}
                                   /\ \A j \in 1..(n + 1) : j > i => Tag(kind, q[j]) = {}
    <2>1. PICK i \in 1..(n + 1) : /\ Tag(kind, q[i]) = {v}
                                  /\ \A j \in 1..(n + 1) : j > i => Tag(kind, q[j]) = {}
      BY <1>4
    <2>2. CASE i = 1
      <3>1. \A j \in 1..n : Tag(kind, r[j]) = {}
        <4> SUFFICES ASSUME NEW j \in 1..n PROVE Tag(kind, r[j]) = {}
          OBVIOUS
        <4>1. j + 1 \in 1..(n + 1) /\ j + 1 > i /\ r[j] = q[j + 1]
          BY <2>2
        <4> QED BY <2>1, <4>1
      <3>2. Tag(kind, q[1]) = {v}
        BY <2>1, <2>2
      <3> QED BY <3>1, <3>2 DEF FinalTo
    <2>3. CASE i # 1
      <3>1. i - 1 \in 1..n /\ r[i - 1] = q[i]
        BY <1>2, <2>3
      <3>2. \A j \in 1..n : j > i - 1 => Tag(kind, r[j]) = {}
        <4> SUFFICES ASSUME NEW j \in 1..n, j > i - 1 PROVE Tag(kind, r[j]) = {}
          OBVIOUS
        <4>1. j + 1 \in 1..(n + 1) /\ j + 1 > i /\ r[j] = q[j + 1]
          OBVIOUS
        <4> QED BY <2>1, <4>1
      <3>3. Tag(kind, r[i - 1]) = {v}
        BY <2>1, <3>1
      <3> QED BY <3>1, <3>2, <3>3 DEF FinalTo
    <2> QED BY <2>2, <2>3
  <1> QED BY <1>3, <1>4 DEF FinalTo

\* What the first k and n of q set, one after the other.
LEMMA FinalBoth ==
  ASSUME NEW q, NEW r, NEW s, NEW n \in Nat, NEW k \in Nat, NEW kind, NEW d, NEW v, NEW w,
         \A i \in 1..n : s[i] = q[i], \A i \in 1..k : s[n + i] = r[i],
         FinalTo(q, n, kind, d, v), FinalTo(r, k, kind, v, w)
  PROVE  FinalTo(s, n + k, kind, d, w)
  <1>1. \A i \in 1..(n + k) : \/ i \in 1..n /\ s[i] = q[i]
                              \/ i - n \in 1..k /\ s[i] = r[i - n] /\ i > n
    <2> SUFFICES ASSUME NEW i \in 1..(n + k), i \notin 1..n
                 PROVE  i - n \in 1..k /\ s[i] = r[i - n] /\ i > n
      OBVIOUS
    <2>1. i - n \in 1..k /\ n + (i - n) = i /\ i > n
      OBVIOUS
    <2> QED BY <2>1
  <1>2. CASE \E i \in 1..k : /\ Tag(kind, r[i]) = {w}
                             /\ \A j \in 1..k : j > i => Tag(kind, r[j]) = {}
    <2>1. PICK i \in 1..k : /\ Tag(kind, r[i]) = {w}
                            /\ \A j \in 1..k : j > i => Tag(kind, r[j]) = {}
      BY <1>2
    <2>2. n + i \in 1..(n + k) /\ Tag(kind, s[n + i]) = {w}
      BY <2>1
    <2>3. \A j \in 1..(n + k) : j > n + i => Tag(kind, s[j]) = {}
      <3> SUFFICES ASSUME NEW j \in 1..(n + k), j > n + i PROVE Tag(kind, s[j]) = {}
        OBVIOUS
      <3>1. j - n \in 1..k /\ j - n > i /\ n + (j - n) = j
        OBVIOUS
      <3>2. s[j] = r[j - n]
        BY <3>1
      <3> QED BY <2>1, <3>1, <3>2
    <2> QED BY <2>2, <2>3 DEF FinalTo
  <1>3. CASE w = v /\ \A i \in 1..k : Tag(kind, r[i]) = {}
    <2>1. CASE v = d /\ \A i \in 1..n : Tag(kind, q[i]) = {}
      BY <1>1, <1>3, <2>1 DEF FinalTo
    <2>2. CASE \E i \in 1..n : /\ Tag(kind, q[i]) = {v}
                               /\ \A j \in 1..n : j > i => Tag(kind, q[j]) = {}
      <3>1. PICK i \in 1..n : /\ Tag(kind, q[i]) = {v}
                              /\ \A j \in 1..n : j > i => Tag(kind, q[j]) = {}
        BY <2>2
      <3>2. i \in 1..(n + k) /\ Tag(kind, s[i]) = {w}
        BY <1>3, <3>1
      <3>3. \A j \in 1..(n + k) : j > i => Tag(kind, s[j]) = {}
        BY <1>1, <1>3, <3>1
      <3> QED BY <3>2, <3>3 DEF FinalTo
    <2> QED BY <2>1, <2>2 DEF FinalTo
  <1> QED BY <1>2, <1>3 DEF FinalTo

\* A queue that sets nothing leaves the value of before.
LEMMA FinalSilent ==
  ASSUME NEW q, NEW n \in Nat, NEW kind, NEW d, NEW v, SilentTo(q, n, kind)
  PROVE  FinalTo(q, n, kind, d, v) <=> v = d
  <1>1. \A i \in 1..n : Tag(kind, q[i]) # {v}
    BY DEF SilentTo
  <1> QED BY <1>1 DEF FinalTo, SilentTo

\* The elements of what becomes of a sequence.
LEMMA AppendAt ==
  ASSUME NEW q, NEW m, AnySeq(q)
  PROVE  /\ AnySeq(Append(q, m)) /\ Len(q) \in Nat /\ Len(Append(q, m)) = Len(q) + 1
         /\ \A i \in 1..Len(q) : Append(q, m)[i] = q[i]
         /\ Append(q, m)[Len(q) + 1] = m
  <1>1. PICK S : q \in Seq(S)
    BY DEF AnySeq
  <1> DEFINE T == S \union {m}
  <1>2. q \in Seq(T) /\ m \in T
    BY <1>1, SeqMonotonic
  <1> HIDE DEF T
  <1>3. /\ Append(q, m) \in Seq(T) /\ Len(q) \in Nat /\ Len(Append(q, m)) = Len(q) + 1
        /\ \A i \in 1..Len(q) : Append(q, m)[i] = q[i]
        /\ Append(q, m)[Len(q) + 1] = m
    BY <1>2, AppendProperties, LenProperties
  <1> QED BY <1>3 DEF AnySeq

\* Without the first.
LEMMA TailAt ==
  ASSUME NEW q, AnySeq(q), q # << >>
  PROVE  /\ AnySeq(Tail(q)) /\ Len(q) \in Nat \ {0} /\ Len(Tail(q)) \in Nat
         /\ Len(q) = Len(Tail(q)) + 1 /\ Head(q) = q[1]
         /\ \A i \in 1..Len(Tail(q)) : Tail(q)[i] = q[i + 1]
  <1>1. PICK S : q \in Seq(S)
    BY DEF AnySeq
  <1>2. /\ Tail(q) \in Seq(S) /\ Len(q) \in Nat \ {0} /\ Len(Tail(q)) = Len(q) - 1
        /\ Head(q) = q[1]
        /\ \A i \in 1..Len(Tail(q)) : Tail(q)[i] = q[i + 1]
    BY <1>1, HeadTailProperties, LenProperties, EmptySeq
  <1> QED BY <1>2 DEF AnySeq

\* Two in a row.
LEMMA ConcatAt ==
  ASSUME NEW q, NEW r, AnySeq(q), AnySeq(r)
  PROVE  /\ AnySeq(q \o r) /\ Len(q) \in Nat /\ Len(r) \in Nat /\ Len(q \o r) = Len(q) + Len(r)
         /\ \A i \in 1..Len(q) : (q \o r)[i] = q[i]
         /\ \A i \in 1..Len(r) : (q \o r)[Len(q) + i] = r[i]
  <1>1. PICK S : q \in Seq(S)
    BY DEF AnySeq
  <1>2. PICK R : r \in Seq(R)
    BY DEF AnySeq
  <1> DEFINE T == S \union R
  <1>3. q \in Seq(T) /\ r \in Seq(T)
    BY <1>1, <1>2, SeqMonotonic
  <1> HIDE DEF T
  <1>4. /\ q \o r \in Seq(T) /\ Len(q \o r) = Len(q) + Len(r)
        /\ \A i \in 1..Len(q) : (q \o r)[i] = q[i]
        /\ \A i \in 1..Len(r) : (q \o r)[Len(q) + i] = r[i]
    BY <1>3, ConcatProperties
  <1>5. Len(q) \in Nat /\ Len(r) \in Nat
    BY <1>3, LenProperties
  <1> QED BY <1>4, <1>5 DEF AnySeq

\* None, one and two behind a sequence.
LEMMA ConcatShort ==
  ASSUME NEW q, AnySeq(q)
  PROVE  /\ q \o << >> = q
         /\ \A m : q \o <<m>> = Append(q, m)
         /\ \A m, k : q \o (<<m>> \o <<k>>) = Append(Append(q, m), k)
  <1>1. PICK S : q \in Seq(S)
    BY DEF AnySeq
  <1>2. q \o << >> = q
    BY <1>1
  <1>3. ASSUME NEW m, NEW k
        PROVE  q \o <<m>> = Append(q, m) /\ q \o (<<m>> \o <<k>>) = Append(Append(q, m), k)
    <2> DEFINE T == S \union {m, k}
    <2>1. q \in Seq(T) /\ m \in T /\ k \in T
      BY <1>1, SeqMonotonic
    <2> HIDE DEF T
    <2>2. q \o <<m>> = Append(q, m)
      BY <2>1
    <2>3. q \o (<<m>> \o <<k>>) = Append(Append(q, m), k)
      BY <2>1
    <2> QED BY <2>2, <2>3
  <1> QED BY <1>2, <1>3

\* What a queue sets with one message more.
LEMMA FinalAppend ==
  ASSUME NEW q, NEW m, NEW kind, NEW d, NEW v, AnySeq(q), Final(q, kind, d, v)
  PROVE  /\ Tag(kind, m) = {} => Final(Append(q, m), kind, d, v)
         /\ \A w : Tag(kind, m) = {w} => Final(Append(q, m), kind, d, w)
  <1>1. /\ Len(q) \in Nat /\ Len(Append(q, m)) = Len(q) + 1
        /\ \A i \in 1..Len(q) : Append(q, m)[i] = q[i]
        /\ Append(q, m)[Len(q) + 1] = m
    BY AppendAt
  <1>2. FinalTo(Append(q, m), Len(q), kind, d, v)
    BY <1>1, FinalSame DEF Final
  <1> QED BY <1>1, <1>2, FinalMore DEF Final

\* With the first less: its value is the one of before.
LEMMA FinalTail ==
  ASSUME NEW q, NEW kind, NEW d, NEW v, AnySeq(q), q # << >>, Final(q, kind, d, v)
  PROVE  /\ Tag(kind, Head(q)) = {} => Final(Tail(q), kind, d, v)
         /\ \A w : Tag(kind, Head(q)) = {w} => Final(Tail(q), kind, w, v)
  <1>1. /\ Len(Tail(q)) \in Nat /\ Len(q) = Len(Tail(q)) + 1 /\ Head(q) = q[1]
        /\ \A i \in 1..Len(Tail(q)) : Tail(q)[i] = q[i + 1]
    BY TailAt
  <1>2. FinalTo(q, Len(Tail(q)) + 1, kind, d, v)
    BY <1>1 DEF Final
  <1> QED BY <1>1, <1>2, FinalLess DEF Final

\* With another queue behind.
LEMMA FinalConcat ==
  ASSUME NEW q, NEW r, NEW kind, NEW d, NEW v, NEW w, AnySeq(q), AnySeq(r),
         Final(q, kind, d, v), Final(r, kind, v, w)
  PROVE  Final(q \o r, kind, d, w)
  <1>1. /\ Len(q) \in Nat /\ Len(r) \in Nat /\ Len(q \o r) = Len(q) + Len(r)
        /\ \A i \in 1..Len(q) : (q \o r)[i] = q[i]
        /\ \A i \in 1..Len(r) : (q \o r)[Len(q) + i] = r[i]
    BY ConcatAt
  <1>2. FinalTo(q \o r, Len(q) + Len(r), kind, d, w)
    BY <1>1, FinalBoth DEF Final
  <1> QED BY <1>1, <1>2 DEF Final

\* An empty queue.
LEMMA FinalNone ==
  ASSUME NEW kind, NEW d, NEW v
  PROVE  Final(<< >>, kind, d, v) <=> v = d
  BY DEF Final, FinalTo


-----------------------------------------------------------------------------
(* Which messages are in a queue, and in which order.                      *)

\* At most one element.
Single(S) == S = {} \/ \E x : S = {x}

\* What a message is made of: a lock, one list and one lock at most.
Fine(m) ==
    /\ m.type = "UpdateConfig" /\ m.item = "lock" => m.value \subseteq {"MO", "NI"}
    /\ m.type = "Config" => Single(m.lists) /\ Single(m.locks)

\* A message of a class: a type, or one of these.
Of(class, m) ==
    IF class = "lock" THEN m.type = "UpdateConfig" /\ m.item = "lock"
    ELSE IF class = "other" THEN m.type # "UpdateConfig"
    ELSE IF class = "odd" THEN ~Fine(m)
    ELSE m.type = class

\* There is one in the queue.
Some(q, c) == \E i \in 1..Len(q) : Of(c, q[i])

\* Those of class a are in front of those of class b; if a is b there is one.
Precedes(q, a, b) == \A i, j \in 1..Len(q) : Of(a, q[i]) /\ Of(b, q[j]) => i <= j

\* The classes in a queue with a message more.
LEMMA SomeAppend ==
  ASSUME NEW q, NEW m, NEW c, AnySeq(q)
  PROVE  Some(Append(q, m), c) <=> Some(q, c) \/ Of(c, m)
  <1>1. /\ Len(q) \in Nat /\ Len(Append(q, m)) = Len(q) + 1
        /\ \A i \in 1..Len(q) : Append(q, m)[i] = q[i]
        /\ Append(q, m)[Len(q) + 1] = m
    BY AppendAt
  <1>2. \A i \in 1..(Len(q) + 1) : i = Len(q) + 1 \/ i \in 1..Len(q)
    BY <1>1
  <1>3. (\A i \in 1..Len(q) : i \in 1..(Len(q) + 1)) /\ Len(q) + 1 \in 1..(Len(q) + 1)
    BY <1>1
  <1>4. ASSUME Some(Append(q, m), c) PROVE Some(q, c) \/ Of(c, m)
    <2>1. PICK i \in 1..(Len(q) + 1) : Of(c, Append(q, m)[i])
      BY <1>1, <1>4 DEF Some
    <2> QED BY <1>1, <1>2, <2>1 DEF Some
  <1>5. ASSUME Some(q, c) PROVE Some(Append(q, m), c)
    <2>1. PICK i \in 1..Len(q) : Of(c, q[i])
      BY <1>5 DEF Some
    <2> QED BY <1>1, <1>3, <2>1 DEF Some
  <1>6. ASSUME Of(c, m) PROVE Some(Append(q, m), c)
    BY <1>1, <1>3, <1>6 DEF Some
  <1> QED BY <1>4, <1>5, <1>6

\* The first and the others.
LEMMA SomeTail ==
  ASSUME NEW q, NEW c, AnySeq(q), q # << >>
  PROVE  Some(q, c) <=> Of(c, Head(q)) \/ Some(Tail(q), c)
  <1>1. /\ Len(Tail(q)) \in Nat /\ Len(q) = Len(Tail(q)) + 1 /\ Head(q) = q[1]
        /\ \A i \in 1..Len(Tail(q)) : Tail(q)[i] = q[i + 1]
    BY TailAt
  <1>2. ASSUME Some(q, c) PROVE Of(c, Head(q)) \/ Some(Tail(q), c)
    <2>1. PICK i \in 1..Len(q) : Of(c, q[i])
      BY <1>2 DEF Some
    <2>2. CASE i = 1
      BY <1>1, <2>1, <2>2
    <2>3. CASE i # 1
      <3>1. i - 1 \in 1..Len(Tail(q)) /\ (i - 1) + 1 = i
        BY <1>1, <2>3
      <3>2. Tail(q)[i - 1] = q[i]
        BY <1>1, <3>1
      <3> QED BY <2>1, <3>1, <3>2 DEF Some
    <2> QED BY <2>2, <2>3
  <1>3. ASSUME Of(c, Head(q)) PROVE Some(q, c)
    <2>1. 1 \in 1..Len(q)
      BY <1>1
    <2> QED BY <1>1, <1>3, <2>1 DEF Some
  <1>4. ASSUME Some(Tail(q), c) PROVE Some(q, c)
    <2>1. PICK i \in 1..Len(Tail(q)) : Of(c, Tail(q)[i])
      BY <1>4 DEF Some
    <2>2. i + 1 \in 1..Len(q) /\ Tail(q)[i] = q[i + 1]
      BY <1>1
    <2> QED BY <2>1, <2>2 DEF Some
  <1> QED BY <1>2, <1>3, <1>4

\* Those of two queues in a row.
LEMMA SomeConcat ==
  ASSUME NEW q, NEW r, NEW c, AnySeq(q), AnySeq(r)
  PROVE  Some(q \o r, c) <=> Some(q, c) \/ Some(r, c)
  <1>1. /\ Len(q) \in Nat /\ Len(r) \in Nat /\ Len(q \o r) = Len(q) + Len(r)
        /\ \A i \in 1..Len(q) : (q \o r)[i] = q[i]
        /\ \A i \in 1..Len(r) : (q \o r)[Len(q) + i] = r[i]
    BY ConcatAt
  <1>2. ASSUME Some(q \o r, c) PROVE Some(q, c) \/ Some(r, c)
    <2>1. PICK i \in 1..(Len(q) + Len(r)) : Of(c, (q \o r)[i])
      BY <1>1, <1>2 DEF Some
    <2>2. CASE i \in 1..Len(q)
      BY <1>1, <2>1, <2>2 DEF Some
    <2>3. CASE i \notin 1..Len(q)
      <3>1. i - Len(q) \in 1..Len(r) /\ Len(q) + (i - Len(q)) = i
        BY <1>1, <2>3
      <3>2. (q \o r)[i] = r[i - Len(q)]
        BY <1>1, <3>1
      <3> QED BY <2>1, <3>1, <3>2 DEF Some
    <2> QED BY <2>2, <2>3
  <1>3. ASSUME Some(q, c) PROVE Some(q \o r, c)
    <2>1. PICK i \in 1..Len(q) : Of(c, q[i])
      BY <1>3 DEF Some
    <2>2. i \in 1..Len(q \o r) /\ (q \o r)[i] = q[i]
      BY <1>1
    <2> QED BY <2>1, <2>2 DEF Some
  <1>4. ASSUME Some(r, c) PROVE Some(q \o r, c)
    <2>1. PICK i \in 1..Len(r) : Of(c, r[i])
      BY <1>4 DEF Some
    <2>2. Len(q) + i \in 1..Len(q \o r) /\ (q \o r)[Len(q) + i] = r[i]
      BY <1>1
    <2> QED BY <2>1, <2>2 DEF Some
  <1> QED BY <1>2, <1>3, <1>4

\* An empty queue has none, in whatever order.
LEMMA SomeNone ==
  ASSUME NEW a, NEW b
  PROVE  ~Some(<< >>, a) /\ Precedes(<< >>, a, b)
  BY DEF Some, Precedes

\* One message more keeps the order, unless it is of a behind one of b.
LEMMA PrecedesAppend ==
  ASSUME NEW q, NEW m, NEW a, NEW b, AnySeq(q), Precedes(q, a, b), Of(a, m) => ~Some(q, b)
  PROVE  Precedes(Append(q, m), a, b)
  <1>1. /\ Len(q) \in Nat /\ Len(Append(q, m)) = Len(q) + 1
        /\ \A i \in 1..Len(q) : Append(q, m)[i] = q[i]
        /\ Append(q, m)[Len(q) + 1] = m
    BY AppendAt
  <1> SUFFICES ASSUME NEW i \in 1..Len(Append(q, m)), NEW j \in 1..Len(Append(q, m)),
                      Of(a, Append(q, m)[i]), Of(b, Append(q, m)[j]), ~(i <= j)
               PROVE  FALSE
    BY DEF Precedes
  <1>2. j \in 1..Len(q) /\ Of(b, q[j])
    BY <1>1
  <1>3. CASE i \in 1..Len(q)
    BY <1>1, <1>2, <1>3 DEF Precedes
  <1>4. CASE i = Len(q) + 1
    BY <1>1, <1>2, <1>4 DEF Some
  <1> QED BY <1>1, <1>3, <1>4

\* So does the first less; and behind one of b there is none of a.
LEMMA PrecedesTail ==
  ASSUME NEW q, NEW a, NEW b, AnySeq(q), q # << >>, Precedes(q, a, b)
  PROVE  Precedes(Tail(q), a, b) /\ (Of(b, Head(q)) => ~Some(Tail(q), a))
  <1>1. /\ Len(Tail(q)) \in Nat /\ Len(q) = Len(Tail(q)) + 1 /\ Head(q) = q[1]
        /\ \A i \in 1..Len(Tail(q)) : Tail(q)[i] = q[i + 1]
    BY TailAt
  <1>2. \A i \in 1..Len(Tail(q)) : i + 1 \in 1..Len(q) /\ Tail(q)[i] = q[i + 1]
    BY <1>1
  <1>3. ASSUME NEW i \in 1..Len(Tail(q)), NEW j \in 1..Len(Tail(q)),
               Of(a, Tail(q)[i]), Of(b, Tail(q)[j])
        PROVE  i <= j
    <2>1. i + 1 <= j + 1
      BY <1>2, <1>3 DEF Precedes
    <2> QED BY <2>1
  <1>4. ASSUME NEW i \in 1..Len(Tail(q)), Of(a, Tail(q)[i]), Of(b, Head(q))
        PROVE  FALSE
    <2>1. 1 \in 1..Len(q) /\ Of(b, q[1])
      BY <1>1, <1>4
    <2>2. i + 1 <= 1
      BY <1>2, <1>4, <2>1 DEF Precedes
    <2> QED BY <2>2
  <1> QED BY <1>3, <1>4 DEF Precedes, Some

\* And two queues in a row.
LEMMA PrecedesConcat ==
  ASSUME NEW q, NEW r, NEW a, NEW b, AnySeq(q), AnySeq(r), Precedes(q, a, b),
         Precedes(r, a, b), ~(Some(r, a) /\ Some(q, b))
  PROVE  Precedes(q \o r, a, b)
  <1>1. /\ Len(q) \in Nat /\ Len(r) \in Nat /\ Len(q \o r) = Len(q) + Len(r)
        /\ \A i \in 1..Len(q) : (q \o r)[i] = q[i]
        /\ \A i \in 1..Len(r) : (q \o r)[Len(q) + i] = r[i]
    BY ConcatAt
  <1>2. ASSUME NEW i \in 1..Len(q \o r)
        PROVE  \/ i \in 1..Len(q) /\ (q \o r)[i] = q[i]
               \/ i - Len(q) \in 1..Len(r) /\ (q \o r)[i] = r[i - Len(q)]
    <2>1. CASE i \in 1..Len(q)
      BY <1>1, <2>1
    <2>2. CASE i \notin 1..Len(q)
      <3>1. i - Len(q) \in 1..Len(r) /\ Len(q) + (i - Len(q)) = i
        BY <1>1, <2>2
      <3> QED BY <1>1, <3>1
    <2> QED BY <2>1, <2>2
  <1> SUFFICES ASSUME NEW i \in 1..Len(q \o r), NEW j \in 1..Len(q \o r),
                      Of(a, (q \o r)[i]), Of(b, (q \o r)[j])
               PROVE  i <= j
    BY DEF Precedes
  <1>3. CASE i \in 1..Len(q) /\ (q \o r)[i] = q[i]
    <2>1. CASE j \in 1..Len(q) /\ (q \o r)[j] = q[j]
      BY <1>3, <2>1 DEF Precedes
    <2>2. CASE j \notin 1..Len(q)
      BY <1>1, <1>3, <2>2
    <2> QED BY <1>1, <2>1, <2>2
  <1>4. CASE i - Len(q) \in 1..Len(r) /\ (q \o r)[i] = r[i - Len(q)]
    <2>1. Some(r, a)
      BY <1>4 DEF Some
    <2>2. j - Len(q) \in 1..Len(r) /\ (q \o r)[j] = r[j - Len(q)]
      <3>1. ~(j \in 1..Len(q) /\ (q \o r)[j] = q[j])
        BY <2>1 DEF Some
      <3> QED BY <1>2, <3>1
    <2>3. i - Len(q) <= j - Len(q)
      BY <1>4, <2>2 DEF Precedes
    <2> QED BY <1>1, <2>3
  <1> QED BY <1>2, <1>3, <1>4

-----------------------------------------------------------------------------
(* Enabling and disabling in turn, and the values set by held messages and *)
(* by those of the queue behind them.                                      *)

\* Who enabled location before m is handled, in turn, and after it: 0 for nobody.
Switch(m) == m.type \in {"Enable", "Disable"}
Before(m) == IF m.type = "Enable" THEN 0 ELSE m.id
After(m) == IF m.type = "Enable" THEN m.id ELSE 0

\* From a to b; each finds what it was made for.
Alternates(q, a, b) ==
    /\ Final(q, "afw", a, b)
    /\ \A i \in 1..Len(q) : Switch(q[i]) =>
          q[i].id # 0 /\ FinalTo(q, i - 1, "afw", a, Before(q[i]))

\* What a message sets, of each kind.
LEMMA Tags ==
  ASSUME NEW m
  PROVE  /\ Switch(m) => Tag("afw", m) = {After(m)}
         /\ ~Switch(m) => Tag("afw", m) = {}
         /\ m.type = "UpdateConfig" /\ m.item = "list" => Tag("wishList", m) = {m.value}
         /\ ~(m.type = "UpdateConfig" /\ m.item = "list") => Tag("wishList", m) = {}
         /\ m.type = "UpdateConfig" /\ m.item = "lock" => Tag("wishDeny", m) = {NiPart(m.value)}
         /\ m.type = "Nfw" /\ m.enable => Tag("wishDeny", m) = {{}}
         /\ m.type = "Nfw" /\ ~m.enable => Tag("wishDeny", m) = {{"NI"}}
         /\ ~(m.type = "UpdateConfig" /\ m.item = "lock") /\ m.type # "Nfw" =>
               Tag("wishDeny", m) = {}
  <1>1. Tag("afw", m) = IF Switch(m) THEN {After(m)} ELSE {}
    BY DEF Tag, Switch, After
  <1>2. Tag("wishList", m) = IF m.type = "UpdateConfig" /\ m.item = "list" THEN {m.value} ELSE {}
    BY DEF Tag
  <1>3. Tag("wishDeny", m) = IF m.type = "Nfw" THEN {IF m.enable THEN {} ELSE {"NI"}}
                             ELSE IF m.type = "UpdateConfig" /\ m.item = "lock"
                             THEN {NiPart(m.value)} ELSE {}
    BY DEF Tag
  <1> QED BY <1>1, <1>2, <1>3

\* And a request to the other thread.
LEMMA RequestTags ==
  ASSUME NEW m
  PROVE  /\ m.type = "Config" => /\ Tag("keptList", m) = m.lists
                                 /\ Tag("modemList", m) = m.lists
                                 /\ Tag("modemLock", m) = m.locks
         /\ m.type = "SetBlacklist" => /\ Tag("keptList", m) = {}
                                       /\ Tag("modemList", m) = {m.list}
                                       /\ Tag("modemLock", m) = {}
         /\ m.type = "SetLock" => /\ Tag("keptList", m) = {}
                                  /\ Tag("modemList", m) = {}
                                  /\ Tag("modemLock", m) = {m.lock}
         /\ m.type = "Open" => /\ Tag("keptList", m) = {}
                               /\ Tag("modemList", m) = {}
                               /\ Tag("modemLock", m) = {}
  <1>1. Tag("keptList", m) = IF m.type = "Config" THEN m.lists ELSE {}
    BY DEF Tag
  <1>2. Tag("modemList", m) = IF m.type = "Config" THEN m.lists
                              ELSE IF m.type = "SetBlacklist" THEN {m.list} ELSE {}
    BY DEF Tag
  <1>3. Tag("modemLock", m) = IF m.type = "Config" THEN m.locks
                              ELSE IF m.type = "SetLock" THEN {m.lock} ELSE {}
    BY DEF Tag
  <1> QED BY <1>1, <1>2, <1>3

\* A message more that sets a value is the last to.
LEMMA FinalNew ==
  ASSUME NEW q, NEW m, NEW kind, NEW d, NEW v, AnySeq(q), Tag(kind, m) = {v}
  PROVE  Final(Append(q, m), kind, d, v)
  <1>1. /\ Len(q) \in Nat /\ Len(Append(q, m)) = Len(q) + 1
        /\ Append(q, m)[Len(q) + 1] = m
    BY AppendAt
  <1>2. Len(q) + 1 \in 1..(Len(q) + 1) /\ \A j \in 1..(Len(q) + 1) : ~(j > Len(q) + 1)
    BY <1>1
  <1> QED BY <1>1, <1>2 DEF Final, FinalTo

\* One more in turn.
LEMMA AlternatesAppend ==
  ASSUME NEW q, NEW m, NEW a, NEW b, AnySeq(q), Alternates(q, a, b)
  PROVE  /\ ~Switch(m) => Alternates(Append(q, m), a, b)
         /\ Switch(m) /\ m.id # 0 /\ b = Before(m) => Alternates(Append(q, m), a, After(m))
  <1>1. /\ Len(q) \in Nat /\ Len(Append(q, m)) = Len(q) + 1
        /\ \A i \in 1..Len(q) : Append(q, m)[i] = q[i]
        /\ Append(q, m)[Len(q) + 1] = m
    BY AppendAt
  <1>2. ASSUME NEW i \in 1..Len(q), Switch(q[i])
        PROVE  q[i].id # 0 /\ FinalTo(Append(q, m), i - 1, "afw", a, Before(q[i]))
    <2>1. i - 1 \in Nat /\ \A j \in 1..(i - 1) : j \in 1..Len(q)
      BY <1>1
    <2>2. \A j \in 1..(i - 1) : Append(q, m)[j] = q[j]
      BY <1>1, <2>1
    <2>3. q[i].id # 0 /\ FinalTo(q, i - 1, "afw", a, Before(q[i]))
      BY <1>2 DEF Alternates
    <2> QED BY <2>1, <2>2, <2>3, FinalSame
  <1>3. FinalTo(Append(q, m), Len(q), "afw", a, b)
    BY <1>1, FinalSame DEF Final, Alternates
  <1>4. \A i \in 1..Len(Append(q, m)) : i = Len(q) + 1 \/ i \in 1..Len(q)
    BY <1>1
  <1>5. ASSUME ~Switch(m) PROVE Alternates(Append(q, m), a, b)
    <2>1. Final(Append(q, m), "afw", a, b)
      BY <1>5, FinalAppend, Tags DEF Alternates
    <2>2. ASSUME NEW i \in 1..Len(Append(q, m)), Switch(Append(q, m)[i])
          PROVE  /\ Append(q, m)[i].id # 0
                 /\ FinalTo(Append(q, m), i - 1, "afw", a, Before(Append(q, m)[i]))
      <3>1. i \in 1..Len(q) /\ Append(q, m)[i] = q[i]
        BY <1>1, <1>4, <1>5, <2>2
      <3> QED BY <1>2, <2>2, <3>1
    <2> QED BY <2>1, <2>2 DEF Alternates
  <1>6. ASSUME Switch(m), m.id # 0, b = Before(m) PROVE Alternates(Append(q, m), a, After(m))
    <2>1. Final(Append(q, m), "afw", a, After(m))
      BY <1>6, FinalNew, Tags
    <2>2. ASSUME NEW i \in 1..Len(Append(q, m)), Switch(Append(q, m)[i])
          PROVE  /\ Append(q, m)[i].id # 0
                 /\ FinalTo(Append(q, m), i - 1, "afw", a, Before(Append(q, m)[i]))
      <3>1. CASE i \in 1..Len(q)
        <4>1. Append(q, m)[i] = q[i]
          BY <1>1, <3>1
        <4> QED BY <1>2, <2>2, <3>1, <4>1
      <3>2. CASE i = Len(q) + 1
        <4>1. i - 1 = Len(q) /\ Append(q, m)[i] = m
          BY <1>1, <3>2
        <4> QED BY <1>3, <1>6, <4>1
      <3> QED BY <1>4, <3>1, <3>2
    <2> QED BY <2>1, <2>2 DEF Alternates
  <1> QED BY <1>5, <1>6

\* The first has its turn.
LEMMA AlternatesTail ==
  ASSUME NEW q, NEW a, NEW b, AnySeq(q), q # << >>, Alternates(q, a, b)
  PROVE  /\ ~Switch(Head(q)) => Alternates(Tail(q), a, b)
         /\ Switch(Head(q)) => /\ a = Before(Head(q)) /\ Head(q).id # 0
                               /\ Alternates(Tail(q), After(Head(q)), b)
  <1>1. /\ Len(Tail(q)) \in Nat /\ Len(q) = Len(Tail(q)) + 1 /\ Head(q) = q[1]
        /\ \A i \in 1..Len(Tail(q)) : Tail(q)[i] = q[i + 1]
    BY TailAt
  <1>2. ASSUME NEW i \in 1..Len(Tail(q)), Switch(Tail(q)[i])
        PROVE  /\ Tail(q)[i].id # 0
               /\ ~Switch(Head(q)) => FinalTo(Tail(q), i - 1, "afw", a, Before(Tail(q)[i]))
               /\ Switch(Head(q)) =>
                     FinalTo(Tail(q), i - 1, "afw", After(Head(q)), Before(Tail(q)[i]))
    <2>1. i + 1 \in 1..Len(q) /\ i - 1 \in Nat /\ (i + 1) - 1 = (i - 1) + 1
      BY <1>1
    <2>2. \A j \in 1..(i - 1) : Tail(q)[j] = q[j + 1]
      BY <1>1
    <2>3. Tail(q)[i] = q[i + 1]
      BY <1>1
    <2>4. q[i + 1].id # 0 /\ FinalTo(q, (i + 1) - 1, "afw", a, Before(q[i + 1]))
      BY <1>2, <2>1, <2>3 DEF Alternates
    <2>5. FinalTo(q, (i - 1) + 1, "afw", a, Before(Tail(q)[i]))
      BY <2>1, <2>3, <2>4
    <2>6. /\ Tag("afw", q[1]) = {} => FinalTo(Tail(q), i - 1, "afw", a, Before(Tail(q)[i]))
          /\ \A w : Tag("afw", q[1]) = {w} => FinalTo(Tail(q), i - 1, "afw", w, Before(Tail(q)[i]))
      BY <2>1, <2>2, <2>5, FinalLess
    <2> QED BY <1>1, <2>3, <2>4, <2>6, Tags
  <1>3. Final(q, "afw", a, b)
    BY DEF Alternates
  <1>4. /\ ~Switch(Head(q)) => Final(Tail(q), "afw", a, b)
        /\ Switch(Head(q)) => Final(Tail(q), "afw", After(Head(q)), b)
    BY <1>3, FinalTail, Tags
  <1>5. ASSUME Switch(Head(q)) PROVE a = Before(Head(q)) /\ Head(q).id # 0
    <2>1. 1 \in 1..Len(q) /\ 1 - 1 = 0 /\ 1..0 = {}
      BY <1>1
    <2>2. Head(q).id # 0 /\ FinalTo(q, 0, "afw", a, Before(Head(q)))
      BY <1>1, <1>5, <2>1 DEF Alternates
    <2> QED BY <2>1, <2>2 DEF FinalTo
  <1> QED BY <1>2, <1>4, <1>5 DEF Alternates

\* Behind a queue come messages that are none of this kind.
LEMMA AlternatesConcat ==
  ASSUME NEW q, NEW r, NEW a, NEW b, AnySeq(q), AnySeq(r), Alternates(q, a, b), ~Some(r, "other")
  PROVE  Alternates(q \o r, a, b)
  <1>1. /\ Len(q) \in Nat /\ Len(r) \in Nat /\ Len(q \o r) = Len(q) + Len(r)
        /\ \A i \in 1..Len(q) : (q \o r)[i] = q[i]
        /\ \A i \in 1..Len(r) : (q \o r)[Len(q) + i] = r[i]
    BY ConcatAt
  <1>2. \A i \in 1..Len(r) : ~Switch(r[i])
    BY DEF Some, Of, Switch
  <1>3. SilentTo(r, Len(r), "afw")
    BY <1>2, Tags DEF SilentTo
  <1>4. Final(q, "afw", a, b) /\ Final(r, "afw", b, b)
    BY <1>1, <1>3, FinalSilent DEF Final, Alternates
  <1>5. Final(q \o r, "afw", a, b)
    BY <1>4, FinalConcat
  <1>6. ASSUME NEW i \in 1..Len(q \o r), Switch((q \o r)[i])
        PROVE  /\ (q \o r)[i].id # 0
               /\ FinalTo(q \o r, i - 1, "afw", a, Before((q \o r)[i]))
    <2>1. i \in 1..Len(q) /\ (q \o r)[i] = q[i]
      <3>1. CASE i \in 1..Len(q)
        BY <1>1, <3>1
      <3>2. CASE i \notin 1..Len(q)
        <4>1. i - Len(q) \in 1..Len(r) /\ Len(q) + (i - Len(q)) = i
          BY <1>1, <3>2
        <4>2. (q \o r)[i] = r[i - Len(q)]
          BY <1>1, <4>1
        <4> QED BY <1>2, <1>6, <4>1, <4>2
      <3> QED BY <3>1, <3>2
    <2>2. i - 1 \in Nat /\ \A j \in 1..(i - 1) : j \in 1..Len(q)
      BY <1>1, <2>1
    <2>3. \A j \in 1..(i - 1) : (q \o r)[j] = q[j]
      BY <1>1, <2>2
    <2>4. q[i].id # 0 /\ FinalTo(q, i - 1, "afw", a, Before(q[i]))
      BY <1>6, <2>1 DEF Alternates
    <2> QED BY <2>1, <2>2, <2>3, <2>4, FinalSame
  <1> QED BY <1>5, <1>6 DEF Alternates

\* What the messages held and those of the queue behind them set.
Chain(h, q, kind, d, v) == \E u : Final(h, kind, d, u) /\ Final(q, kind, u, v)

\* A message more, in the queue.
LEMMA ChainAppend ==
  ASSUME NEW h, NEW q, NEW m, NEW kind, NEW d, NEW v, AnySeq(q), Chain(h, q, kind, d, v)
  PROVE  /\ Tag(kind, m) = {} => Chain(h, Append(q, m), kind, d, v)
         /\ \A w : Tag(kind, m) = {w} => Chain(h, Append(q, m), kind, d, w)
  <1>1. PICK u : Final(h, kind, d, u) /\ Final(q, kind, u, v)
    BY DEF Chain
  <1>2. /\ Tag(kind, m) = {} => Final(Append(q, m), kind, u, v)
        /\ \A w : Tag(kind, m) = {w} => Final(Append(q, m), kind, u, w)
    BY <1>1, FinalAppend
  <1> QED BY <1>1, <1>2 DEF Chain

\* The first of the queue taken: it may set a value if those held do not.
LEMMA ChainTail ==
  ASSUME NEW h, NEW q, NEW kind, NEW d, NEW v, AnySeq(q), q # << >>, AnySeq(h),
         Chain(h, q, kind, d, v)
  PROVE  /\ Tag(kind, Head(q)) = {} => Chain(h, Tail(q), kind, d, v)
         /\ \A w : Tag(kind, Head(q)) = {w} /\ Silent(h, kind) => Chain(h, Tail(q), kind, w, v)
  <1>1. PICK u : Final(h, kind, d, u) /\ Final(q, kind, u, v)
    BY DEF Chain
  <1>2. /\ Tag(kind, Head(q)) = {} => Final(Tail(q), kind, u, v)
        /\ \A w : Tag(kind, Head(q)) = {w} => Final(Tail(q), kind, w, v)
    BY <1>1, FinalTail
  <1>3. ASSUME NEW w, Silent(h, kind) PROVE Final(h, kind, w, w)
    <2>1. Len(h) \in Nat
      BY LenProperties DEF AnySeq
    <2> QED BY <1>3, <2>1, FinalSilent DEF Final, Silent
  <1> QED BY <1>1, <1>2, <1>3 DEF Chain

\* The first of the queue held.
LEMMA ChainHold ==
  ASSUME NEW h, NEW q, NEW kind, NEW d, NEW v, AnySeq(q), q # << >>, AnySeq(h),
         Chain(h, q, kind, d, v), Single(Tag(kind, Head(q)))
  PROVE  Chain(Append(h, Head(q)), Tail(q), kind, d, v)
  <1>1. PICK u : Final(h, kind, d, u) /\ Final(q, kind, u, v)
    BY DEF Chain
  <1>2. CASE Tag(kind, Head(q)) = {}
    <2>1. Final(Append(h, Head(q)), kind, d, u) /\ Final(Tail(q), kind, u, v)
      BY <1>1, <1>2, FinalAppend, FinalTail
    <2> QED BY <2>1 DEF Chain
  <1>3. ASSUME NEW w, Tag(kind, Head(q)) = {w} PROVE Chain(Append(h, Head(q)), Tail(q), kind, d, v)
    <2>1. Final(Append(h, Head(q)), kind, d, w) /\ Final(Tail(q), kind, w, v)
      BY <1>1, <1>3, FinalAppend, FinalTail
    <2> QED BY <2>1 DEF Chain
  <1> QED BY <1>2, <1>3 DEF Single

\* Those held go behind the queue, when one of both sets nothing.
LEMMA ChainBack ==
  ASSUME NEW h, NEW q, NEW kind, NEW d, NEW v, AnySeq(q), AnySeq(h),
         Chain(h, q, kind, d, v), Silent(h, kind) \/ Silent(q, kind)
  PROVE  Chain(<< >>, q \o h, kind, d, v)
  <1>1. PICK u : Final(h, kind, d, u) /\ Final(q, kind, u, v)
    BY DEF Chain
  <1>2. Len(h) \in Nat /\ Len(q) \in Nat
    BY LenProperties DEF AnySeq
  <1>3. CASE Silent(h, kind)
    <2>1. u = d /\ Final(h, kind, v, v)
      BY <1>1, <1>2, <1>3, FinalSilent DEF Final, Silent
    <2>2. Final(q \o h, kind, d, v)
      BY <1>1, <2>1, FinalConcat
    <2> QED BY <2>2, FinalNone DEF Chain
  <1>4. CASE Silent(q, kind)
    <2>1. u = v /\ Final(q, kind, d, d)
      BY <1>1, <1>2, <1>4, FinalSilent DEF Final, Silent
    <2>2. Final(q \o h, kind, d, v)
      BY <1>1, <2>1, FinalConcat
    <2> QED BY <2>2, FinalNone DEF Chain
  <1> QED BY <1>3, <1>4

\* Who sets nothing.
LEMMA SilentKinds ==
  ASSUME NEW q
  PROVE  /\ ~Some(q, "UpdateConfig") => Silent(q, "wishList")
         /\ ~Some(q, "lock") /\ (~Some(q, "other") \/ ~Some(q, "Nfw")) => Silent(q, "wishDeny")
         /\ ~Some(q, "Config") => Silent(q, "keptList")
  <1>1. ASSUME ~Some(q, "UpdateConfig"), NEW i \in 1..Len(q) PROVE Tag("wishList", q[i]) = {}
    BY <1>1, Tags DEF Some, Of
  <1>2. ASSUME ~Some(q, "lock"), ~Some(q, "other") \/ ~Some(q, "Nfw"), NEW i \in 1..Len(q)
        PROVE  Tag("wishDeny", q[i]) = {}
    <2>1. ~(q[i].type = "UpdateConfig" /\ q[i].item = "lock") /\ q[i].type # "Nfw"
      BY <1>2 DEF Some, Of
    <2> QED BY <2>1, Tags
  <1>3. ASSUME ~Some(q, "Config"), NEW i \in 1..Len(q) PROVE Tag("keptList", q[i]) = {}
    BY <1>3 DEF Some, Of, Tag
  <1> QED BY <1>1, <1>2, <1>3 DEF Silent, SilentTo

-----------------------------------------------------------------------------
(* The invariant of the configuration: what the framework asked for is     *)
(* what the queues will set, one behind the other, from what the adapter   *)
(* keeps on; and what the requests to the modem will set, from what it has *)
(* on, is what the adapter keeps, unless an engine-up event is to come     *)
(* that sends it again.                                                    *)

\* The messages that wait for the first engine-up event.
Held == IF capsKnown THEN << >> ELSE pending

\* What the framework wishes to keep from the network.
Denied == IF wish.deny THEN {"NI"} ELSE {}

\* The session that enabled location, for the framework.
Owner == IF enabled THEN session ELSE 0

\* An engine-up event is to come.
Recovering == modem = "down" \/ Some(apiq, "Open") \/ Some(msgs, "EngineUp")

\* Location was not enabled yet: the modem may have a lock of its own.
NotYet == afw = 0 /\ (session = 0 \/ Some(msgs, "Enable"))

\* The lock of the behaviour.
Effective == IF nfw \/ afw = 0 THEN gpsLock ELSE {}

\* The queues, and the first engine-up event: there is one to come at most, and
\* with messages held until then none after it.
Queues ==
    /\ AnySeq(msgs) /\ AnySeq(pending) /\ AnySeq(apiq)
    /\ ~Some(msgs, "odd") /\ ~Some(pending, "odd") /\ ~Some(apiq, "odd")
    /\ ~Some(pending, "other")
    /\ ~capsKnown => /\ Precedes(apiq, "Open", "Open")
                     /\ Precedes(msgs, "EngineUp", "EngineUp")
                     /\ ~(Some(apiq, "Open") /\ Some(msgs, "EngineUp"))
    /\ capsKnown /\ pending # << >> => ~Some(apiq, "Open") /\ ~Some(msgs, "EngineUp")

\* The values kept.
Values ==
    /\ session \in Nat
    /\ calls \in [Themes -> Nat]
    /\ \E d \in BOOLEAN : \E l : wish = [deny |-> d, list |-> l]
    /\ gpsLock \subseteq {"MO", "NI"}

\* In calm surroundings no message overtakes another that sets the same.
InOrder ==
    /\ Some(msgs, "Nfw") => nfw /\ ~Some(Held, "lock")
    /\ Precedes(msgs, "Nfw", "lock")
    /\ ~capsKnown => Precedes(msgs, "UpdateConfig", "EngineUp")

\* The framework's side; kept is the list that the other thread will keep.
Asked(kept) ==
    /\ Chain(Held, msgs, "wishList", kept, wish.list)
    /\ Chain(Held, msgs, "wishDeny", NiPart(gpsLock), Denied)
    /\ Alternates(msgs, afw, Owner)
    /\ enabled => session # 0

\* The lock by the behaviour, and by location being enabled.
LockKept ==
    /\ ~nfw => "MO" \in gpsLock
    /\ nfw /\ afw # 0 => "MO" \notin gpsLock
    /\ afw = 0 => NotYet \/ "MO" \in gpsLock

\* A modem that takes no lists: of its list nothing is claimed.
Unlisted == ~plan.blacklists

\* The modem's side.
Sent(kept) ==
    /\ Unlisted \/ Final(apiq, "keptList", blacklist, kept)
    /\ Unlisted \/ Recovering \/ Final(apiq, "modemList", modemList, kept)
    /\ Recovering \/ NotYet \/ Final(apiq, "modemLock", modemLock, Effective)

\* All of it, and the invariant.
Calm == InOrder /\ LockKept /\ \E kept : Asked(kept) /\ Sent(kept)

ConfigInv == Queues /\ Values /\ (Rough \/ Calm)

-----------------------------------------------------------------------------
(* The queues in each step.                                                *)

\* A message of the other themes, or an answer.
Plain(m) == m.type \notin {"Enable", "Disable", "Nfw", "UpdateConfig", "Config", "EngineUp"}

\* Such a message is of no class and sets nothing.
LEMMA PlainIs ==
  ASSUME NEW m, Plain(m)
  PROVE  /\ Fine(m) /\ ~Switch(m) /\ Tag("wishList", m) = {} /\ Tag("wishDeny", m) = {}
         /\ \A c \in {"lock", "odd", "Nfw", "UpdateConfig", "EngineUp", "Enable"} : ~Of(c, m)
  <1>1. Fine(m) /\ ~Switch(m)
    BY DEF Plain, Fine, Switch
  <1>2. Tag("wishList", m) = {} /\ Tag("wishDeny", m) = {}
    BY Tags DEF Plain
  <1>3. \A c \in {"lock", "odd", "Nfw", "UpdateConfig", "EngineUp", "Enable"} : ~Of(c, m)
    BY <1>1 DEF Plain, Of
  <1> QED BY <1>1, <1>2, <1>3

\* A message more in the adapter's queue.
LEMMA QueuesAdd ==
  ASSUME Queues, NEW m, Fine(m), m.type # "EngineUp", msgs' = Append(msgs, m),
         UNCHANGED <<pending, apiq, capsKnown>>
  PROVE  Queues'
  <1>1. AnySeq(msgs)
    BY DEF Queues
  <1>2. AnySeq(msgs')
    BY <1>1, AppendAt
  <1>3. ~Of("odd", m) /\ ~Of("EngineUp", m)
    BY DEF Of
  <1>4. /\ Some(msgs', "odd") <=> Some(msgs, "odd") \/ Of("odd", m)
        /\ Some(msgs', "EngineUp") <=> Some(msgs, "EngineUp") \/ Of("EngineUp", m)
    BY <1>1, SomeAppend
  <1>5. Precedes(msgs, "EngineUp", "EngineUp") => Precedes(msgs', "EngineUp", "EngineUp")
    BY <1>1, <1>3, PrecedesAppend
  <1> QED BY <1>2, <1>3, <1>4, <1>5 DEF Queues

\* The first of it handled, with a request to the other thread or without.
LEMMA QueuesTake ==
  ASSUME Queues, msgs # << >>, msgs' = Tail(msgs), UNCHANGED <<pending, capsKnown>>,
         apiq' = apiq \/ \E r : Fine(r) /\ r.type # "Open" /\ apiq' = Append(apiq, r)
  PROVE  Queues'
  <1>1. AnySeq(msgs) /\ AnySeq(apiq)
    BY DEF Queues
  <1>2. AnySeq(msgs')
    BY <1>1, TailAt
  <1>3. /\ Some(msgs', "odd") => Some(msgs, "odd")
        /\ Some(msgs', "EngineUp") => Some(msgs, "EngineUp")
    BY <1>1, SomeTail
  <1>4. Precedes(msgs, "EngineUp", "EngineUp") => Precedes(msgs', "EngineUp", "EngineUp")
    BY <1>1, PrecedesTail
  <1> DEFINE Better ==
        /\ AnySeq(apiq') /\ (Some(apiq', "odd") => Some(apiq, "odd"))
        /\ Some(apiq', "Open") => Some(apiq, "Open")
        /\ Precedes(apiq, "Open", "Open") => Precedes(apiq', "Open", "Open")
  <1>5. Better
    <2>1. CASE apiq' = apiq
      BY <1>1, <2>1
    <2>2. ASSUME NEW r, Fine(r), r.type # "Open", apiq' = Append(apiq, r)
          PROVE  Better
      <3>1. ~Of("odd", r) /\ ~Of("Open", r)
        BY <2>2 DEF Of
      <3>2. AnySeq(apiq')
        BY <1>1, <2>2, AppendAt
      <3>3. (Some(apiq', "odd") => Some(apiq, "odd")) /\ (Some(apiq', "Open") => Some(apiq, "Open"))
        BY <1>1, <2>2, <3>1, SomeAppend
      <3>4. Precedes(apiq, "Open", "Open") => Precedes(apiq', "Open", "Open")
        BY <1>1, <2>2, <3>1, PrecedesAppend
      <3> QED BY <3>2, <3>3, <3>4
    <2> QED BY <2>1, <2>2
  <1> QED BY <1>1, <1>2, <1>3, <1>4, <1>5 DEF Queues

\* A request done by the other thread.
LEMMA QueuesServe ==
  ASSUME Queues, apiq # << >>, apiq' = Tail(apiq), UNCHANGED <<pending, capsKnown>>,
         msgs' = msgs \/ \E m : Plain(m) /\ msgs' = Append(msgs, m)
  PROVE  Queues'
  <1>1. AnySeq(msgs) /\ AnySeq(apiq)
    BY DEF Queues
  <1>2. AnySeq(apiq')
    BY <1>1, TailAt
  <1>3. (Some(apiq', "odd") => Some(apiq, "odd")) /\ (Some(apiq', "Open") => Some(apiq, "Open"))
    BY <1>1, SomeTail
  <1>4. Precedes(apiq, "Open", "Open") => Precedes(apiq', "Open", "Open")
    BY <1>1, PrecedesTail
  <1> DEFINE Better ==
        /\ AnySeq(msgs') /\ (Some(msgs', "odd") => Some(msgs, "odd"))
        /\ Some(msgs', "EngineUp") => Some(msgs, "EngineUp")
        /\ Precedes(msgs, "EngineUp", "EngineUp") => Precedes(msgs', "EngineUp", "EngineUp")
  <1>5. Better
    <2>1. CASE msgs' = msgs
      BY <1>1, <2>1
    <2>2. ASSUME NEW m, Plain(m), msgs' = Append(msgs, m)
          PROVE  Better
      <3>1. ~Of("odd", m) /\ ~Of("EngineUp", m)
        BY <2>2, PlainIs
      <3>2. AnySeq(msgs')
        BY <1>1, <2>2, AppendAt
      <3>3. /\ Some(msgs', "odd") => Some(msgs, "odd")
            /\ Some(msgs', "EngineUp") => Some(msgs, "EngineUp")
        BY <1>1, <2>2, <3>1, SomeAppend
      <3>4. Precedes(msgs, "EngineUp", "EngineUp") => Precedes(msgs', "EngineUp", "EngineUp")
        BY <1>1, <2>2, <3>1, PrecedesAppend
      <3> QED BY <3>2, <3>3, <3>4
    <2> QED BY <2>1, <2>2
  <1> QED BY <1>1, <1>2, <1>3, <1>4, <1>5 DEF Queues

\* What the framework's side is made of, but the queues.
frameVars == <<capsKnown, gpsLock, nfw, afw, enabled, session, wish>>

\* A plain message more, or less, changes nothing in the framework's side.
LEMMA PlainSteps ==
  ASSUME Queues, UNCHANGED frameVars, UNCHANGED pending,
         \/ msgs' = msgs
         \/ \E m : Plain(m) /\ msgs' = Append(msgs, m)
         \/ msgs' = Append(msgs, [type |-> "EngineUp"])
         \/ msgs # << >> /\ Plain(Head(msgs)) /\ msgs' = Tail(msgs)
  PROVE  /\ InOrder => InOrder'
         /\ \A kept : Asked(kept) => Asked(kept)'
         /\ Some(msgs, "Enable") <=> Some(msgs', "Enable")
  <1>1. AnySeq(msgs) /\ AnySeq(pending) /\ AnySeq(Held)
    BY ShortSeq DEF Queues, Held
  <1>2. Held' = Held /\ Denied' = Denied /\ Owner' = Owner
    BY DEF frameVars, Held, Denied, Owner
  <1> DEFINE Same ==
        /\ Some(msgs', "Nfw") => Some(msgs, "Nfw")
        /\ Some(msgs, "Enable") <=> Some(msgs', "Enable")
        /\ Precedes(msgs, "Nfw", "lock") => Precedes(msgs', "Nfw", "lock")
        /\ Precedes(msgs, "UpdateConfig", "EngineUp") => Precedes(msgs', "UpdateConfig", "EngineUp")
        /\ \A d, v : Chain(Held, msgs, "wishList", d, v) => Chain(Held, msgs', "wishList", d, v)
        /\ \A d, v : Chain(Held, msgs, "wishDeny", d, v) => Chain(Held, msgs', "wishDeny", d, v)
        /\ \A a, b : Alternates(msgs, a, b) => Alternates(msgs', a, b)
  <1>3. ASSUME NEW m, Plain(m) \/ m.type = "EngineUp"
        PROVE  /\ ~Of("Nfw", m) /\ ~Of("Enable", m) /\ ~Of("UpdateConfig", m) /\ ~Of("lock", m)
               /\ Tag("wishList", m) = {} /\ Tag("wishDeny", m) = {} /\ ~Switch(m)
    <2>1. CASE Plain(m)
      BY <2>1, PlainIs
    <2>2. CASE m.type = "EngineUp"
      <3>1. Tag("wishList", m) = {} /\ Tag("wishDeny", m) = {}
        BY <2>2, Tags
      <3> QED BY <2>2, <3>1 DEF Of, Switch
    <2> QED BY <1>3, <2>1, <2>2
  <1>4. ASSUME msgs' = msgs PROVE Same
    BY <1>4
  <1>5. ASSUME NEW m, Plain(m) \/ m.type = "EngineUp", msgs' = Append(msgs, m)
        PROVE  Same
    <2>1. /\ ~Of("Nfw", m) /\ ~Of("Enable", m) /\ ~Of("UpdateConfig", m)
          /\ Tag("wishList", m) = {} /\ Tag("wishDeny", m) = {} /\ ~Switch(m)
      BY <1>3, <1>5
    <2>2. /\ Some(msgs', "Nfw") => Some(msgs, "Nfw")
          /\ Some(msgs, "Enable") <=> Some(msgs', "Enable")
      BY <1>1, <1>5, <2>1, SomeAppend
    <2>3. /\ Precedes(msgs, "Nfw", "lock") => Precedes(msgs', "Nfw", "lock")
          /\ Precedes(msgs, "UpdateConfig", "EngineUp") =>
                Precedes(msgs', "UpdateConfig", "EngineUp")
      BY <1>1, <1>5, <2>1, PrecedesAppend
    <2>4. \A d, v : Chain(Held, msgs, "wishList", d, v) => Chain(Held, msgs', "wishList", d, v)
      BY <1>1, <1>5, <2>1, ChainAppend
    <2>5. \A d, v : Chain(Held, msgs, "wishDeny", d, v) => Chain(Held, msgs', "wishDeny", d, v)
      BY <1>1, <1>5, <2>1, ChainAppend
    <2>6. \A a, b : Alternates(msgs, a, b) => Alternates(msgs', a, b)
      BY <1>1, <1>5, <2>1, AlternatesAppend
    <2> QED BY <2>2, <2>3, <2>4, <2>5, <2>6
  <1>6. ASSUME msgs # << >>, Plain(Head(msgs)), msgs' = Tail(msgs)
        PROVE  Same
    <2>1. /\ ~Of("Nfw", Head(msgs)) /\ ~Of("Enable", Head(msgs))
          /\ Tag("wishList", Head(msgs)) = {} /\ Tag("wishDeny", Head(msgs)) = {}
          /\ ~Switch(Head(msgs))
      BY <1>3, <1>6
    <2>2. /\ Some(msgs', "Nfw") => Some(msgs, "Nfw")
          /\ Some(msgs, "Enable") <=> Some(msgs', "Enable")
      BY <1>1, <1>6, <2>1, SomeTail
    <2>3. /\ Precedes(msgs, "Nfw", "lock") => Precedes(msgs', "Nfw", "lock")
          /\ Precedes(msgs, "UpdateConfig", "EngineUp") =>
                Precedes(msgs', "UpdateConfig", "EngineUp")
      BY <1>1, <1>6, PrecedesTail
    <2>4. \A d, v : Chain(Held, msgs, "wishList", d, v) => Chain(Held, msgs', "wishList", d, v)
      BY <1>1, <1>6, <2>1, ChainTail
    <2>5. \A d, v : Chain(Held, msgs, "wishDeny", d, v) => Chain(Held, msgs', "wishDeny", d, v)
      BY <1>1, <1>6, <2>1, ChainTail
    <2>6. \A a, b : Alternates(msgs, a, b) => Alternates(msgs', a, b)
      BY <1>1, <1>6, <2>1, AlternatesTail
    <2> QED BY <2>2, <2>3, <2>4, <2>5, <2>6
  <1>7. [type |-> "EngineUp"].type = "EngineUp"
    OBVIOUS
  <1>8. Same
    BY <1>4, <1>5, <1>6, <1>7
  <1>9. InOrder => InOrder'
    <2> HIDE DEF Held
    <2> QED BY <1>2, <1>8 DEF InOrder, frameVars
  <1>10. ASSUME NEW kept, Asked(kept) PROVE Asked(kept)'
    BY <1>2, <1>8, <1>10 DEF Asked, frameVars
  <1> QED BY <1>8, <1>9, <1>10

\* What the framework and the adapter keep, but for the queues.
keptVars == <<plan, pending, capsKnown, apiq, modem, gpsLock, nfw, afw, blacklist, modemLock,
              modemList>>

\* The modem's side sees of the adapter's queue whether an engine-up event, or
\* the first enable, is in it.
LEMMA SentStays ==
  ASSUME NEW kept, Sent(kept), UNCHANGED <<plan, apiq, blacklist, modemLock, modemList>>,
         Recovering => Recovering', NotYet => NotYet', Effective' = Effective
  PROVE  Sent(kept)'
  BY DEF Sent, Unlisted

\* The other themes leave the configuration alone.
LEMMA AsideStep ==
  ASSUME ConfigInv, UNCHANGED keptVars, UNCHANGED <<enabled, session, wish>>,
         calls' \in [Themes -> Nat],
         \/ msgs' = msgs
         \/ \E m : Plain(m) /\ msgs' = Append(msgs, m)
         \/ msgs # << >> /\ Plain(Head(msgs)) /\ msgs' = Tail(msgs)
  PROVE  ConfigInv'
  <1>1. UNCHANGED frameVars /\ UNCHANGED pending /\ Rough' = Rough
    BY DEF keptVars, frameVars, Rough
  <1>2. Queues'
    <2>1. CASE msgs' = msgs
      BY <2>1 DEF ConfigInv, Queues, keptVars
    <2>2. ASSUME NEW m, Plain(m), msgs' = Append(msgs, m) PROVE Queues'
      <3>1. Fine(m) /\ m.type # "EngineUp"
        BY <2>2, PlainIs DEF Plain
      <3> QED BY <2>2, <3>1, QueuesAdd DEF ConfigInv, keptVars
    <2>3. CASE msgs # << >> /\ Plain(Head(msgs)) /\ msgs' = Tail(msgs)
      BY <2>3, QueuesTake DEF ConfigInv, keptVars
    <2> QED BY <2>1, <2>2, <2>3
  <1>3. Values'
    BY <1>1 DEF ConfigInv, Values, frameVars
  <1>4. /\ InOrder => InOrder'
        /\ \A kept : Asked(kept) => Asked(kept)'
        /\ Some(msgs, "Enable") <=> Some(msgs', "Enable")
    BY <1>1, PlainSteps DEF ConfigInv
  <1>5. Some(msgs, "EngineUp") => Some(msgs', "EngineUp")
    <2>1. CASE msgs' = msgs
      BY <2>1
    <2>2. ASSUME NEW m, msgs' = Append(msgs, m)
          PROVE  Some(msgs, "EngineUp") => Some(msgs', "EngineUp")
      BY <2>2, SomeAppend DEF ConfigInv, Queues
    <2>3. CASE msgs # << >> /\ Plain(Head(msgs)) /\ msgs' = Tail(msgs)
      <3>1. ~Of("EngineUp", Head(msgs))
        BY <2>3, PlainIs
      <3> QED BY <2>3, <3>1, SomeTail DEF ConfigInv, Queues
    <2> QED BY <2>1, <2>2, <2>3
  <1>6. (NotYet <=> NotYet') /\ (Recovering => Recovering') /\ Effective' = Effective
    <2>1. NotYet <=> NotYet'
      BY <1>1, <1>4 DEF NotYet, frameVars
    <2>2. Recovering => Recovering'
      BY <1>5 DEF Recovering, keptVars
    <2>3. Effective' = Effective
      BY DEF Effective, keptVars
    <2> QED BY <2>1, <2>2, <2>3
  <1>7. LockKept => LockKept'
    BY <1>6 DEF LockKept, keptVars
  <1>8. \A kept : Sent(kept) => Sent(kept)'
    BY <1>6, SentStays DEF keptVars
  <1> QED BY <1>1, <1>2, <1>3, <1>4, <1>7, <1>8 DEF ConfigInv, Calm

\* A call of the framework: the message in the queue, and what it wishes.
LEMMA FrameworkStep ==
  ASSUME ConfigInv, NEW m, Fine(m), m.type # "EngineUp", msgs' = Append(msgs, m),
         UNCHANGED keptVars, Values', NotYet => NotYet',
         ~Rough /\ Of("Nfw", m) => nfw /\ ~Some(msgs, "lock") /\ ~Some(Held, "lock"),
         ~Rough /\ Of("UpdateConfig", m) => capsKnown \/ ~Some(msgs, "EngineUp"),
         \A kept : ~Rough /\ Asked(kept) => Asked(kept)'
  PROVE  ConfigInv'
  <1>1. Rough' = Rough /\ Held' = Held /\ Effective' = Effective
    BY DEF keptVars, Rough, Held, Effective
  <1>2. Queues' /\ AnySeq(msgs)
    BY QueuesAdd DEF ConfigInv, keptVars, Queues
  <1>3. /\ Some(msgs', "Nfw") <=> Some(msgs, "Nfw") \/ Of("Nfw", m)
        /\ Some(msgs', "EngineUp") <=> Some(msgs, "EngineUp") \/ Of("EngineUp", m)
    BY <1>2, SomeAppend
  <1>4. ASSUME ~Rough, InOrder PROVE InOrder'
    <2>1. Precedes(msgs', "Nfw", "lock")
      BY <1>2, <1>4, PrecedesAppend DEF InOrder
    <2>2. ~capsKnown => Precedes(msgs', "UpdateConfig", "EngineUp")
      BY <1>2, <1>4, PrecedesAppend DEF InOrder
    <2>3. capsKnown' = capsKnown /\ nfw' = nfw
      BY DEF keptVars
    <2>4. Some(msgs', "Nfw") => nfw' /\ ~Some(Held', "lock")
      BY <1>1, <1>3, <1>4, <2>3 DEF InOrder
    <2> QED BY <2>1, <2>2, <2>3, <2>4 DEF InOrder
  <1>5. LockKept => LockKept'
    BY DEF LockKept, keptVars
  <1>6. Recovering => Recovering'
    BY <1>3 DEF Recovering, keptVars
  <1>7. \A kept : Sent(kept) => Sent(kept)'
    BY <1>1, <1>6, SentStays DEF keptVars
  <1> QED BY <1>1, <1>2, <1>4, <1>5, <1>7 DEF ConfigInv, Calm

\* The record of what the framework wishes, changed.
LEMMA WishChanged ==
  ASSUME Values, NEW v
  PROVE  /\ wish.deny \in BOOLEAN
         /\ [wish EXCEPT !.deny = v].deny = v /\ [wish EXCEPT !.deny = v].list = wish.list
         /\ [wish EXCEPT !.list = v].list = v /\ [wish EXCEPT !.list = v].deny = wish.deny
         /\ v \in BOOLEAN =>
               \E d \in BOOLEAN : \E l : [wish EXCEPT !.deny = v] = [deny |-> d, list |-> l]
         /\ \E d \in BOOLEAN : \E l : [wish EXCEPT !.list = v] = [deny |-> d, list |-> l]
  <1>0. PICK d \in BOOLEAN : \E l : wish = [deny |-> d, list |-> l]
    BY DEF Values
  <1>1. PICK l : wish = [deny |-> d, list |-> l]
    BY <1>0
  <1>2. [wish EXCEPT !.deny = v] = [deny |-> v, list |-> l]
    BY <1>1
  <1>3. [wish EXCEPT !.list = v] = [deny |-> d, list |-> v]
    BY <1>1
  <1>4. wish.deny = d /\ wish.list = l
    BY <1>1
  <1> QED BY <1>2, <1>3, <1>4

\* Each call has a number of its own.
LEMMA CallNumbers ==
  ASSUME Values, NEW theme \in Themes, NEW m, Call(theme, m)
  PROVE  calls' \in [Themes -> Nat] /\ Number(theme) \in Nat \ {0}
  <1>1. calls \in [Themes -> Nat]
    BY DEF Values
  <1>2. calls' = [calls EXCEPT ![theme] = calls[theme] + 1]
    BY DEF Call
  <1> QED BY <1>1, <1>2 DEF Number

-----------------------------------------------------------------------------
(* Calls of the framework.                                                 *)

\* Location enabled: the switch from 0 to the new session.
LEMMA EnableCall ==
  ASSUME ConfigInv, LocAPIEnable
  PROVE  ConfigInv'
  <1> DEFINE m == [type |-> "Enable", id |-> Number("config")]
  <1>1. /\ ~enabled /\ enabled' = TRUE /\ session' = m.id /\ Call("config", m)
        /\ UNCHANGED <<gpsLock, nfw, afw, blacklist, modemLock, modemList, wish>>
    BY DEF LocAPIEnable
  <1>2. m.type = "Enable" /\ m.id = Number("config")
    OBVIOUS
  <1> HIDE DEF m
  <1>3. msgs' = Append(msgs, m) /\ UNCHANGED keptVars
    BY <1>1 DEF Call, keptVars
  <1>4. calls' \in [Themes -> Nat] /\ m.id \in Nat \ {0}
    BY <1>1, <1>2, CallNumbers, "config" \in Themes DEF ConfigInv, Themes
  <1>5. /\ Fine(m) /\ ~Of("Nfw", m) /\ ~Of("UpdateConfig", m) /\ Of("Enable", m)
        /\ Switch(m) /\ Before(m) = 0 /\ After(m) = m.id
    BY <1>2 DEF Fine, Of, Switch, Before, After
  <1>6. Tag("wishList", m) = {} /\ Tag("wishDeny", m) = {}
    BY <1>2, Tags
  <1>7. AnySeq(msgs)
    BY DEF ConfigInv, Queues
  <1>8. Values'
    BY <1>1, <1>4 DEF ConfigInv, Values
  <1>9. NotYet => NotYet'
    BY <1>1, <1>3, <1>5, <1>7, SomeAppend DEF NotYet
  <1>10. ASSUME NEW kept, Asked(kept) PROVE Asked(kept)'
    <2>1. Held' = Held /\ Denied' = Denied
      BY <1>1, <1>3 DEF Held, Denied, keptVars
    <2>2. Chain(Held, msgs', "wishList", kept, wish.list)
      BY <1>3, <1>6, <1>7, <1>10, ChainAppend DEF Asked
    <2>3. Chain(Held, msgs', "wishDeny", NiPart(gpsLock), Denied)
      BY <1>3, <1>6, <1>7, <1>10, ChainAppend DEF Asked
    <2>4. Owner = 0 /\ Owner' = m.id
      BY <1>1 DEF Owner
    <2>5. Alternates(msgs', afw, m.id)
      <3>1. Alternates(msgs, afw, 0) /\ m.id # 0
        BY <1>4, <1>10, <2>4 DEF Asked
      <3> QED BY <1>3, <1>5, <1>7, <3>1, AlternatesAppend
    <2> QED BY <1>1, <1>4, <2>1, <2>2, <2>3, <2>4, <2>5 DEF Asked
  <1> QED BY <1>2, <1>3, <1>5, <1>8, <1>9, <1>10, FrameworkStep

\* Location disabled: the switch back from the session.
LEMMA DisableCall ==
  ASSUME ConfigInv, LocAPIDisable
  PROVE  ConfigInv'
  <1> DEFINE m == [type |-> "Disable", id |-> session]
  <1>1. /\ enabled /\ enabled' = FALSE /\ session' = session /\ Call("config", m)
        /\ UNCHANGED <<gpsLock, nfw, afw, blacklist, modemLock, modemList, wish>>
    BY DEF LocAPIDisable
  <1>2. m.type = "Disable" /\ m.id = session
    OBVIOUS
  <1> HIDE DEF m
  <1>3. msgs' = Append(msgs, m) /\ UNCHANGED keptVars
    BY <1>1 DEF Call, keptVars
  <1>4. calls' \in [Themes -> Nat]
    BY <1>1, CallNumbers DEF ConfigInv, Themes
  <1>5. /\ Fine(m) /\ ~Of("Nfw", m) /\ ~Of("UpdateConfig", m)
        /\ Switch(m) /\ Before(m) = session /\ After(m) = 0
    BY <1>2 DEF Fine, Of, Switch, Before, After
  <1>6. Tag("wishList", m) = {} /\ Tag("wishDeny", m) = {}
    BY <1>2, Tags
  <1>7. AnySeq(msgs)
    BY DEF ConfigInv, Queues
  <1>8. Values'
    BY <1>1, <1>4 DEF ConfigInv, Values
  <1>9. NotYet => NotYet'
    BY <1>1, <1>3, <1>7, SomeAppend DEF NotYet
  <1>10. ASSUME NEW kept, Asked(kept) PROVE Asked(kept)'
    <2>1. Held' = Held /\ Denied' = Denied
      BY <1>1, <1>3 DEF Held, Denied, keptVars
    <2>2. Chain(Held, msgs', "wishList", kept, wish.list)
      BY <1>3, <1>6, <1>7, <1>10, ChainAppend DEF Asked
    <2>3. Chain(Held, msgs', "wishDeny", NiPart(gpsLock), Denied)
      BY <1>3, <1>6, <1>7, <1>10, ChainAppend DEF Asked
    <2>4. Owner = session /\ Owner' = 0
      BY <1>1 DEF Owner
    <2>5. Alternates(msgs', afw, 0)
      <3>1. Alternates(msgs, afw, session) /\ m.id # 0
        BY <1>1, <1>2, <1>10, <2>4 DEF Asked
      <3> QED BY <1>3, <1>5, <1>7, <3>1, AlternatesAppend
    <2> QED BY <1>1, <2>1, <2>2, <2>3, <2>4, <2>5 DEF Asked
  <1> QED BY <1>2, <1>3, <1>5, <1>8, <1>9, <1>10, FrameworkStep

\* The network allowed or not.
LEMMA NfwCall ==
  ASSUME ConfigInv, NEW enable \in BOOLEAN, NfwControl(enable)
  PROVE  ConfigInv'
  <1> DEFINE m == [type |-> "Nfw", enable |-> enable]
  <1>1. /\ nfw /\ (Rough \/ ~LockConfigComes) /\ wish' = [wish EXCEPT !.deny = ~enable]
        /\ Call("config", m)
        /\ UNCHANGED <<gpsLock, nfw, afw, blacklist, enabled, session, modemLock, modemList>>
    BY DEF NfwControl
  <1>2. m.type = "Nfw" /\ m.enable = enable
    OBVIOUS
  <1> HIDE DEF m
  <1>3. msgs' = Append(msgs, m) /\ UNCHANGED keptVars
    BY <1>1 DEF Call, keptVars
  <1>4. calls' \in [Themes -> Nat]
    BY <1>1, CallNumbers DEF ConfigInv, Themes
  <1>5. Fine(m) /\ ~Of("UpdateConfig", m) /\ ~Switch(m)
    BY <1>2 DEF Fine, Of, Switch
  <1>6. /\ wish'.list = wish.list /\ wish'.deny = ~enable
        /\ \E d \in BOOLEAN : \E l : wish' = [deny |-> d, list |-> l]
    BY <1>1, WishChanged, (~enable) \in BOOLEAN DEF ConfigInv
  <1>7. Tag("wishList", m) = {} /\ Tag("wishDeny", m) = {Denied'}
    <2>1. enable => Tag("wishDeny", m) = {{}}
      BY <1>2, Tags
    <2>2. ~enable => Tag("wishDeny", m) = {{"NI"}}
      BY <1>2, Tags
    <2>3. Denied' = IF enable THEN {} ELSE {"NI"}
      BY <1>6 DEF Denied
    <2> QED BY <1>2, <2>1, <2>2, <2>3, Tags
  <1>8. AnySeq(msgs)
    BY DEF ConfigInv, Queues
  <1>9. Values'
    BY <1>1, <1>4, <1>6 DEF ConfigInv, Values
  <1>10. NotYet => NotYet'
    BY <1>1, <1>3, <1>8, SomeAppend DEF NotYet
  <1>11. ~Rough => ~Some(msgs, "lock") /\ ~Some(Held, "lock")
    <2>1. ~Rough => ~Some(msgs, "lock")
      BY <1>1 DEF LockConfigComes, Some, Of
    <2>2. ~Rough => ~Some(Held, "lock")
      <3>1. CASE capsKnown
        BY <3>1, SomeNone DEF Held
      <3>2. CASE ~capsKnown
        BY <1>1, <3>2 DEF LockConfigComes, Some, Of, Held
      <3> QED BY <3>1, <3>2
    <2> QED BY <2>1, <2>2
  <1>12. ASSUME NEW kept, Asked(kept) PROVE Asked(kept)'
    <2>1. Held' = Held /\ Owner' = Owner
      BY <1>1, <1>3 DEF Held, Owner, keptVars
    <2>2. Chain(Held, msgs', "wishList", kept, wish.list)
      BY <1>3, <1>7, <1>8, <1>12, ChainAppend DEF Asked
    <2>3. Chain(Held, msgs', "wishDeny", NiPart(gpsLock), Denied')
      <3>1. Chain(Held, msgs, "wishDeny", NiPart(gpsLock), Denied)
        BY <1>12 DEF Asked
      <3>2. PICK w : w = Denied'
        OBVIOUS
      <3>3. Chain(Held, Append(msgs, m), "wishDeny", NiPart(gpsLock), w)
        BY <1>7, <1>8, <3>1, <3>2, ChainAppend
      <3> QED BY <1>3, <3>2, <3>3
    <2>4. Alternates(msgs', afw, Owner)
      BY <1>3, <1>5, <1>8, <1>12, AlternatesAppend DEF Asked
    <2>5. gpsLock' = gpsLock /\ afw' = afw /\ enabled' = enabled /\ session' = session
      BY <1>1
    <2> QED BY <1>6, <1>12, <2>1, <2>2, <2>3, <2>4, <2>5 DEF Asked
  <1> QED BY <1>1, <1>2, <1>3, <1>5, <1>9, <1>10, <1>11, <1>12, FrameworkStep

\* A configuration of a lock or a list.
LEMMA UpdateCall ==
  ASSUME ConfigInv, NEW item, NEW value, UpdateConfig(item, value),
         (item = "lock" /\ value \in LockConfigs) \/ item = "list"
  PROVE  ConfigInv'
  <1> DEFINE m == [type |-> "UpdateConfig", id |-> Number("config"), item |-> item, value |-> value]
  <1>1. /\ Rough \/ capsKnown \/ ~Queued("EngineUp")
        /\ wish' = IF item = "list" THEN [wish EXCEPT !.list = value]
                   ELSE [wish EXCEPT !.deny = "NI" \in value]
        /\ Call("config", m)
        /\ UNCHANGED <<gpsLock, nfw, afw, blacklist, enabled, session, modemLock, modemList>>
    BY DEF UpdateConfig
  <1>2. m.type = "UpdateConfig" /\ m.item = item /\ m.value = value
    OBVIOUS
  <1> HIDE DEF m
  <1>3. msgs' = Append(msgs, m) /\ UNCHANGED keptVars
    BY <1>1 DEF Call, keptVars
  <1>4. calls' \in [Themes -> Nat]
    BY <1>1, CallNumbers DEF ConfigInv, Themes
  <1>5. Fine(m) /\ ~Of("Nfw", m) /\ ~Switch(m)
    BY <1>2, EngineConfigAssumption DEF Fine, Of, Switch
  <1>6. \E d \in BOOLEAN : \E l : wish' = [deny |-> d, list |-> l]
    <2>1. ("NI" \in value) \in BOOLEAN
      OBVIOUS
    <2> QED BY <1>1, <2>1, WishChanged DEF ConfigInv
  <1>7. AnySeq(msgs)
    BY DEF ConfigInv, Queues
  <1>8. Values'
    BY <1>1, <1>4, <1>6 DEF ConfigInv, Values
  <1>9. NotYet => NotYet'
    BY <1>1, <1>3, <1>7, SomeAppend DEF NotYet
  <1>10. ~Rough => capsKnown \/ ~Some(msgs, "EngineUp")
    BY <1>1 DEF Queued, Some, Of
  <1>11. ASSUME NEW kept, Asked(kept) PROVE Asked(kept)'
    <2>1. Held' = Held /\ Owner' = Owner
      BY <1>1, <1>3 DEF Held, Owner, keptVars
    <2>2. Chain(Held, msgs', "wishList", kept, wish'.list)
      <3>1. Chain(Held, msgs, "wishList", kept, wish.list)
        BY <1>11 DEF Asked
      <3>2. CASE item = "list"
        <4>1. Tag("wishList", m) = {value}
          BY <1>2, <3>2, Tags
        <4>2. wish'.list = value
          BY <1>1, <3>2, WishChanged DEF ConfigInv
        <4> QED BY <1>3, <1>7, <3>1, <4>1, <4>2, ChainAppend
      <3>3. CASE item = "lock"
        <4>1. Tag("wishList", m) = {}
          BY <1>2, <3>3, Tags
        <4>2. wish'.list = wish.list
          BY <1>1, <3>3, WishChanged DEF ConfigInv
        <4> QED BY <1>3, <1>7, <3>1, <4>1, <4>2, ChainAppend
      <3> QED BY <3>2, <3>3
    <2>3. Chain(Held, msgs', "wishDeny", NiPart(gpsLock), Denied')
      <3>1. Chain(Held, msgs, "wishDeny", NiPart(gpsLock), Denied)
        BY <1>11 DEF Asked
      <3>2. CASE item = "list"
        <4>1. Tag("wishDeny", m) = {}
          BY <1>2, <3>2, Tags
        <4>2. wish'.deny = wish.deny
          BY <1>1, <3>2, WishChanged DEF ConfigInv
        <4>3. Denied' = Denied
          BY <4>2 DEF Denied
        <4> QED BY <1>3, <1>7, <3>1, <4>1, <4>3, ChainAppend
      <3>3. CASE item = "lock"
        <4>1. Tag("wishDeny", m) = {NiPart(value)}
          BY <1>2, <3>3, Tags
        <4>2. wish'.deny = ("NI" \in value)
          BY <1>1, <3>3, WishChanged DEF ConfigInv
        <4>3. Denied' = NiPart(value)
          BY <4>2 DEF Denied, NiPart
        <4> QED BY <1>3, <1>7, <3>1, <4>1, <4>3, ChainAppend
      <3> QED BY <3>2, <3>3
    <2>4. Alternates(msgs', afw, Owner)
      BY <1>3, <1>5, <1>7, <1>11, AlternatesAppend DEF Asked
    <2>5. gpsLock' = gpsLock /\ afw' = afw /\ enabled' = enabled /\ session' = session
      BY <1>1
    <2> QED BY <1>11, <2>1, <2>2, <2>3, <2>4, <2>5 DEF Asked
  <1> QED BY <1>2, <1>3, <1>5, <1>8, <1>9, <1>10, <1>11, FrameworkStep

-----------------------------------------------------------------------------
(* Handlers of the adapter's thread.                                       *)

\* The lock of the network in the locks the handlers make.
LEMMA NiParts ==
  ASSUME NEW lock
  PROVE  /\ NiPart(lock \cap {"NI"}) = NiPart(lock)
         /\ NiPart(lock \cup {"MO"}) = NiPart(lock)
         /\ NiPart(lock \ {"NI"}) = {}
         /\ NiPart(lock \cup {"NI"}) = {"NI"}
  BY "MO" # "NI" DEF NiPart

\* The modem's side when a message is handled: what is sent sets the lock as it
\* is then, or nothing.
LEMMA SentHandler ==
  ASSUME Queues, NEW kept, Sent(kept), msgs # << >>, Head(msgs).type # "EngineUp",
         msgs' = Tail(msgs), UNCHANGED <<plan, modem, blacklist, modemLock, modemList>>,
         \/ apiq' = apiq /\ Effective' = Effective /\ (NotYet => NotYet')
         \/ \E r : /\ apiq' = Append(apiq, r)
                   /\ Tag("keptList", r) = {} /\ Tag("modemList", r) = {}
                   /\ \/ Tag("modemLock", r) = {Effective'}
                      \/ /\ Tag("modemLock", r) = {}
                         /\ Effective' = Effective /\ (NotYet => NotYet')
  PROVE  Sent(kept)'
  <1>1. AnySeq(msgs) /\ AnySeq(apiq)
    BY DEF Queues
  <1>2. ~Of("EngineUp", Head(msgs))
    BY DEF Of
  <1>3. Some(msgs, "EngineUp") => Some(msgs', "EngineUp")
    BY <1>1, <1>2, SomeTail
  <1>4. CASE apiq' = apiq /\ Effective' = Effective /\ (NotYet => NotYet')
    <2>1. Recovering => Recovering'
      BY <1>3, <1>4 DEF Recovering
    <2> QED BY <1>4, <2>1, SentStays
  <1>5. ASSUME NEW r, apiq' = Append(apiq, r),
               Tag("keptList", r) = {}, Tag("modemList", r) = {},
               \/ Tag("modemLock", r) = {Effective'}
               \/ Tag("modemLock", r) = {} /\ Effective' = Effective /\ (NotYet => NotYet')
        PROVE  Sent(kept)'
    <2>1. Recovering => Recovering'
      BY <1>1, <1>3, <1>5, SomeAppend DEF Recovering
    <2>2. Unlisted \/ Final(apiq', "keptList", blacklist, kept)
      BY <1>1, <1>5, FinalAppend DEF Sent
    <2>3. Unlisted \/ Recovering \/ Final(apiq', "modemList", modemList, kept)
      BY <1>1, <1>5, FinalAppend DEF Sent
    <2>4. Recovering' \/ NotYet' \/ Final(apiq', "modemLock", modemLock, Effective')
      <3>1. CASE Tag("modemLock", r) = {Effective'}
        <4>1. PICK w : w = Effective'
          OBVIOUS
        <4>2. Final(Append(apiq, r), "modemLock", modemLock, w)
          BY <1>1, <3>1, <4>1, FinalNew
        <4> QED BY <1>5, <4>1, <4>2
      <3>2. CASE Tag("modemLock", r) = {} /\ Effective' = Effective /\ (NotYet => NotYet')
        BY <1>1, <1>5, <2>1, <3>2, FinalAppend DEF Sent
      <3> QED BY <1>5, <3>1, <3>2
    <2> QED BY <2>1, <2>2, <2>3, <2>4 DEF Sent, Unlisted
  <1> QED BY <1>4, <1>5

\* A message handled, but for what it sets.
LEMMA HandlerStep ==
  ASSUME ConfigInv, msgs # << >>, Head(msgs).type # "EngineUp", msgs' = Tail(msgs),
         UNCHANGED <<plan, pending, capsKnown, modem, blacklist, modemLock, modemList>>,
         UNCHANGED <<enabled, session, wish, calls>>, gpsLock' \subseteq {"MO", "NI"},
         apiq' = apiq \/ \E r : Fine(r) /\ r.type # "Open" /\ apiq' = Append(apiq, r),
         nfw' = nfw \/ Of("lock", Head(msgs)),
         ~Rough /\ Calm => LockKept' /\ \E kept : Asked(kept)' /\ Sent(kept)'
  PROVE  ConfigInv'
  <1>1. Rough' = Rough /\ Held' = Held
    BY DEF Rough, Held
  <1>2. Queues' /\ AnySeq(msgs)
    BY QueuesTake DEF ConfigInv, Queues
  <1>3. Values'
    BY DEF ConfigInv, Values
  <1>4. ASSUME ~Rough, Calm PROVE InOrder'
    <2>1. InOrder
      BY <1>4 DEF Calm
    <2>2. /\ Precedes(msgs', "Nfw", "lock")
          /\ Of("lock", Head(msgs)) => ~Some(msgs', "Nfw")
      BY <1>2, <2>1, PrecedesTail DEF InOrder
    <2>3. ~capsKnown => Precedes(msgs', "UpdateConfig", "EngineUp")
      BY <1>2, <2>1, PrecedesTail DEF InOrder
    <2>4. Some(msgs', "Nfw") => Some(msgs, "Nfw")
      BY <1>2, SomeTail
    <2>5. Some(msgs', "Nfw") => nfw' /\ ~Some(Held', "lock")
      BY <1>1, <2>1, <2>2, <2>4 DEF InOrder
    <2> QED BY <2>2, <2>3, <2>5 DEF InOrder
  <1> QED BY <1>1, <1>2, <1>3, <1>4 DEF ConfigInv, Calm

\* What a handler sends.
LEMMA HandleSends ==
  ASSUME Queues, NEW type, NEW sends, Handle(type, sends)
  PROVE  /\ msgs # << >> /\ Head(msgs).type = type /\ msgs' = Tail(msgs)
         /\ UNCHANGED <<plan, pending, capsKnown, modem, calls>>
         /\ sends = << >> => apiq' = apiq
         /\ \A r : sends = <<r>> => apiq' = Append(apiq, r)
  BY ConcatShort DEF Handle, Queues

\* Location enabled: a lock of the adapter's own, for the first enable in turn.
LEMMA EnableHandled ==
  ASSUME ConfigInv, HandleEnable
  PROVE  ConfigInv'
  <1> DEFINE lock == IF nfw THEN gpsLock \cap {"NI"} ELSE {}
             r == [type |-> "SetLock", lock |-> lock]
  <1>1. Handle("Enable", IF afw = 0 THEN SetLock(lock) ELSE << >>)
    BY DEF HandleEnable
  <1>2. /\ UNCHANGED <<nfw, blacklist, enabled, session, modemLock, modemList, wish>>
        /\ afw = 0 => afw' = Head(msgs).id /\ gpsLock' = IF nfw THEN lock ELSE gpsLock
        /\ afw # 0 => afw' = afw /\ gpsLock' = gpsLock
    BY DEF HandleEnable
  <1>3. r.type = "SetLock" /\ r.lock = lock /\ SetLock(lock) = <<r>>
    BY DEF SetLock
  <1>4. Queues
    BY DEF ConfigInv
  <1>5. /\ msgs # << >> /\ Head(msgs).type = "Enable" /\ msgs' = Tail(msgs)
        /\ UNCHANGED <<plan, pending, capsKnown, modem, calls>>
        /\ afw # 0 => apiq' = apiq
        /\ afw = 0 => apiq' = Append(apiq, r)
    <2> HIDE DEF r, lock
    <2>1. CASE afw = 0
      <3>1. Handle("Enable", <<r>>)
        BY <1>1, <1>3, <2>1
      <3> QED BY <1>4, <2>1, <3>1, HandleSends
    <2>2. CASE afw # 0
      <3>1. Handle("Enable", << >>)
        BY <1>1, <2>2
      <3> QED BY <1>4, <2>2, <3>1, HandleSends
    <2> QED BY <2>1, <2>2
  <1>6. Fine(r) /\ r.type # "Open"
    BY DEF Fine
  <1>7. gpsLock' \subseteq {"MO", "NI"}
    BY <1>2 DEF ConfigInv, Values
  <1>8. ASSUME ~Rough, Calm PROVE LockKept' /\ \E kept : Asked(kept)' /\ Sent(kept)'
    <2>1. PICK kept : Asked(kept) /\ Sent(kept)
      BY <1>8 DEF Calm
    <2>2. /\ Switch(Head(msgs)) /\ Before(Head(msgs)) = 0 /\ After(Head(msgs)) = Head(msgs).id
          /\ Tag("wishList", Head(msgs)) = {} /\ Tag("wishDeny", Head(msgs)) = {}
      <3>1. Tag("wishList", Head(msgs)) = {} /\ Tag("wishDeny", Head(msgs)) = {}
        BY <1>5, Tags
      <3> QED BY <1>5, <3>1 DEF Switch, Before, After
    <2>3. /\ AnySeq(msgs) /\ AnySeq(Held) /\ Held' = Held /\ Owner' = Owner /\ Denied' = Denied
      BY <1>2, <1>4, <1>5, ShortSeq DEF Queues, Held, Owner, Denied
    <2>4. afw = 0 /\ Head(msgs).id # 0 /\ Alternates(msgs', Head(msgs).id, Owner)
      BY <1>5, <2>1, <2>2, <2>3, AlternatesTail DEF Asked
    <2>5. afw' = Head(msgs).id /\ NiPart(gpsLock') = NiPart(gpsLock)
      BY <1>2, <2>4, NiParts
    <2>6. Chain(Held, msgs', "wishList", kept, wish.list)
      BY <1>5, <2>1, <2>2, <2>3, ChainTail DEF Asked
    <2>7. Chain(Held, msgs', "wishDeny", NiPart(gpsLock), Denied)
      BY <1>5, <2>1, <2>2, <2>3, ChainTail DEF Asked
    <2>8. enabled' => session' # 0
      BY <1>2, <2>1 DEF Asked
    <2>9. Asked(kept)'
      BY <1>2, <2>3, <2>4, <2>5, <2>6, <2>7, <2>8 DEF Asked
    <2>10. LockKept'
      <3>1. ~nfw => "MO" \in gpsLock
        BY <1>8 DEF Calm, LockKept
      <3> QED BY <1>2, <2>4, <3>1, "MO" # "NI" DEF LockKept
    <2>11. Effective' = lock
      BY <1>2, <2>4 DEF Effective
    <2>12. Tag("keptList", r) = {} /\ Tag("modemList", r) = {} /\ Tag("modemLock", r) = {lock}
      BY <1>3, RequestTags
    <2>13. Sent(kept)'
      <3> HIDE DEF r, lock
      <3>1. UNCHANGED <<plan, modem, blacklist, modemLock, modemList>>
        BY <1>2, <1>5
      <3>2. Head(msgs).type # "EngineUp"
        BY <1>5
      <3>3. Tag("modemLock", r) = {Effective'}
        BY <2>11, <2>12
      <3> QED BY <1>4, <1>5, <2>1, <2>4, <2>12, <3>1, <3>2, <3>3, SentHandler
    <2> QED BY <2>9, <2>10, <2>13
  <1> HIDE DEF r, lock
  <1>9. Head(msgs).type # "EngineUp" /\ nfw' = nfw
    BY <1>2, <1>5
  <1>10. apiq' = apiq \/ \E q : Fine(q) /\ q.type # "Open" /\ apiq' = Append(apiq, q)
    BY <1>5, <1>6
  <1> QED BY <1>2, <1>5, <1>7, <1>8, <1>9, <1>10, HandlerStep

\* Location disabled: in turn it is the session that was enabled.
LEMMA DisableHandled ==
  ASSUME ConfigInv, HandleDisable
  PROVE  ConfigInv'
  <1> DEFINE id == Head(msgs).id
             lock == IF nfw THEN gpsLock \cup {"MO"} ELSE gpsLock
             r == [type |-> "SetLock", lock |-> lock]
  <1>1. Handle("Disable", IF afw = id THEN SetLock(lock) ELSE << >>)
    BY DEF HandleDisable
  <1>2. /\ UNCHANGED <<nfw, blacklist, enabled, session, modemLock, modemList, wish>>
        /\ afw = id => afw' = 0 /\ gpsLock' = lock
        /\ afw # id => afw' = afw /\ gpsLock' = gpsLock
    BY DEF HandleDisable
  <1>3. r.type = "SetLock" /\ r.lock = lock /\ SetLock(lock) = <<r>>
    BY DEF SetLock
  <1>4. Queues
    BY DEF ConfigInv
  <1>5. /\ msgs # << >> /\ Head(msgs).type = "Disable" /\ msgs' = Tail(msgs)
        /\ UNCHANGED <<plan, pending, capsKnown, modem, calls>>
        /\ afw # id => apiq' = apiq
        /\ afw = id => apiq' = Append(apiq, r)
    <2> HIDE DEF r, lock, id
    <2>1. CASE afw = id
      <3>1. Handle("Disable", <<r>>)
        BY <1>1, <1>3, <2>1
      <3> QED BY <1>4, <2>1, <3>1, HandleSends
    <2>2. CASE afw # id
      <3>1. Handle("Disable", << >>)
        BY <1>1, <2>2
      <3> QED BY <1>4, <2>2, <3>1, HandleSends
    <2> QED BY <2>1, <2>2
  <1>6. Fine(r) /\ r.type # "Open"
    BY DEF Fine
  <1>7. gpsLock' \subseteq {"MO", "NI"}
    BY <1>2 DEF ConfigInv, Values
  <1>8. ASSUME ~Rough, Calm PROVE LockKept' /\ \E kept : Asked(kept)' /\ Sent(kept)'
    <2>1. PICK kept : Asked(kept) /\ Sent(kept)
      BY <1>8 DEF Calm
    <2>2. /\ Switch(Head(msgs)) /\ Before(Head(msgs)) = id /\ After(Head(msgs)) = 0
          /\ Tag("wishList", Head(msgs)) = {} /\ Tag("wishDeny", Head(msgs)) = {}
      <3>1. Tag("wishList", Head(msgs)) = {} /\ Tag("wishDeny", Head(msgs)) = {}
        BY <1>5, Tags
      <3> QED BY <1>5, <3>1 DEF Switch, Before, After
    <2>3. /\ AnySeq(msgs) /\ AnySeq(Held) /\ Held' = Held /\ Owner' = Owner /\ Denied' = Denied
      BY <1>2, <1>4, <1>5, ShortSeq DEF Queues, Held, Owner, Denied
    <2>4. afw = id /\ Alternates(msgs', 0, Owner)
      BY <1>5, <2>1, <2>2, <2>3, AlternatesTail DEF Asked
    <2>5. afw' = 0 /\ NiPart(gpsLock') = NiPart(gpsLock)
      BY <1>2, <2>4, NiParts
    <2>6. Chain(Held, msgs', "wishList", kept, wish.list)
      BY <1>5, <2>1, <2>2, <2>3, ChainTail DEF Asked
    <2>7. Chain(Held, msgs', "wishDeny", NiPart(gpsLock), Denied)
      BY <1>5, <2>1, <2>2, <2>3, ChainTail DEF Asked
    <2>8. enabled' => session' # 0
      BY <1>2, <2>1 DEF Asked
    <2>9. Asked(kept)'
      BY <1>2, <2>3, <2>4, <2>5, <2>6, <2>7, <2>8 DEF Asked
    <2>10. LockKept'
      <3>1. ~nfw => "MO" \in gpsLock
        BY <1>8 DEF Calm, LockKept
      <3> QED BY <1>2, <2>4, <3>1 DEF LockKept
    <2>11. Effective' = lock
      BY <1>2, <2>4 DEF Effective
    <2>12. Tag("keptList", r) = {} /\ Tag("modemList", r) = {} /\ Tag("modemLock", r) = {lock}
      BY <1>3, RequestTags
    <2>13. Sent(kept)'
      <3> HIDE DEF r, lock, id
      <3>1. UNCHANGED <<plan, modem, blacklist, modemLock, modemList>>
        BY <1>2, <1>5
      <3>2. Head(msgs).type # "EngineUp"
        BY <1>5
      <3>3. Tag("modemLock", r) = {Effective'}
        BY <2>11, <2>12
      <3> QED BY <1>4, <1>5, <2>1, <2>4, <2>12, <3>1, <3>2, <3>3, SentHandler
    <2> QED BY <2>9, <2>10, <2>13
  <1> HIDE DEF r, lock, id
  <1>9. Head(msgs).type # "EngineUp" /\ nfw' = nfw
    BY <1>2, <1>5
  <1>10. apiq' = apiq \/ \E q : Fine(q) /\ q.type # "Open" /\ apiq' = Append(apiq, q)
    BY <1>5, <1>6
  <1> QED BY <1>2, <1>5, <1>7, <1>8, <1>9, <1>10, HandlerStep

\* The network allowed or not: in order it is the Q behaviour still.
LEMMA NfwHandled ==
  ASSUME ConfigInv, HandleNfw
  PROVE  ConfigInv'
  <1> DEFINE lock == IF Head(msgs).enable THEN gpsLock \ {"NI"} ELSE gpsLock \cup {"NI"}
             r == [type |-> "SetLock", lock |-> lock]
  <1>1. Handle("Nfw", SetLock(lock))
    BY DEF HandleNfw
  <1>2. /\ UNCHANGED <<nfw, afw, blacklist, enabled, session, modemLock, modemList, wish>>
        /\ gpsLock' = lock
    BY DEF HandleNfw
  <1>3. r.type = "SetLock" /\ r.lock = lock /\ SetLock(lock) = <<r>>
    BY DEF SetLock
  <1>4. Queues
    BY DEF ConfigInv
  <1>5. /\ msgs # << >> /\ Head(msgs).type = "Nfw" /\ msgs' = Tail(msgs)
        /\ UNCHANGED <<plan, pending, capsKnown, modem, calls>>
        /\ apiq' = Append(apiq, r)
    <2> HIDE DEF r, lock
    <2>1. Handle("Nfw", <<r>>)
      BY <1>1, <1>3
    <2> QED BY <1>4, <2>1, HandleSends
  <1>6. Fine(r) /\ r.type # "Open"
    BY DEF Fine
  <1>7. gpsLock' \subseteq {"MO", "NI"}
    BY <1>2 DEF ConfigInv, Values
  <1>8. ASSUME ~Rough, Calm PROVE LockKept' /\ \E kept : Asked(kept)' /\ Sent(kept)'
    <2>1. PICK kept : Asked(kept) /\ Sent(kept)
      BY <1>8 DEF Calm
    <2>2. AnySeq(msgs) /\ AnySeq(Held) /\ Held' = Held /\ Owner' = Owner /\ Denied' = Denied
      BY <1>2, <1>4, <1>5, ShortSeq DEF Queues, Held, Owner, Denied
    <2>3. nfw /\ ~Some(Held, "lock")
      <3>1. Of("Nfw", Head(msgs))
        BY <1>5 DEF Of
      <3>2. Some(msgs, "Nfw")
        BY <1>5, <2>2, <3>1, SomeTail
      <3> QED BY <1>8, <3>2 DEF Calm, InOrder
    <2>4. /\ ~Switch(Head(msgs)) /\ Tag("wishList", Head(msgs)) = {}
          /\ Tag("wishDeny", Head(msgs)) = {NiPart(lock)}
      <3>1. Tag("wishList", Head(msgs)) = {}
        BY <1>5, Tags
      <3>2. CASE Head(msgs).enable
        BY <1>5, <3>1, <3>2, Tags, NiParts DEF Switch
      <3>3. CASE ~Head(msgs).enable
        BY <1>5, <3>1, <3>3, Tags, NiParts DEF Switch
      <3> QED BY <3>2, <3>3
    <2>5. Silent(Held, "wishDeny")
      <3>1. ~Some(Held, "other")
        <4>1. CASE capsKnown
          BY <4>1, SomeNone DEF Held
        <4>2. CASE ~capsKnown
          BY <1>4, <4>2 DEF Held, Queues
        <4> QED BY <4>1, <4>2
      <3> QED BY <2>3, <3>1, SilentKinds
    <2>6. Chain(Held, msgs', "wishList", kept, wish.list)
      BY <1>5, <2>1, <2>2, <2>4, ChainTail DEF Asked
    <2>7. Chain(Held, msgs', "wishDeny", NiPart(lock), Denied)
      <3> HIDE DEF lock
      <3> QED BY <1>5, <2>1, <2>2, <2>4, <2>5, ChainTail DEF Asked
    <2>8. Alternates(msgs', afw, Owner)
      BY <1>5, <2>1, <2>2, <2>4, AlternatesTail DEF Asked
    <2>9. enabled' => session' # 0
      BY <1>2, <2>1 DEF Asked
    <2>10. Asked(kept)'
      <3> HIDE DEF lock
      <3> QED BY <1>2, <2>2, <2>6, <2>7, <2>8, <2>9 DEF Asked
    <2>11. LockKept'
      <3>1. NotYet => NotYet'
        <4>1. ~Of("Enable", Head(msgs))
          BY <1>5 DEF Of
        <4> QED BY <1>2, <1>5, <2>2, <4>1, SomeTail DEF NotYet
      <3>2. "MO" \in gpsLock' <=> "MO" \in gpsLock
        BY <1>2, "MO" # "NI"
      <3> QED BY <1>2, <1>8, <3>1, <3>2 DEF Calm, LockKept
    <2>12. Effective' = lock
      BY <1>2, <2>3 DEF Effective
    <2>13. Tag("keptList", r) = {} /\ Tag("modemList", r) = {} /\ Tag("modemLock", r) = {lock}
      BY <1>3, RequestTags
    <2>14. Sent(kept)'
      <3> HIDE DEF r, lock
      <3>1. UNCHANGED <<plan, modem, blacklist, modemLock, modemList>>
        BY <1>2, <1>5
      <3>2. Head(msgs).type # "EngineUp"
        BY <1>5
      <3>3. Tag("modemLock", r) = {Effective'}
        BY <2>12, <2>13
      <3> QED BY <1>4, <1>5, <2>1, <2>13, <3>1, <3>2, <3>3, SentHandler
    <2> QED BY <2>10, <2>11, <2>14
  <1> HIDE DEF r, lock
  <1>9. Head(msgs).type # "EngineUp" /\ nfw' = nfw
    BY <1>2, <1>5
  <1>10. apiq' = apiq \/ \E q : Fine(q) /\ q.type # "Open" /\ apiq' = Append(apiq, q)
    BY <1>5, <1>6
  <1> QED BY <1>2, <1>5, <1>7, <1>8, <1>9, <1>10, HandlerStep

\* A lock of the older kind: the P behaviour from now on.
LEMMA LockConfigHandled ==
  ASSUME ConfigInv, HandleLockConfig
  PROVE  ConfigInv'
  <1> DEFINE m == Head(msgs)
             new == m.value \cup {"MO"}
             sent == IF afw = 0 THEN {new} ELSE IF nfw THEN {{}} ELSE {}
             r == [type |-> "Config", locks |-> sent, lists |-> {}, id |-> m.id]
  <1>1. /\ Handle("UpdateConfig", Config(sent, {}, m.id)) /\ capsKnown /\ m.item = "lock"
        /\ gpsLock' = new /\ nfw' = FALSE
        /\ UNCHANGED <<afw, blacklist, enabled, session, modemLock, modemList, wish>>
    BY DEF HandleLockConfig
  <1>2. /\ r.type = "Config" /\ r.locks = sent /\ r.lists = {}
        /\ Config(sent, {}, m.id) = <<r>>
    BY DEF Config
  <1>3. Queues
    BY DEF ConfigInv
  <1>4. /\ msgs # << >> /\ m.type = "UpdateConfig" /\ msgs' = Tail(msgs)
        /\ UNCHANGED <<plan, pending, capsKnown, modem, calls>>
        /\ apiq' = Append(apiq, r)
    <2> HIDE DEF r, sent, new
    <2>1. Handle("UpdateConfig", <<r>>)
      BY <1>1, <1>2
    <2> QED BY <1>3, <2>1, HandleSends
  <1>5. Single(sent) /\ Fine(r) /\ r.type # "Open"
    BY DEF Single, Fine
  <1>6. AnySeq(msgs) /\ Of("lock", m)
    BY <1>1, <1>3, <1>4 DEF Queues, Of
  <1>7. gpsLock' \subseteq {"MO", "NI"}
    <2>1. ~Of("odd", m)
      BY <1>3, <1>4, <1>6, SomeTail DEF Queues
    <2>2. m.value \subseteq {"MO", "NI"}
      BY <1>1, <1>4, <2>1 DEF Of, Fine
    <2> QED BY <1>1, <2>2
  <1>8. ASSUME ~Rough, Calm PROVE LockKept' /\ \E kept : Asked(kept)' /\ Sent(kept)'
    <2>1. PICK kept : Asked(kept) /\ Sent(kept)
      BY <1>8 DEF Calm
    <2>2. Held = << >> /\ Held' = Held /\ AnySeq(Held) /\ Owner' = Owner /\ Denied' = Denied
      BY <1>1, <1>4, ShortSeq DEF Held, Owner, Denied
    <2>3. /\ ~Switch(m) /\ Tag("wishList", m) = {} /\ Tag("wishDeny", m) = {NiPart(m.value)}
      <3>1. Tag("wishList", m) = {} /\ Tag("wishDeny", m) = {NiPart(m.value)}
        BY <1>1, <1>4, Tags
      <3> QED BY <1>4, <3>1 DEF Switch
    <2>4. NiPart(gpsLock') = NiPart(m.value)
      BY <1>1, NiParts
    <2>5. Silent(Held, "wishDeny")
      BY <2>2, SomeNone, SilentKinds
    <2>6. Chain(Held, msgs', "wishList", kept, wish.list)
      BY <1>4, <1>6, <2>1, <2>2, <2>3, ChainTail DEF Asked
    <2>7. Chain(Held, msgs', "wishDeny", NiPart(m.value), Denied)
      BY <1>4, <1>6, <2>1, <2>2, <2>3, <2>5, ChainTail DEF Asked
    <2>8. Alternates(msgs', afw, Owner)
      BY <1>4, <1>6, <2>1, <2>3, AlternatesTail DEF Asked
    <2>9. enabled' => session' # 0
      BY <1>1, <2>1 DEF Asked
    <2>10. Asked(kept)'
      <3> HIDE DEF m, new
      <3> QED BY <1>1, <2>2, <2>4, <2>6, <2>7, <2>8, <2>9 DEF Asked
    <2>11. LockKept'
      BY <1>1 DEF LockKept
    <2>12. Tag("keptList", r) = {} /\ Tag("modemList", r) = {} /\ Tag("modemLock", r) = sent
      BY <1>2, RequestTags
    <2>13. \/ sent = {Effective'}
           \/ sent = {} /\ Effective' = Effective /\ (NotYet => NotYet')
      <3>1. CASE afw = 0
        BY <1>1, <3>1 DEF Effective
      <3>2. CASE afw # 0 /\ nfw
        BY <1>1, <3>2 DEF Effective
      <3>3. CASE afw # 0 /\ ~nfw
        BY <1>1, <3>3 DEF Effective, NotYet
      <3> QED BY <3>1, <3>2, <3>3
    <2>14. Sent(kept)'
      <3> HIDE DEF r, sent, new
      <3>1. UNCHANGED <<plan, modem, blacklist, modemLock, modemList>>
        BY <1>1, <1>4
      <3>2. Head(msgs).type # "EngineUp"
        BY <1>4
      <3>3. \/ Tag("modemLock", r) = {Effective'}
            \/ /\ Tag("modemLock", r) = {}
               /\ Effective' = Effective /\ (NotYet => NotYet')
        BY <2>12, <2>13
      <3> QED BY <1>3, <1>4, <2>1, <2>12, <3>1, <3>2, <3>3, SentHandler
    <2> QED BY <2>10, <2>11, <2>14
  <1> HIDE DEF r, sent, new
  <1>9. Head(msgs).type # "EngineUp" /\ Of("lock", Head(msgs))
    BY <1>4, <1>6
  <1>10. apiq' = apiq \/ \E q : Fine(q) /\ q.type # "Open" /\ apiq' = Append(apiq, q)
    BY <1>4, <1>5
  <1> QED BY <1>1, <1>4, <1>7, <1>8, <1>9, <1>10, HandlerStep

\* A list: the other thread will keep it.
LEMMA ListConfigHandled ==
  ASSUME ConfigInv, HandleListConfig
  PROVE  ConfigInv'
  <1> DEFINE m == Head(msgs)
             r == [type |-> "Config", locks |-> {}, lists |-> {m.value}, id |-> m.id]
  <1>1. /\ Handle("UpdateConfig", Config({}, {m.value}, m.id)) /\ capsKnown /\ m.item = "list"
        /\ UNCHANGED <<gpsLock, nfw, afw, blacklist, enabled, session, modemLock, modemList, wish>>
    BY DEF HandleListConfig, configVars
  <1>2. /\ r.type = "Config" /\ r.locks = {} /\ r.lists = {m.value}
        /\ Config({}, {m.value}, m.id) = <<r>>
    BY DEF Config
  <1>3. Queues
    BY DEF ConfigInv
  <1>4. /\ msgs # << >> /\ m.type = "UpdateConfig" /\ msgs' = Tail(msgs)
        /\ UNCHANGED <<plan, pending, capsKnown, modem, calls>>
        /\ apiq' = Append(apiq, r)
    <2> HIDE DEF r
    <2>1. Handle("UpdateConfig", <<r>>)
      BY <1>1, <1>2
    <2> QED BY <1>3, <2>1, HandleSends
  <1>5. Fine(r) /\ r.type # "Open"
    BY DEF Single, Fine
  <1>6. AnySeq(msgs) /\ AnySeq(apiq)
    BY <1>3 DEF Queues
  <1>7. gpsLock' \subseteq {"MO", "NI"}
    BY <1>1 DEF ConfigInv, Values
  <1>8. ASSUME ~Rough, Calm PROVE LockKept' /\ \E kept : Asked(kept)' /\ Sent(kept)'
    <2>1. PICK kept : Asked(kept) /\ Sent(kept)
      BY <1>8 DEF Calm
    <2>2. Held = << >> /\ Held' = Held /\ AnySeq(Held) /\ Owner' = Owner /\ Denied' = Denied
      BY <1>1, <1>4, ShortSeq DEF Held, Owner, Denied
    <2>3. /\ ~Switch(m) /\ Tag("wishList", m) = {m.value} /\ Tag("wishDeny", m) = {}
          /\ ~Of("EngineUp", m) /\ ~Of("Enable", m)
      <3>1. Tag("wishList", m) = {m.value} /\ Tag("wishDeny", m) = {}
        BY <1>1, <1>4, Tags
      <3> QED BY <1>4, <3>1 DEF Switch, Of
    <2>4. Silent(Held, "wishList")
      BY <2>2, SomeNone, SilentKinds
    <2>5. Chain(Held, msgs', "wishList", m.value, wish.list)
      BY <1>4, <1>6, <2>1, <2>2, <2>3, <2>4, ChainTail DEF Asked
    <2>6. Chain(Held, msgs', "wishDeny", NiPart(gpsLock), Denied)
      BY <1>4, <1>6, <2>1, <2>2, <2>3, ChainTail DEF Asked
    <2>7. Alternates(msgs', afw, Owner)
      BY <1>4, <1>6, <2>1, <2>3, AlternatesTail DEF Asked
    <2>8. enabled' => session' # 0
      BY <1>1, <2>1 DEF Asked
    <2>9. PICK kept1 : kept1 = m.value
      OBVIOUS
    <2> HIDE DEF m
    <2>10. Asked(kept1)'
      BY <1>1, <2>2, <2>5, <2>6, <2>7, <2>8, <2>9 DEF Asked
    <2>11. /\ NotYet <=> NotYet'
           /\ Some(msgs, "EngineUp") => Some(msgs', "EngineUp")
      BY <1>1, <1>4, <1>6, <2>3, SomeTail DEF NotYet, m
    <2>12. LockKept'
      BY <1>1, <1>8, <2>11 DEF Calm, LockKept
    <2>13. /\ Tag("keptList", r) = {kept1} /\ Tag("modemList", r) = {kept1}
           /\ Tag("modemLock", r) = {}
      BY <1>2, <2>9, RequestTags
    <2> HIDE DEF r
    <2>14. Final(apiq', "keptList", blacklist, kept1) /\ Final(apiq', "modemList", modemList, kept1)
      BY <1>4, <1>6, <2>13, FinalNew
    <2>15. Recovering => Recovering'
      BY <1>4, <1>6, <2>11, SomeAppend DEF Recovering
    <2>16. Effective' = Effective
      BY <1>1 DEF Effective
    <2>17. Recovering' \/ NotYet' \/ Final(apiq', "modemLock", modemLock, Effective)
      BY <1>4, <1>6, <2>1, <2>11, <2>13, <2>15, FinalAppend DEF Sent
    <2>18. Sent(kept1)'
      BY <1>1, <2>14, <2>16, <2>17 DEF Sent, Unlisted
    <2> QED BY <2>10, <2>12, <2>18
  <1> HIDE DEF r
  <1>9. Head(msgs).type # "EngineUp" /\ nfw' = nfw
    BY <1>1, <1>4
  <1>10. apiq' = apiq \/ \E q : Fine(q) /\ q.type # "Open" /\ apiq' = Append(apiq, q)
    BY <1>4, <1>5
  <1> QED BY <1>1, <1>4, <1>7, <1>8, <1>9, <1>10, HandlerStep

\* A configuration held until the first engine-up event.
LEMMA ConfigHeld ==
  ASSUME ConfigInv, HoldConfig
  PROVE  ConfigInv'
  <1> DEFINE m == Head(msgs)
  <1>1. /\ msgs # << >> /\ m.type = "UpdateConfig" /\ ~capsKnown
        /\ pending' = Append(pending, m) /\ msgs' = Tail(msgs)
        /\ UNCHANGED <<plan, apiq, capsKnown, modem, calls>>
        /\ UNCHANGED <<gpsLock, nfw, afw, blacklist, enabled, session, modemLock, modemList, wish>>
    BY DEF HoldConfig, Hold, configVars
  <1>2. /\ AnySeq(msgs) /\ AnySeq(pending) /\ Queues /\ Held = pending /\ Held' = pending'
        /\ AnySeq(pending')
    BY <1>1, AppendAt DEF ConfigInv, Queues, Held
  <1>3. ~Of("odd", m) /\ ~Of("other", m) /\ ~Of("EngineUp", m) /\ ~Of("Enable", m) /\ ~Switch(m)
    <2>1. ~Of("odd", m)
      BY <1>1, <1>2, SomeTail DEF Queues
    <2> QED BY <1>1, <2>1 DEF Of, Switch
  <1>4. /\ Some(msgs', "odd") => Some(msgs, "odd")
        /\ Some(msgs', "Nfw") => Some(msgs, "Nfw")
        /\ Some(msgs', "EngineUp") <=> Some(msgs, "EngineUp")
        /\ Some(msgs', "Enable") <=> Some(msgs, "Enable")
    BY <1>1, <1>2, <1>3, SomeTail
  <1>5. /\ Some(pending', "odd") => Some(pending, "odd")
        /\ Some(pending', "other") => Some(pending, "other")
        /\ Some(pending', "lock") <=> Some(pending, "lock") \/ Of("lock", m)
    BY <1>1, <1>2, <1>3, SomeAppend
  <1>6. Queues'
    <2>1. /\ AnySeq(msgs')
          /\ Precedes(msgs, "EngineUp", "EngineUp") => Precedes(msgs', "EngineUp", "EngineUp")
      BY <1>1, <1>2, TailAt, PrecedesTail
    <2> QED BY <1>1, <1>2, <1>4, <1>5, <2>1 DEF Queues
  <1>7. Values' /\ Rough' = Rough
    BY <1>1 DEF ConfigInv, Values, Rough
  <1>8. ASSUME ~Rough, Calm PROVE Calm'
    <2>1. PICK kept : Asked(kept) /\ Sent(kept)
      BY <1>8 DEF Calm
    <2>2. InOrder'
      <3>1. InOrder
        BY <1>8 DEF Calm
      <3>2. Precedes(msgs', "Nfw", "lock") /\ (Of("lock", m) => ~Some(msgs', "Nfw"))
        BY <1>1, <1>2, <3>1, PrecedesTail DEF InOrder
      <3>3. Precedes(msgs', "UpdateConfig", "EngineUp")
        BY <1>1, <1>2, <3>1, PrecedesTail DEF InOrder
      <3>4. Some(msgs', "Nfw") => nfw' /\ ~Some(Held', "lock")
        <4>1. Some(msgs', "Nfw") => nfw /\ ~Some(pending, "lock")
          BY <1>2, <1>4, <3>1 DEF InOrder
        <4>2. nfw' = nfw
          BY <1>1
        <4> QED BY <1>2, <1>5, <3>2, <4>1, <4>2
      <3> QED BY <3>2, <3>3, <3>4 DEF InOrder
    <2>3. Single(Tag("wishList", m)) /\ Single(Tag("wishDeny", m))
      BY <1>1, Tags DEF Single
    <2>4. Chain(pending', msgs', "wishList", kept, wish.list)
      BY <1>1, <1>2, <2>1, <2>3, ChainHold DEF Asked
    <2>5. Chain(pending', msgs', "wishDeny", NiPart(gpsLock), Denied)
      BY <1>1, <1>2, <2>1, <2>3, ChainHold DEF Asked
    <2>6. Alternates(msgs', afw, Owner)
      BY <1>1, <1>2, <1>3, <2>1, AlternatesTail DEF Asked
    <2>7. Denied' = Denied /\ Owner' = Owner /\ Effective' = Effective
      BY <1>1 DEF Denied, Owner, Effective
    <2>8. enabled' => session' # 0
      BY <1>1, <2>1 DEF Asked
    <2>9. Asked(kept)'
      BY <1>1, <1>2, <2>4, <2>5, <2>6, <2>7, <2>8 DEF Asked
    <2>10. (NotYet <=> NotYet') /\ (Recovering <=> Recovering')
      BY <1>1, <1>4 DEF NotYet, Recovering
    <2>11. LockKept'
      BY <1>1, <1>8, <2>10 DEF Calm, LockKept
    <2>12. Sent(kept)'
      BY <1>1, <2>1, <2>7, <2>10, SentStays
    <2> QED BY <2>2, <2>9, <2>11, <2>12 DEF Calm
  <1> QED BY <1>6, <1>7, <1>8 DEF ConfigInv

-----------------------------------------------------------------------------
(* The other thread and the modem.                                         *)

\* A request done: what it sets is set, unless the modem is down.
LEMMA ServeStep ==
  ASSUME ConfigInv, apiq # << >>, Head(apiq).type # "Open", apiq' = Tail(apiq),
         \/ msgs' = msgs
         \/ \E m : Plain(m) /\ msgs' = Append(msgs, m),
         UNCHANGED <<plan, pending, capsKnown, modem, calls>>,
         UNCHANGED <<gpsLock, nfw, afw, enabled, session, wish>>,
         \/ Unlisted
         \/ Tag("keptList", Head(apiq)) = {} /\ blacklist' = blacklist
         \/ Tag("keptList", Head(apiq)) = {blacklist'},
         \/ Unlisted \/ modem = "down"
         \/ Tag("modemList", Head(apiq)) = {} /\ modemList' = modemList
         \/ Tag("modemList", Head(apiq)) = {modemList'},
         \/ modem = "down"
         \/ Tag("modemLock", Head(apiq)) = {} /\ modemLock' = modemLock
         \/ Tag("modemLock", Head(apiq)) = {modemLock'}
  PROVE  ConfigInv'
  <1>1. Queues' /\ AnySeq(msgs) /\ AnySeq(apiq) /\ Queues
    BY QueuesServe DEF ConfigInv, Queues
  <1>2. Values' /\ Rough' = Rough /\ Effective' = Effective
    BY DEF ConfigInv, Values, Rough, Effective
  <1>3. /\ InOrder => InOrder'
        /\ \A kept : Asked(kept) => Asked(kept)'
        /\ Some(msgs, "Enable") <=> Some(msgs', "Enable")
    <2>1. UNCHANGED frameVars /\ UNCHANGED pending
      BY DEF frameVars
    <2> QED BY <1>1, <2>1, PlainSteps
  <1>4. Recovering => Recovering'
    <2>1. ~Of("Open", Head(apiq))
      BY DEF Of
    <2>2. Some(apiq, "Open") => Some(apiq', "Open")
      BY <1>1, <2>1, SomeTail
    <2>3. Some(msgs, "EngineUp") => Some(msgs', "EngineUp")
      <3>1. CASE msgs' = msgs
        BY <3>1
      <3>2. ASSUME NEW m, msgs' = Append(msgs, m)
            PROVE  Some(msgs, "EngineUp") => Some(msgs', "EngineUp")
        BY <1>1, <3>2, SomeAppend
      <3> QED BY <3>1, <3>2
    <2> QED BY <2>2, <2>3 DEF Recovering
  <1>5. NotYet <=> NotYet'
    BY <1>3 DEF NotYet
  <1>6. LockKept => LockKept'
    BY <1>5 DEF LockKept
  <1>7. ASSUME NEW kept, Sent(kept) PROVE Sent(kept)'
    <2>1. ASSUME ~Unlisted PROVE Final(apiq', "keptList", blacklist', kept)
      <3>1. Final(apiq, "keptList", blacklist, kept)
        BY <1>7, <2>1 DEF Sent
      <3>2. PICK b : b = blacklist'
        OBVIOUS
      <3>3. Final(Tail(apiq), "keptList", b, kept)
        BY <1>1, <2>1, <3>1, <3>2, FinalTail
      <3> QED BY <3>2, <3>3
    <2>2. Unlisted \/ Recovering \/ Final(apiq', "modemList", modemList', kept)
      <3>1. PICK b : b = modemList'
        OBVIOUS
      <3>2. ASSUME ~Unlisted, ~Recovering PROVE Final(Tail(apiq), "modemList", b, kept)
        <4>1. Final(apiq, "modemList", modemList, kept) /\ modem # "down"
          BY <1>7, <3>2 DEF Sent, Recovering
        <4> QED BY <1>1, <3>1, <3>2, <4>1, FinalTail
      <3> QED BY <3>1, <3>2
    <2>3. Recovering \/ NotYet \/ Final(apiq', "modemLock", modemLock', Effective)
      <3>1. PICK b : b = modemLock'
        OBVIOUS
      <3>2. ASSUME ~Recovering, ~NotYet PROVE Final(Tail(apiq), "modemLock", b, Effective)
        <4>1. Final(apiq, "modemLock", modemLock, Effective) /\ modem # "down"
          BY <1>7, <3>2 DEF Sent, Recovering
        <4>2. PICK e : e = Effective
          OBVIOUS
        <4>3. Final(Tail(apiq), "modemLock", b, e)
          BY <1>1, <3>1, <4>1, <4>2, FinalTail
        <4> QED BY <4>2, <4>3
      <3> QED BY <3>1, <3>2
    <2> QED BY <1>2, <1>4, <1>5, <2>1, <2>2, <2>3 DEF Sent, Unlisted
  <1> QED BY <1>1, <1>2, <1>3, <1>6, <1>7 DEF ConfigInv, Calm

\* The three requests.
LEMMA RequestServed ==
  ASSUME ConfigInv, ServeSetLock \/ ServeSetBlacklist \/ GnssUpdateConfig
  PROVE  ConfigInv'
  <1> DEFINE r == Head(apiq)
  <1>1. AnySeq(msgs) /\ AnySeq(apiq)
    BY DEF ConfigInv, Queues
  <1>2. ASSUME NEW type, NEW answers, Serve(type, answers)
        PROVE  /\ apiq # << >> /\ r.type = type /\ apiq' = Tail(apiq)
               /\ answers = << >> => msgs' = msgs
               /\ \A m : answers = <<m>> => msgs' = Append(msgs, m)
               /\ UNCHANGED <<plan, pending, capsKnown, modem, calls>>
    BY <1>1, <1>2, ConcatShort DEF Serve
  <1>3. CASE ServeSetLock
    <2>1. /\ Serve("SetLock", << >>) /\ modemLock' = Accepts(modemLock, r.lock)
          /\ UNCHANGED <<gpsLock, nfw, afw, blacklist, enabled, session, modemList, wish>>
      BY <1>3 DEF ServeSetLock
    <2>2. Tag("keptList", r) = {} /\ Tag("modemList", r) = {} /\ Tag("modemLock", r) = {r.lock}
      BY <1>2, <2>1, RequestTags
    <2>3. modem = "down" \/ modemLock' = r.lock
      BY <2>1 DEF Accepts
    <2>4. /\ apiq # << >> /\ r.type = "SetLock" /\ apiq' = Tail(apiq) /\ msgs' = msgs
          /\ UNCHANGED <<plan, pending, capsKnown, modem, calls>>
      BY <1>2, <2>1
    <2> QED BY <2>1, <2>2, <2>3, <2>4, ServeStep
  <1>4. CASE ServeSetBlacklist
    <2>1. /\ Serve("SetBlacklist", << >>) /\ modemList' = Accepts(modemList, r.list)
          /\ UNCHANGED <<gpsLock, nfw, afw, blacklist, enabled, session, modemLock, wish>>
      BY <1>4 DEF ServeSetBlacklist
    <2>2. Tag("keptList", r) = {} /\ Tag("modemList", r) = {r.list} /\ Tag("modemLock", r) = {}
      BY <1>2, <2>1, RequestTags
    <2>3. modem = "down" \/ modemList' = r.list
      BY <2>1 DEF Accepts
    <2>4. /\ apiq # << >> /\ r.type = "SetBlacklist" /\ apiq' = Tail(apiq) /\ msgs' = msgs
          /\ UNCHANGED <<plan, pending, capsKnown, modem, calls>>
      BY <1>2, <2>1
    <2> QED BY <2>1, <2>2, <2>3, <2>4, ServeStep
  <1>5. CASE GnssUpdateConfig
    <2> DEFINE lists == IF plan.blacklists THEN r.lists ELSE {}
               list == IF lists = {} THEN blacklist ELSE CHOOSE l \in lists : TRUE
    <2>1. /\ Serve("Config", ConfigAnswer(r.id))
          /\ modemLock' = IF r.locks = {} THEN modemLock
                          ELSE Accepts(modemLock, CHOOSE l \in r.locks : TRUE)
          /\ blacklist' = list
          /\ modemList' = IF lists = {} THEN modemList ELSE Accepts(modemList, list)
          /\ UNCHANGED <<gpsLock, nfw, afw, enabled, session, wish>>
      BY <1>5 DEF GnssUpdateConfig
    <2>2. /\ apiq # << >> /\ r.type = "Config" /\ apiq' = Tail(apiq)
          /\ UNCHANGED <<plan, pending, capsKnown, modem, calls>>
      BY <1>2, <2>1
    <2>3. msgs' = msgs \/ \E m : Plain(m) /\ msgs' = Append(msgs, m)
      <3>1. CASE r.id = 0
        <4>1. ConfigAnswer(r.id) = << >>
          BY <3>1 DEF ConfigAnswer
        <4> QED BY <1>2, <2>1, <4>1
      <3>2. CASE r.id # 0
        <4>1. PICK m : m = [type |-> "ConfigAnswer", id |-> r.id]
          OBVIOUS
        <4>2. ConfigAnswer(r.id) = <<m>> /\ Plain(m)
          BY <3>2, <4>1 DEF ConfigAnswer, Plain
        <4> QED BY <1>2, <2>1, <4>2
      <3> QED BY <3>1, <3>2
    <2>4. Single(r.lists) /\ Single(r.locks)
      <3>1. ~Of("odd", r)
        BY <1>1, <2>2, SomeTail DEF ConfigInv, Queues
      <3> QED BY <2>2, <3>1 DEF Of, Fine
    <2>5. /\ Tag("keptList", r) = r.lists /\ Tag("modemList", r) = r.lists
          /\ Tag("modemLock", r) = r.locks
      BY <2>2, RequestTags
    <2>0. Unlisted \/ lists = r.lists
      BY DEF Unlisted
    <2>6. Unlisted \/ (r.lists = {} /\ list = blacklist) \/ r.lists = {list}
      BY <2>0, <2>4 DEF Single
    <2>7. \/ Unlisted
          \/ r.lists = {} /\ modemList' = modemList
          \/ r.lists # {} /\ (modem = "down" \/ modemList' = list)
      BY <2>0, <2>1 DEF Accepts
    <2>8. \/ modem = "down"
          \/ r.locks = {} /\ modemLock' = modemLock
          \/ r.locks = {modemLock'}
      <3>1. CASE r.locks = {}
        BY <2>1, <3>1
      <3>2. ASSUME NEW l, r.locks = {l} PROVE modem = "down" \/ modemLock' = l
        <4>1. (CHOOSE k \in r.locks : TRUE) = l
          BY <3>2
        <4> QED BY <2>1, <3>2, <4>1 DEF Accepts
      <3> QED BY <2>4, <3>1, <3>2 DEF Single
    <2> HIDE DEF list, lists
    <2>9. \/ Unlisted \/ modem = "down"
          \/ r.lists = {} /\ modemList' = modemList
          \/ r.lists = {modemList'}
      BY <2>6, <2>7
    <2>10. Unlisted \/ (r.lists = {} /\ blacklist' = blacklist) \/ r.lists = {blacklist'}
      BY <2>1, <2>6
    <2>11. r.type # "Open"
      BY <2>2
    <2> QED BY <2>1, <2>2, <2>3, <2>5, <2>8, <2>9, <2>10, <2>11, ServeStep
  <1> QED BY <1>3, <1>4, <1>5

\* The modem opened again: an engine-up event is to come.
LEMMA ModemOpened ==
  ASSUME ConfigInv, OpenModem, UNCHANGED configVars
  PROVE  ConfigInv'
  <1> DEFINE up == [type |-> "EngineUp"]
  <1>1. /\ apiq # << >> /\ Head(apiq).type = "Open" /\ apiq' = Tail(apiq)
        /\ msgs' = Append(msgs, up) /\ up.type = "EngineUp"
        /\ UNCHANGED <<plan, pending, capsKnown, calls>>
        /\ UNCHANGED <<gpsLock, nfw, afw, blacklist, enabled, session, modemLock, modemList, wish>>
    BY DEF OpenModem, configVars
  <1>2. Queues /\ AnySeq(msgs) /\ AnySeq(apiq) /\ AnySeq(msgs') /\ AnySeq(apiq')
    BY <1>1, AppendAt, TailAt DEF ConfigInv, Queues
  <1>3. Of("Open", Head(apiq)) /\ ~Of("odd", up) /\ Of("EngineUp", up)
    BY <1>1 DEF Of, Fine
  <1>4. /\ Some(apiq, "Open") /\ (Some(apiq', "odd") => Some(apiq, "odd"))
        /\ Some(apiq', "Open") => Some(apiq, "Open")
    BY <1>1, <1>2, <1>3, SomeTail
  <1> HIDE DEF up
  <1>5. (Some(msgs', "odd") => Some(msgs, "odd")) /\ Some(msgs', "EngineUp")
    BY <1>1, <1>2, <1>3, SomeAppend
  <1>6. Queues'
    <2>1. capsKnown => pending = << >>
      BY <1>2, <1>4 DEF Queues
    <2>2. ASSUME ~capsKnown
          PROVE  /\ Precedes(apiq', "Open", "Open") /\ ~Some(apiq', "Open")
                 /\ Precedes(msgs', "EngineUp", "EngineUp")
      <3>1. Precedes(apiq', "Open", "Open") /\ ~Some(apiq', "Open")
        BY <1>1, <1>2, <1>3, <2>2, PrecedesTail DEF Queues
      <3>2. ~Some(msgs, "EngineUp") /\ Precedes(msgs, "EngineUp", "EngineUp")
        BY <1>2, <1>4, <2>2 DEF Queues
      <3>3. Precedes(msgs', "EngineUp", "EngineUp")
        BY <1>1, <1>2, <3>2, PrecedesAppend
      <3> QED BY <3>1, <3>3
    <2> QED BY <1>1, <1>2, <1>4, <1>5, <2>1, <2>2 DEF Queues
  <1>7. Values' /\ Rough' = Rough /\ Recovering'
    BY <1>1, <1>5 DEF ConfigInv, Values, Rough, Recovering
  <1>8. /\ InOrder => InOrder'
        /\ \A kept : Asked(kept) => Asked(kept)'
        /\ Some(msgs, "Enable") <=> Some(msgs', "Enable")
    <2>1. UNCHANGED frameVars /\ UNCHANGED pending
      BY <1>1 DEF frameVars
    <2> QED BY <1>1, <1>2, <2>1, PlainSteps DEF up
  <1>9. LockKept => LockKept'
    <2>1. NotYet <=> NotYet'
      BY <1>1, <1>8 DEF NotYet
    <2> QED BY <1>1, <2>1 DEF LockKept
  <1>10. ASSUME NEW kept, Sent(kept) PROVE Sent(kept)'
    <2>1. Tag("keptList", Head(apiq)) = {}
      BY <1>1, RequestTags
    <2>2. Unlisted \/ Final(apiq', "keptList", blacklist, kept)
      BY <1>1, <1>2, <1>10, <2>1, FinalTail DEF Sent
    <2> QED BY <1>1, <1>7, <2>2 DEF Sent, Unlisted
  <1> QED BY <1>6, <1>7, <1>8, <1>9, <1>10 DEF ConfigInv, Calm

\* The modem down: it will be opened again.
LEMMA ModemLost ==
  ASSUME ConfigInv, ModemRestarts
  PROVE  ConfigInv'
  <1> DEFINE open1 == [type |-> "Open"]
  <1>1. /\ capsKnown /\ pending = << >> /\ modem' = "down"
        /\ apiq' = Append(apiq, open1) /\ open1.type = "Open"
        /\ UNCHANGED <<plan, msgs, pending, capsKnown, calls>>
        /\ UNCHANGED <<gpsLock, nfw, afw, blacklist, enabled, session, modemLock, wish>>
    BY DEF ModemRestarts, ModemDown, LoseConfig
  <1> HIDE DEF open1
  <1>2. Queues /\ AnySeq(apiq) /\ AnySeq(apiq')
    BY <1>1, AppendAt DEF ConfigInv, Queues
  <1>3. ~Of("odd", open1)
    BY <1>1 DEF Of, Fine
  <1>4. Some(apiq', "odd") => Some(apiq, "odd")
    BY <1>1, <1>2, <1>3, SomeAppend
  <1>5. Queues'
    BY <1>1, <1>2, <1>4 DEF Queues
  <1>6. Values' /\ Rough' = Rough /\ Recovering'
    BY <1>1 DEF ConfigInv, Values, Rough, Recovering
  <1>7. /\ InOrder => InOrder'
        /\ \A kept : Asked(kept) => Asked(kept)'
        /\ Some(msgs, "Enable") <=> Some(msgs', "Enable")
    <2>1. UNCHANGED frameVars /\ UNCHANGED pending
      BY <1>1 DEF frameVars
    <2> QED BY <1>1, <1>2, <2>1, PlainSteps
  <1>8. LockKept => LockKept'
    <2>1. NotYet <=> NotYet'
      BY <1>1, <1>7 DEF NotYet
    <2> QED BY <1>1, <2>1 DEF LockKept
  <1>9. ASSUME NEW kept, Sent(kept) PROVE Sent(kept)'
    <2>1. Tag("keptList", open1) = {}
      BY <1>1, RequestTags
    <2>2. Unlisted \/ Final(apiq', "keptList", blacklist, kept)
      BY <1>1, <1>2, <1>9, <2>1, FinalAppend DEF Sent
    <2> QED BY <1>1, <1>6, <2>2 DEF Sent, Unlisted
  <1> QED BY <1>5, <1>6, <1>7, <1>8, <1>9 DEF ConfigInv, Calm

\* An engine-up event: the modem is sent all again, and what was held comes
\* behind what there is.
LEMMA EngineUpHandled ==
  ASSUME ConfigInv, HandleEngineUpEvent
  PROVE  ConfigInv'
  <1> DEFINE c == [type |-> "Config", locks |-> {Effective}, lists |-> {blacklist}, id |-> 0]
             b == [type |-> "SetBlacklist", list |-> blacklist]
  <1>1. /\ msgs # << >> /\ Head(msgs).type = "EngineUp" /\ capsKnown'
        /\ msgs' = Tail(msgs) \o pending /\ apiq' = apiq \o SetConfig
        /\ UNCHANGED <<plan, pending, modem, calls>>
        /\ UNCHANGED <<gpsLock, nfw, afw, blacklist, enabled, session, modemLock, modemList, wish>>
        /\ Rough \/ ~Under("Config")
    BY DEF HandleEngineUpEvent, HandleEngineUp, configVars
  <1>2. /\ SetConfig = <<c>> \o <<b>> /\ b.type = "SetBlacklist" /\ b.list = blacklist
        /\ c.type = "Config" /\ c.lists = {blacklist} /\ c.locks = {Effective}
    BY DEF SetConfig, Config, Effective
  <1> HIDE DEF c, b
  <1>3. Queues /\ AnySeq(msgs) /\ AnySeq(pending) /\ AnySeq(apiq)
    BY DEF ConfigInv, Queues
  <1>4. apiq' = Append(Append(apiq, c), b)
    <2>1. apiq' = apiq \o (<<c>> \o <<b>>)
      BY <1>1, <1>2
    <2>2. \A m, k : apiq \o (<<m>> \o <<k>>) = Append(Append(apiq, m), k)
      BY <1>3, ConcatShort
    <2>3. apiq \o (<<c>> \o <<b>>) = Append(Append(apiq, c), b)
      BY <2>2, Zenon
    <2> QED BY <2>1, <2>3
  <1> DEFINE rest == Tail(msgs)
             more == Append(apiq, c)
  <1>5. AnySeq(rest) /\ AnySeq(more) /\ AnySeq(msgs') /\ AnySeq(apiq')
    <2>1. AnySeq(rest) /\ AnySeq(more)
      BY <1>1, <1>3, TailAt, AppendAt
    <2> HIDE DEF rest, more
    <2>2. msgs' = rest \o pending /\ apiq' = Append(more, b)
      BY <1>1, <1>4 DEF rest, more
    <2> QED BY <1>3, <2>1, <2>2, ConcatAt, AppendAt
  <1>6. /\ Of("EngineUp", Head(msgs)) /\ ~Of("odd", c) /\ ~Of("odd", b)
        /\ ~Of("Open", c) /\ ~Of("Open", b)
    <2>1. Fine(c) /\ Fine(b)
      BY <1>2 DEF Fine, Single
    <2> QED BY <1>1, <1>2, <2>1 DEF Of
  <1>7. Some(msgs, "EngineUp") /\ \A t : Some(rest, t) => Some(msgs, t)
    BY <1>1, <1>3, <1>6, SomeTail
  <1>8. \A t : ~Of(t, c) /\ ~Of(t, b) => (Some(apiq', t) <=> Some(apiq, t))
    <2>1. ASSUME NEW t PROVE Some(apiq', t) <=> Some(apiq, t) \/ Of(t, c) \/ Of(t, b)
      <3>1. Some(apiq', t) <=> Some(more, t) \/ Of(t, b)
        BY <1>4, <1>5, SomeAppend
      <3>2. Some(more, t) <=> Some(apiq, t) \/ Of(t, c)
        BY <1>3, SomeAppend
      <3> QED BY <3>1, <3>2
    <2> QED BY <2>1
  <1>9. /\ ~Some(pending, "EngineUp") /\ ~Some(pending, "Nfw") /\ ~Some(pending, "Enable")
        /\ Held = pending /\ Held' = << >>
        /\ pending # << >> => ~Some(apiq, "Open") /\ ~Some(rest, "EngineUp") /\ ~capsKnown
    <2>1. ~Some(pending, "EngineUp") /\ ~Some(pending, "Nfw") /\ ~Some(pending, "Enable")
      <3>1. \A i \in 1..Len(pending) : pending[i].type = "UpdateConfig"
        BY <1>3 DEF Queues, Some, Of
      <3> QED BY <3>1 DEF Some, Of
    <2>2. capsKnown => pending = << >>
      BY <1>3, <1>7 DEF Queues
    <2>3. ~capsKnown => ~Some(apiq, "Open") /\ ~Some(rest, "EngineUp")
      <3>1. ~capsKnown => Precedes(msgs, "EngineUp", "EngineUp") /\ ~Some(apiq, "Open")
        BY <1>3, <1>7 DEF Queues
      <3> QED BY <1>1, <1>3, <1>6, <3>1, PrecedesTail
    <2> QED BY <1>1, <2>1, <2>2, <2>3 DEF Held
  <1>10. \A t : Some(msgs', t) <=> Some(rest, t) \/ Some(pending, t)
    BY <1>1, <1>3, <1>5, SomeConcat
  <1>11. Queues'
    <2>1. ~Some(msgs', "odd")
      BY <1>3, <1>7, <1>10 DEF Queues
    <2>2. ~Some(apiq', "odd")
      BY <1>3, <1>6, <1>8 DEF Queues
    <2>3. pending' # << >> => ~Some(apiq', "Open") /\ ~Some(msgs', "EngineUp")
      BY <1>1, <1>6, <1>8, <1>9, <1>10
    <2> QED BY <1>1, <1>3, <1>5, <2>1, <2>2, <2>3 DEF Queues
  <1>12. Values' /\ Rough' = Rough
    BY <1>1 DEF ConfigInv, Values, Rough
  <1>13. ASSUME ~Rough, Calm PROVE Calm'
    <2>1. PICK kept : Asked(kept) /\ Sent(kept)
      BY <1>13 DEF Calm
    <2>2. InOrder /\ LockKept
      BY <1>13 DEF Calm
    <2>3. /\ Tag("wishList", Head(msgs)) = {} /\ Tag("wishDeny", Head(msgs)) = {}
          /\ ~Switch(Head(msgs)) /\ ~Of("Enable", Head(msgs))
      <3>1. Tag("wishList", Head(msgs)) = {} /\ Tag("wishDeny", Head(msgs)) = {}
        BY <1>1, Tags
      <3> QED BY <1>1, <3>1 DEF Switch, Of
    <2>4. InOrder'
      <3>1. Precedes(rest, "Nfw", "lock")
        BY <1>1, <1>3, <2>2, PrecedesTail DEF InOrder
      <3>2. Precedes(pending, "Nfw", "lock")
        BY <1>9 DEF Precedes, Some
      <3>3. Precedes(msgs', "Nfw", "lock")
        <4> HIDE DEF rest
        <4> QED BY <1>1, <1>3, <1>5, <1>9, <3>1, <3>2, PrecedesConcat DEF rest
      <3>4. ~Some(Held', "lock")
        BY <1>9, SomeNone
      <3>5. Some(msgs', "Nfw") => nfw'
        <4>1. Some(msgs', "Nfw") => nfw
          BY <1>7, <1>9, <1>10, <2>2 DEF InOrder
        <4> QED BY <1>1, <4>1
      <3> QED BY <1>1, <3>3, <3>4, <3>5 DEF InOrder
    <2>5. Silent(pending, "wishList") \/ Silent(rest, "wishList")
      <3>1. CASE pending = << >>
        BY <3>1, SomeNone, SilentKinds
      <3>2. CASE pending # << >>
        <4>1. Precedes(msgs, "UpdateConfig", "EngineUp")
          BY <1>9, <2>2, <3>2 DEF InOrder
        <4>2. ~Some(rest, "UpdateConfig")
          BY <1>1, <1>3, <1>6, <4>1, PrecedesTail
        <4> QED BY <4>2, SilentKinds
      <3> QED BY <3>1, <3>2
    <2>6. Silent(pending, "wishDeny") \/ Silent(rest, "wishDeny")
      <3>1. CASE pending = << >>
        BY <3>1, SomeNone, SilentKinds
      <3>2. CASE pending # << >> /\ Some(rest, "Nfw")
        <4>1. ~Some(pending, "lock")
          BY <1>7, <1>9, <2>2, <3>2 DEF InOrder
        <4> QED BY <1>9, <4>1, SilentKinds
      <3>3. CASE pending # << >> /\ ~Some(rest, "Nfw")
        <4>1. Precedes(msgs, "UpdateConfig", "EngineUp")
          BY <1>9, <2>2, <3>3 DEF InOrder
        <4>2. ~Some(rest, "UpdateConfig")
          BY <1>1, <1>3, <1>6, <4>1, PrecedesTail
        <4>3. ~Some(rest, "lock")
          BY <4>2 DEF Some, Of
        <4> QED BY <3>3, <4>3, SilentKinds
      <3> QED BY <3>1, <3>2, <3>3
    <2>7. Chain(<< >>, msgs', "wishList", kept, wish.list)
      <3>1. Chain(pending, rest, "wishList", kept, wish.list)
        BY <1>1, <1>3, <1>9, <2>1, <2>3, ChainTail DEF Asked
      <3> HIDE DEF rest
      <3>2. Chain(<< >>, rest \o pending, "wishList", kept, wish.list)
        BY <1>3, <1>5, <2>5, <3>1, ChainBack
      <3> QED BY <1>1, <3>2 DEF rest
    <2>8. Chain(<< >>, msgs', "wishDeny", NiPart(gpsLock), Denied)
      <3>1. Chain(pending, rest, "wishDeny", NiPart(gpsLock), Denied)
        BY <1>1, <1>3, <1>9, <2>1, <2>3, ChainTail DEF Asked
      <3> HIDE DEF rest
      <3>2. Chain(<< >>, rest \o pending, "wishDeny", NiPart(gpsLock), Denied)
        BY <1>3, <1>5, <2>6, <3>1, ChainBack
      <3> QED BY <1>1, <3>2 DEF rest
    <2>9. Alternates(msgs', afw, Owner)
      <3>1. Alternates(rest, afw, Owner)
        BY <1>1, <1>3, <2>1, <2>3, AlternatesTail DEF Asked
      <3>2. ~Some(pending, "other")
        BY <1>3 DEF Queues
      <3> HIDE DEF rest
      <3>3. Alternates(rest \o pending, afw, Owner)
        BY <1>3, <1>5, <3>1, <3>2, AlternatesConcat
      <3> QED BY <1>1, <3>3 DEF rest
    <2>10. Denied' = Denied /\ Owner' = Owner /\ Effective' = Effective
      BY <1>1 DEF Denied, Owner, Effective
    <2>11. enabled' => session' # 0
      BY <1>1, <2>1 DEF Asked
    <2>12. Asked(kept)'
      BY <1>1, <1>9, <2>7, <2>8, <2>9, <2>10, <2>11 DEF Asked
    <2>13. LockKept'
      <3>1. Some(msgs, "Enable") => Some(msgs', "Enable")
        BY <1>1, <1>3, <1>10, <2>3, SomeTail
      <3>2. NotYet => NotYet'
        BY <1>1, <3>1 DEF NotYet
      <3> QED BY <1>1, <2>2, <3>2 DEF LockKept
    <2>14. Unlisted \/ kept = blacklist
      <3>1. ~Some(apiq, "Config")
        BY <1>1, <1>13 DEF Under, Some, Of
      <3>2. SilentTo(apiq, Len(apiq), "keptList") /\ Len(apiq) \in Nat
        BY <1>3, <3>1, SilentKinds, LenProperties DEF Silent, AnySeq
      <3> QED BY <2>1, <3>2, FinalSilent DEF Sent, Final
    <2>15. /\ Tag("keptList", c) = {blacklist} /\ Tag("modemList", c) = {blacklist}
           /\ Tag("modemLock", c) = {Effective}
           /\ Tag("keptList", b) = {} /\ Tag("modemList", b) = {blacklist}
           /\ Tag("modemLock", b) = {}
      BY <1>2, RequestTags
    <2>16. Unlisted \/ Final(more, "keptList", blacklist, kept)
      BY <1>3, <2>14, <2>15, FinalNew
    <2>17. Final(more, "modemLock", modemLock, Effective)
      <3>1. PICK e : e = Effective
        OBVIOUS
      <3>2. Final(more, "modemLock", modemLock, e)
        BY <1>3, <2>15, <3>1, FinalNew
      <3> QED BY <3>1, <3>2
    <2>18. Sent(kept)'
      <3> HIDE DEF more
      <3>1. apiq' = Append(more, b)
        BY <1>4 DEF more
      <3>2. Unlisted \/ Final(apiq', "keptList", blacklist, kept)
        BY <1>5, <2>15, <2>16, <3>1, FinalAppend
      <3>3. Unlisted \/ Final(apiq', "modemList", modemList, kept)
        BY <1>5, <2>14, <2>15, <3>1, FinalNew
      <3>4. Final(apiq', "modemLock", modemLock, Effective)
        BY <1>5, <2>15, <2>17, <3>1, FinalAppend
      <3> QED BY <1>1, <2>10, <3>2, <3>3, <3>4 DEF Sent, Unlisted
    <2> QED BY <2>4, <2>12, <2>13, <2>18 DEF Calm
  <1> QED BY <1>11, <1>12, <1>13 DEF ConfigInv

-----------------------------------------------------------------------------
(* All steps, and the theorems.                                            *)

\* A message of another theme posted, or handled.
LEMMA AsidePost ==
  ASSUME ConfigInv, UNCHANGED configVars, NEW m, Plain(m),
         (\E theme \in Themes : Call(theme, m)) \/ Post(<<m>>)
  PROVE  ConfigInv'
  <1>1. AnySeq(msgs) /\ calls \in [Themes -> Nat]
    BY DEF ConfigInv, Queues, Values
  <1>2. UNCHANGED <<plan, apiq, pending, capsKnown, modem>>
    BY DEF Call, Post
  <1>3. msgs' = Append(msgs, m)
    <2>1. \A k : msgs \o <<k>> = Append(msgs, k)
      BY <1>1, ConcatShort
    <2>2. msgs \o <<m>> = Append(msgs, m)
      BY <2>1, Zenon
    <2> QED BY <2>2 DEF Call, Post
  <1>4. calls' \in [Themes -> Nat]
    <2>1. CASE Post(<<m>>)
      BY <1>1, <2>1 DEF Post
    <2>2. CASE \E theme \in Themes : Call(theme, m)
      BY <2>2, CallNumbers DEF ConfigInv
    <2> QED BY <2>1, <2>2
  <1> QED BY <1>2, <1>3, <1>4, AsideStep DEF configVars, keptVars

\* Nothing sent, nothing set.
LEMMA AsideHandle ==
  ASSUME ConfigInv, UNCHANGED <<gpsLock, nfw, afw, blacklist, modemLock, modemList>>,
         UNCHANGED <<enabled, session, wish>>, NEW type, Handle(type, << >>),
         type \notin {"Enable", "Disable", "Nfw", "UpdateConfig", "Config", "EngineUp"}
  PROVE  ConfigInv'
  <1>1. /\ msgs # << >> /\ Head(msgs).type = type /\ msgs' = Tail(msgs) /\ apiq' = apiq
        /\ UNCHANGED <<plan, pending, capsKnown, modem, calls>>
    BY HandleSends DEF ConfigInv
  <1>2. Plain(Head(msgs))
    BY <1>1 DEF Plain
  <1>3. calls' \in [Themes -> Nat]
    BY <1>1 DEF ConfigInv, Values
  <1> QED BY <1>1, <1>2, <1>3, AsideStep DEF keptVars

\* A step that touches no queue.
LEMMA AsideIdle ==
  ASSUME ConfigInv, UNCHANGED configVars, UNCHANGED adapterVars
  PROVE  ConfigInv'
  <1>1. calls' \in [Themes -> Nat]
    BY DEF ConfigInv, Values, adapterVars
  <1> QED BY <1>1, AsideStep DEF configVars, adapterVars, keptVars

\* The network's requests and positions on demand.
LEMMA OtherThemes ==
  ASSUME ConfigInv,
         \/ NiComes \/ OdcpiComes \/ HandleNiMessage \/ HandleOdcpiMessage \/ TimerThread
         \/ WriteResponse /\ UNCHANGED configVars
         \/ \E t \in threads : NiThread(t)
  PROVE  ConfigInv'
  <1>1. "ni" \in Themes /\ "odcpi" \in Themes
    BY DEF Themes
  <1>2. CASE NiComes
    <2>1. UNCHANGED configVars
      BY <1>2 DEF NiComes
    <2>2. \/ \E on : Call("ni", [type |-> "NiCb", on |-> on])
          \/ Call("ni", [type |-> "NiNotify", request |-> Number("ni")])
          \/ \E id, answer : Post(<<[type |-> "NiResponse", id |-> id, answer |-> answer]>>)
      BY <1>2 DEF NiComes, SetNiCb, RequestNiNotifyEvent, GnssNiResponse
    <2>3. \E m : Plain(m) /\ ((\E theme \in Themes : Call(theme, m)) \/ Post(<<m>>))
      BY <1>1, <2>2 DEF Plain
    <2> QED BY <2>1, <2>3, AsidePost
  <1>3. CASE OdcpiComes
    <2>1. UNCHANGED configVars
      BY <1>3 DEF OdcpiComes
    <2>2. \/ \E priority : Call("odcpi", [type |-> "InitOdcpi", priority |-> priority])
          \/ \E request, emergency :
                Call("odcpi", [type |-> "Odcpi", request |-> request, emergency |-> emergency])
      BY <1>3 DEF OdcpiComes, InitOdcpiCommand, RequestOdcpiEvent
    <2>3. \E m : Plain(m) /\ ((\E theme \in Themes : Call(theme, m)) \/ Post(<<m>>))
      BY <1>1, <2>2 DEF Plain
    <2> QED BY <2>1, <2>3, AsidePost
  <1>4. CASE HandleNiMessage \/ HandleOdcpiMessage
    <2>1. UNCHANGED configVars
      BY <1>4 DEF HandleNiMessage, HandleOdcpiMessage
    <2>2. \E type \in {"NiCb", "NiNotify", "NiResponse", "NiAnswer",
                       "InitOdcpi", "Odcpi", "OdcpiTimerExpire"} : Handle(type, << >>)
      BY <1>4 DEF HandleNiMessage, HandleNiCb, HandleNiNotify, HandleNiResponse, HandleNiAnswer,
                  HandleOdcpiMessage, HandleInitOdcpi, RequestOdcpi, OdcpiTimerExpire
    <2> QED BY <2>1, <2>2, AsideHandle DEF configVars
  <1>5. CASE TimerThread
    <2>1. UNCHANGED configVars
      BY <1>5 DEF TimerThread
    <2>2. CASE OdcpiTimerExpires
      BY <2>1, <2>2, AsideIdle DEF OdcpiTimerExpires
    <2>3. CASE TimeOutCallback
      <3>1. \E m : Plain(m) /\ Post(<<m>>)
        BY <2>3 DEF TimeOutCallback, Plain
      <3> QED BY <2>1, <3>1, AsidePost
    <2> QED BY <1>5, <2>2, <2>3 DEF TimerThread
  <1>6. CASE WriteResponse /\ UNCHANGED configVars
    BY <1>6, AsideIdle DEF WriteResponse
  <1>7. ASSUME NEW t \in threads, NiThread(t) PROVE ConfigInv'
    <2>1. UNCHANGED configVars
      BY <1>7 DEF NiThread
    <2>2. CASE NiThreadWakes(t, TRUE) \/ NiThreadWakes(t, FALSE)
      <3>1. UNCHANGED adapterVars
        BY <2>2 DEF NiThreadWakes
      <3> QED BY <2>1, <3>1, AsideIdle
    <2>3. CASE NiThreadEnds(t)
      <3>1. CASE t.request = 0
        <4>1. Post(<< >>)
          BY <2>3, <3>1 DEF NiThreadEnds
        <4>2. msgs' = msgs
          BY <4>1, ConcatShort DEF Post, ConfigInv, Queues
        <4>3. UNCHANGED adapterVars
          BY <4>1, <4>2 DEF Post, adapterVars
        <4> QED BY <2>1, <4>3, AsideIdle
      <3>2. CASE t.request # 0
        <4>1. PICK m : m = [type |-> "NiAnswer", request |-> t.request, answer |-> t.answer]
          OBVIOUS
        <4>2. Post(<<m>>) /\ Plain(m)
          BY <2>3, <3>2, <4>1 DEF NiThreadEnds, Plain
        <4> QED BY <2>1, <4>2, AsidePost
      <3> QED BY <3>1, <3>2
    <2> QED BY <1>7, <2>2, <2>3 DEF NiThread
  <1> QED BY <1>2, <1>3, <1>4, <1>5, <1>6, <1>7

\* The invariant of the configuration, in every step.
LEMMA ConfigStep ==
  ASSUME ConfigInv, [Next]_vars
  PROVE  ConfigInv'
  <1>1. CASE FrameworkConfigures
    BY <1>1, EnableCall, DisableCall, NfwCall, UpdateCall DEF FrameworkConfigures
  <1>2. CASE HandleConfigMessage
    <2>1. CASE HandleConfigAnswer
      BY <2>1, AsideHandle DEF HandleConfigAnswer
    <2> QED
      BY <1>2, <2>1, EnableHandled, DisableHandled, NfwHandled, ConfigHeld, LockConfigHandled,
         ListConfigHandled
      DEF HandleConfigMessage
  <1>3. CASE LocApiThread
    BY <1>3, RequestServed, ModemOpened DEF LocApiThread
  <1>4. CASE ModemRestarts
    BY <1>4, ModemLost
  <1>5. CASE HandleEngineUpEvent
    BY <1>5, EngineUpHandled
  <1>6. CASE \/ NiComes \/ OdcpiComes \/ HandleNiMessage \/ HandleOdcpiMessage \/ TimerThread
             \/ WriteResponse /\ UNCHANGED configVars
             \/ \E t \in threads : NiThread(t)
    BY <1>6, OtherThemes
  <1>7. CASE UNCHANGED vars
    <2>1. UNCHANGED configVars /\ UNCHANGED adapterVars
      BY <1>7 DEF vars
    <2> QED BY <2>1, AsideIdle
  <1> QED
    BY <1>1, <1>2, <1>3, <1>4, <1>5, <1>6, <1>7 DEF Next, AdapterThread

\* It holds at the start: the modem's lock may be another, until location is
\* enabled or the first engine-up event comes.
LEMMA ConfigStart ==
  ASSUME Init
  PROVE  ConfigInv
  <1>1. /\ plan \in Plans /\ msgs = << >> /\ pending = << >>
        /\ apiq = (IF plan.booted THEN << >> ELSE <<[type |-> "Open"]>>)
        /\ capsKnown = plan.booted /\ modem = (IF plan.booted THEN "up" ELSE "down")
        /\ calls = [t \in Themes |-> 0]
        /\ gpsLock = plan.lock /\ nfw /\ afw = 0 /\ blacklist = NoList /\ ~enabled /\ session = 0
        /\ modemList = NoList /\ wish = [deny |-> "NI" \in gpsLock, list |-> NoList]
    BY DEF Init, InitAdapter, InitConfig
  <1>2. plan.lock \subseteq {"MO", "NI"} /\ plan.booted \in BOOLEAN
    BY <1>1, LocAdapterAssumption
  <1>3. AnySeq(msgs) /\ AnySeq(pending) /\ AnySeq(apiq)
    BY <1>1, ShortSeq
  <1>4. /\ ~Some(msgs, "odd") /\ ~Some(pending, "odd") /\ ~Some(pending, "other")
        /\ ~Some(msgs, "EngineUp") /\ ~Some(msgs, "Nfw")
        /\ Precedes(msgs, "EngineUp", "EngineUp") /\ Precedes(msgs, "Nfw", "lock")
        /\ Precedes(msgs, "UpdateConfig", "EngineUp")
    BY <1>1, SomeNone
  <1>5. ~Some(apiq, "odd") /\ Precedes(apiq, "Open", "Open") /\ Silent(apiq, "keptList")
    <2>1. CASE plan.booted
      BY <1>1, <2>1, SomeNone, SilentKinds
    <2>2. CASE ~plan.booted
      <3>1. PICK r : r = [type |-> "Open"]
        OBVIOUS
      <3>2. apiq = <<r>> /\ r.type = "Open"
        BY <1>1, <2>2, <3>1
      <3>3. Len(apiq) = 1 /\ apiq[1] = r
        BY <3>2
      <3>4. \A i \in 1..Len(apiq) : i = 1 /\ apiq[i].type = "Open"
        BY <3>2, <3>3
      <3>5. ~Some(apiq, "odd") /\ ~Some(apiq, "Config")
        BY <3>4 DEF Some, Of, Fine
      <3>6. Precedes(apiq, "Open", "Open")
        BY <3>4 DEF Precedes
      <3> QED BY <3>5, <3>6, SilentKinds
    <2> QED BY <2>1, <2>2
  <1>6. Queues
    BY <1>1, <1>3, <1>4, <1>5 DEF Queues
  <1>7. Values
    <2>1. \E d \in BOOLEAN : \E l : wish = [deny |-> d, list |-> l]
      <3>1. ("NI" \in gpsLock) \in BOOLEAN
        OBVIOUS
      <3> QED BY <1>1, <3>1
    <2> QED BY <1>1, <1>2, <2>1 DEF Values
  <1>8. InOrder /\ LockKept /\ NotYet
    BY <1>1, <1>4 DEF InOrder, LockKept, NotYet
  <1>9. Held = << >> /\ Denied = NiPart(gpsLock) /\ Owner = 0
    <2>1. wish.deny = ("NI" \in gpsLock)
      BY <1>1
    <2> QED BY <1>1, <2>1 DEF Held, Denied, NiPart, Owner
  <1>10. wish.list = NoList
    BY <1>1
  <1>11. Alternates(msgs, afw, Owner)
    BY <1>1, <1>9, FinalNone DEF Alternates
  <1>12. Asked(NoList)
    BY <1>1, <1>9, <1>10, <1>11, FinalNone DEF Asked, Chain
  <1>13. Final(apiq, "keptList", blacklist, NoList)
    <2>1. Len(apiq) \in Nat
      BY <1>3, LenProperties DEF AnySeq
    <2> QED BY <1>1, <1>5, <2>1, FinalSilent DEF Final, Silent
  <1>14. Recovering \/ Final(apiq, "modemList", modemList, NoList)
    <2>1. CASE plan.booted
      BY <1>1, <2>1, FinalNone
    <2>2. CASE ~plan.booted
      BY <1>1, <2>2 DEF Recovering
    <2> QED BY <2>1, <2>2
  <1> QED BY <1>6, <1>7, <1>8, <1>12, <1>13, <1>14 DEF ConfigInv, Calm, Sent

\* Nothing under way: no value is to be set any more.
LEMMA NothingUnderWay ==
  ASSUME ConfigInv, ~Rough, Quiet
  PROVE  LockKept /\ ~Recovering /\ \E kept :
            /\ wish.list = kept /\ (Unlisted \/ modemList = kept)
            /\ NiPart(gpsLock) = Denied /\ afw = Owner
            /\ enabled => session # 0
            /\ NotYet \/ modemLock = Effective
  <1>1. /\ msgs = << >> /\ apiq = << >> /\ modem = "up" /\ Held = << >>
    BY DEF Quiet, Held
  <1>2. LockKept
    BY DEF ConfigInv, Calm
  <1>3. PICK kept : Asked(kept) /\ Sent(kept)
    BY DEF ConfigInv, Calm
  <1>4. ~Recovering
    BY <1>1, SomeNone DEF Recovering
  <1>5. wish.list = kept /\ NiPart(gpsLock) = Denied
    BY <1>1, <1>3, FinalNone DEF Asked, Chain
  <1>6. afw = Owner
    BY <1>1, <1>3, FinalNone DEF Asked, Alternates
  <1>7. (Unlisted \/ modemList = kept) /\ (NotYet \/ modemLock = Effective)
    BY <1>1, <1>3, <1>4, FinalNone DEF Sent
  <1> QED BY <1>2, <1>3, <1>4, <1>5, <1>6, <1>7 DEF Asked

\* What a modem that takes lists has when nothing is under way is the one the
\* framework asked for last: for any plans, locks and lists, over restarts, with configurations
\* held until the first engine-up event, and whatever the other themes post.
THEOREM ListFollows == Spec => []ListFollowsFramework
  <1>1. Init => ConfigInv
    BY ConfigStart
  <1>2. ConfigInv /\ [Next]_vars => ConfigInv'
    BY ConfigStep
  <1>3. ConfigInv => ListFollowsFramework
    BY NothingUnderWay DEF ListFollowsFramework, Unlisted
  <1> QED BY <1>1, <1>2, <1>3, PTL DEF Spec

\* And the lock of the behaviour it asked for, once location was enabled.
THEOREM LockFollows == Spec => []LockFollowsFramework
  <1>1. Init => ConfigInv
    BY ConfigStart
  <1>2. ConfigInv /\ [Next]_vars => ConfigInv'
    BY ConfigStep
  <1>3. ConfigInv => LockFollowsFramework
    <2> SUFFICES ASSUME ConfigInv, ~Rough, Quiet, session > 0
                 PROVE  modemLock = WantedLock
      BY DEF LockFollowsFramework
    <2>1. /\ LockKept /\ NiPart(gpsLock) = Denied /\ afw = Owner
          /\ enabled => session # 0
          /\ NotYet \/ modemLock = Effective
      BY NothingUnderWay
    <2>2. session \in Nat /\ session # 0 /\ gpsLock \subseteq {"MO", "NI"}
      BY DEF ConfigInv, Values
    <2>3. ~Some(msgs, "Enable")
      BY SomeNone DEF Quiet
    <2>4. ~NotYet
      BY <2>2, <2>3 DEF NotYet
    <2>5. modemLock = IF nfw \/ afw = 0 THEN gpsLock ELSE {}
      BY <2>1, <2>4 DEF Effective
    <2>6. CASE enabled
      <3>1. afw = session
        BY <2>1, <2>6 DEF Owner
      <3>2. nfw => "MO" \notin gpsLock
        BY <2>1, <2>2, <3>1 DEF LockKept
      <3>3. nfw => gpsLock = Denied
        BY <2>1, <2>2, <3>2 DEF NiPart
      <3> QED BY <2>2, <2>5, <2>6, <3>1, <3>3 DEF WantedLock, Denied
    <2>7. CASE ~enabled
      <3>1. afw = 0
        BY <2>1, <2>7 DEF Owner
      <3>2. "MO" \in gpsLock
        BY <2>1, <2>4, <3>1 DEF LockKept
      <3>3. gpsLock = {"MO"} \cup Denied
        BY <2>1, <2>2, <3>2 DEF NiPart
      <3> QED BY <2>5, <2>7, <3>1, <3>3 DEF WantedLock, Denied
    <2> QED BY <2>6, <2>7
  <1> QED BY <1>1, <1>2, <1>3, PTL DEF Spec

-----------------------------------------------------------------------------
(* Network-initiated requests: the messages of a queue.                    *)

\* What is in the queue.
In(q) == {q[i] : i \in 1..Len(q)}

\* A message of a request of the network.
IsNi(m) == m.type \in {"NiNotify", "NiAnswer", "NiResponse"}

\* A message that takes request r on: to the adapter, or its answer to the modem.
About(m, r) == m.type \in {"NiNotify", "NiAnswer"} /\ m.request = r

\* One in the queue is about r, and at most one.
Talks(q, r) == \E i \in 1..Len(q) : About(q[i], r)

Once(q, r) == \A i, j \in 1..Len(q) : About(q[i], r) /\ About(q[j], r) => i = j

\* One message more.
LEMMA TalksAppend ==
  ASSUME NEW q, NEW m, NEW r, AnySeq(q)
  PROVE  /\ Talks(Append(q, m), r) <=> Talks(q, r) \/ About(m, r)
         /\ Once(q, r) /\ ~(Talks(q, r) /\ About(m, r)) => Once(Append(q, m), r)
         /\ In(Append(q, m)) = In(q) \cup {m}
  <1>1. /\ Len(q) \in Nat /\ Len(Append(q, m)) = Len(q) + 1
        /\ \A i \in 1..Len(q) : Append(q, m)[i] = q[i]
        /\ Append(q, m)[Len(q) + 1] = m
    BY AppendAt
  <1>2. \A i \in 1..Len(Append(q, m)) : \/ i \in 1..Len(q) /\ Append(q, m)[i] = q[i]
                                        \/ i = Len(q) + 1 /\ Append(q, m)[i] = m
    BY <1>1
  <1>3. /\ \A i \in 1..Len(q) : i \in 1..Len(Append(q, m))
        /\ Len(q) + 1 \in 1..Len(Append(q, m))
    BY <1>1
  <1>4. Talks(Append(q, m), r) <=> Talks(q, r) \/ About(m, r)
    <2>1. ASSUME Talks(Append(q, m), r) PROVE Talks(q, r) \/ About(m, r)
      BY <1>2, <2>1 DEF Talks
    <2>2. ASSUME Talks(q, r) PROVE Talks(Append(q, m), r)
      BY <1>1, <1>3, <2>2 DEF Talks
    <2>3. ASSUME About(m, r) PROVE Talks(Append(q, m), r)
      BY <1>1, <1>3, <2>3 DEF Talks
    <2> QED BY <2>1, <2>2, <2>3
  <1>5. Once(q, r) /\ ~(Talks(q, r) /\ About(m, r)) => Once(Append(q, m), r)
    BY <1>2 DEF Once, Talks
  <1>6. In(Append(q, m)) = In(q) \cup {m}
    <2>1. ASSUME NEW x \in In(Append(q, m)) PROVE x \in In(q) \cup {m}
      BY <1>2, <2>1 DEF In
    <2>2. ASSUME NEW x \in In(q) PROVE x \in In(Append(q, m))
      BY <1>1, <1>3, <2>2 DEF In
    <2>3. m \in In(Append(q, m))
      BY <1>1, <1>3 DEF In
    <2> QED BY <2>1, <2>2, <2>3
  <1> QED BY <1>4, <1>5, <1>6

\* The first less.
LEMMA TalksTail ==
  ASSUME NEW q, NEW r, AnySeq(q), q # << >>
  PROVE  /\ Talks(q, r) <=> About(Head(q), r) \/ Talks(Tail(q), r)
         /\ Once(q, r) => Once(Tail(q), r) /\ ~(About(Head(q), r) /\ Talks(Tail(q), r))
         /\ In(Tail(q)) \subseteq In(q) /\ Head(q) \in In(q)
  <1>1. /\ Len(Tail(q)) \in Nat /\ Len(q) = Len(Tail(q)) + 1 /\ Head(q) = q[1]
        /\ \A i \in 1..Len(Tail(q)) : Tail(q)[i] = q[i + 1]
    BY TailAt
  <1>2. \A i \in 1..Len(Tail(q)) : i + 1 \in 1..Len(q) /\ Tail(q)[i] = q[i + 1] /\ i + 1 # 1
    BY <1>1
  <1>3. 1 \in 1..Len(q)
    BY <1>1
  <1>4. ASSUME Talks(q, r) PROVE About(Head(q), r) \/ Talks(Tail(q), r)
    <2>1. PICK i \in 1..Len(q) : About(q[i], r)
      BY <1>4 DEF Talks
    <2>2. CASE i = 1
      BY <1>1, <2>1, <2>2
    <2>3. CASE i # 1
      <3>1. i - 1 \in 1..Len(Tail(q)) /\ (i - 1) + 1 = i
        BY <1>1, <2>3
      <3>2. Tail(q)[i - 1] = q[i]
        BY <1>1, <3>1
      <3> QED BY <2>1, <3>1, <3>2 DEF Talks
    <2> QED BY <2>2, <2>3
  <1>5. ASSUME Talks(Tail(q), r) PROVE Talks(q, r)
    BY <1>2, <1>5 DEF Talks
  <1>6. ASSUME About(Head(q), r) PROVE Talks(q, r)
    BY <1>1, <1>3, <1>6 DEF Talks
  <1>7. ASSUME Once(q, r) PROVE Once(Tail(q), r) /\ ~(About(Head(q), r) /\ Talks(Tail(q), r))
    <2>1. ASSUME NEW i \in 1..Len(Tail(q)), NEW j \in 1..Len(Tail(q)),
                 About(Tail(q)[i], r), About(Tail(q)[j], r)
          PROVE  i = j
      <3>1. i + 1 = j + 1
        BY <1>2, <1>7, <2>1 DEF Once
      <3> QED BY <3>1
    <2>2. ASSUME About(Head(q), r), NEW i \in 1..Len(Tail(q)), About(Tail(q)[i], r)
          PROVE  FALSE
      BY <1>1, <1>2, <1>3, <1>7, <2>2 DEF Once
    <2> QED BY <2>1, <2>2 DEF Once, Talks
  <1>8. In(Tail(q)) \subseteq In(q) /\ Head(q) \in In(q)
    BY <1>1, <1>2, <1>3 DEF In
  <1> QED BY <1>4, <1>5, <1>6, <1>7, <1>8

\* Behind come messages of no request.
LEMMA TalksConcat ==
  ASSUME NEW q, NEW p, NEW r, AnySeq(q), AnySeq(p), ~Some(p, "other")
  PROVE  /\ Talks(q \o p, r) <=> Talks(q, r)
         /\ Once(q, r) => Once(q \o p, r)
         /\ \A m \in In(q \o p) : IsNi(m) => m \in In(q)
  <1>1. /\ Len(q) \in Nat /\ Len(p) \in Nat /\ Len(q \o p) = Len(q) + Len(p)
        /\ \A i \in 1..Len(q) : (q \o p)[i] = q[i]
        /\ \A i \in 1..Len(p) : (q \o p)[Len(q) + i] = p[i]
    BY ConcatAt
  <1>2. ASSUME NEW i \in 1..Len(q \o p)
        PROVE  (i \in 1..Len(q) /\ (q \o p)[i] = q[i]) \/ (q \o p)[i].type = "UpdateConfig"
    <2>1. CASE i \in 1..Len(q)
      BY <1>1, <2>1
    <2>2. CASE i \notin 1..Len(q)
      <3>1. i - Len(q) \in 1..Len(p) /\ Len(q) + (i - Len(q)) = i
        BY <1>1, <2>2
      <3>2. (q \o p)[i] = p[i - Len(q)]
        BY <1>1, <3>1
      <3> QED BY <3>1, <3>2 DEF Some, Of
    <2> QED BY <2>1, <2>2
  <1>3. \A i \in 1..Len(q) : i \in 1..Len(q \o p)
    BY <1>1
  <1>4. \A i \in 1..Len(q \o p) : About((q \o p)[i], r) => i \in 1..Len(q) /\ (q \o p)[i] = q[i]
    BY <1>2 DEF About
  <1>5. Talks(q \o p, r) <=> Talks(q, r)
    <2>1. ASSUME Talks(q \o p, r) PROVE Talks(q, r)
      BY <1>4, <2>1 DEF Talks
    <2>2. ASSUME Talks(q, r) PROVE Talks(q \o p, r)
      BY <1>1, <1>3, <2>2 DEF Talks
    <2> QED BY <2>1, <2>2
  <1>6. Once(q, r) => Once(q \o p, r)
    BY <1>4 DEF Once
  <1>7. \A m \in In(q \o p) : IsNi(m) => m \in In(q)
    BY <1>2 DEF In, IsNi
  <1> QED BY <1>5, <1>6, <1>7

\* A step of another theme leaves these messages alone.
SameNi ==
    /\ \A r : (Talks(msgs', r) <=> Talks(msgs, r)) /\ (Once(msgs, r) => Once(msgs', r))
    /\ \A m \in In(msgs') : IsNi(m) => m \in In(msgs)

\* So does a step that posts another message, takes another, or posts those held.
LEMMA OtherMessage ==
  ASSUME Queues,
         \/ msgs' = msgs
         \/ \E m : ~IsNi(m) /\ msgs' = Append(msgs, m)
         \/ msgs # << >> /\ ~IsNi(Head(msgs)) /\ msgs' = Tail(msgs)
         \/ msgs # << >> /\ ~IsNi(Head(msgs)) /\ msgs' = Tail(msgs) \o pending
  PROVE  SameNi
  <1>1. AnySeq(msgs) /\ AnySeq(pending) /\ ~Some(pending, "other")
    BY DEF Queues
  <1>2. \A m, r : ~IsNi(m) => ~About(m, r)
    BY DEF IsNi, About
  <1>3. ASSUME msgs' = msgs PROVE SameNi
    BY <1>3 DEF SameNi
  <1>4. ASSUME NEW m, ~IsNi(m), msgs' = Append(msgs, m) PROVE SameNi
    BY <1>1, <1>2, <1>4, TalksAppend DEF SameNi
  <1>5. ASSUME msgs # << >>, ~IsNi(Head(msgs))
        PROVE  /\ \A r : /\ Talks(Tail(msgs), r) <=> Talks(msgs, r)
                         /\ Once(msgs, r) => Once(Tail(msgs), r)
               /\ In(Tail(msgs)) \subseteq In(msgs)
    BY <1>1, <1>2, <1>5, TalksTail
  <1>6. ASSUME msgs # << >>, ~IsNi(Head(msgs)), msgs' = Tail(msgs) PROVE SameNi
    BY <1>5, <1>6 DEF SameNi
  <1>7. ASSUME msgs # << >>, ~IsNi(Head(msgs)), msgs' = Tail(msgs) \o pending PROVE SameNi
    <2>1. AnySeq(Tail(msgs))
      BY <1>1, <1>7, TailAt
    <2> QED BY <1>1, <1>5, <1>7, <2>1, TalksConcat DEF SameNi
  <1> QED BY <1>3, <1>4, <1>6, <1>7

-----------------------------------------------------------------------------
(* Network-initiated requests: the invariant.  A request is in one place:  *)
(* a message, a session, a thread that has an answer for it, or it is      *)
(* done.  In calm surroundings what is said of a session or kept for it is *)
(* of its own request: each session that is taken has one thread, that     *)
(* waits, and nothing is written to a session that is free.                *)

\* The session of a request, the thread that has its answer, and its end.
InSession(r) == \E k \in Kinds : ni[k].raw = r
InThread(r) == \E t \in threads : t.request = r
Done(r) == told[r] # << >> \/ r \in closed

\* The types.
Session == [raw : 0..MaxCalls, id : Nat, recvd : BOOLEAN, resp : Answers]

Thread == [kind : Kinds, id : Nat, pc : {"waiting", "clearing"}, request : 0..MaxCalls,
           answer : Answers]

\* What a message of a request carries.
Proper(m) ==
    /\ m.type \in {"NiNotify", "NiAnswer"} => m.request \in Requests
    /\ m.type = "NiAnswer" => m.answer \in Answers
    /\ m.type = "NiResponse" => m.id \in 1..niCounter /\ m.answer \in Answers

NiTypes ==
    /\ plan \in Plans
    /\ niCounter \in Nat
    /\ ni \in [Kinds -> Session]
    /\ threads \subseteq Thread
    /\ AnySeq(writes) /\ In(writes) \subseteq Kinds \X Answers
    /\ shown \subseteq (1..niCounter) \X Requests
    /\ said \in [Requests -> SUBSET Answers]
    /\ told \in [Requests -> Seq(Answers)]
    /\ \A m \in In(msgs) : Proper(m)

\* A request is in one place, and nowhere before the modem makes it.
OneAnswer(r) ==
    /\ Once(msgs, r)
    /\ \A k, l \in Kinds : ni[k].raw = r /\ ni[l].raw = r => k = l
    /\ \A t, u \in threads : t.request = r /\ u.request = r => t = u
    /\ Talks(msgs, r) => ~InSession(r) /\ ~InThread(r) /\ ~Done(r)
    /\ InSession(r) => ~InThread(r) /\ ~Done(r)
    /\ InThread(r) => ~Done(r)
    /\ Len(told[r]) <= 1
    /\ r \in closed => told[r] = << >>
    /\ r > calls["ni"] => ~Talks(msgs, r) /\ ~InSession(r) /\ ~InThread(r) /\ ~Done(r)

\* A session that is taken was shown with its id; the response in it is its own.
SessionsOwn ==
    \A k \in Kinds :
        /\ ni[k].raw # 0 =>
              /\ <<ni[k].id, ni[k].raw>> \in shown
              /\ ni[k].recvd => ni[k].resp \in said[ni[k].raw] \cup {"NO_RESPONSE", "IGNORE"}
        /\ ni[k].raw = 0 => ~ni[k].recvd

\* A thread waits for a session that is taken, and clears one that is free.
ThreadsOwn ==
    \A t \in threads :
        /\ t.pc = "waiting" => ni[t.kind].raw # 0 /\ t.request = 0
        /\ t.pc = "clearing" => ni[t.kind].raw = 0
        /\ t.request # 0 => t.answer \in said[t.request] \cup {"NO_RESPONSE"}
        /\ \A u \in threads : t.kind = u.kind => t = u

\* What is written goes to a session that is taken, and is its own.
WritesOwn ==
    \A w \in In(writes) : ni[w[1]].raw # 0 /\ w[2] \in said[ni[w[1]].raw] \cup {"IGNORE"}

MessagesOwn ==
    \A m \in In(msgs) :
        /\ m.type = "NiAnswer" => m.answer \in said[m.request] \cup {"NO_RESPONSE"}
        /\ m.type = "NiResponse" =>
              \A r \in Requests : <<m.id, r>> \in shown => m.answer \in said[r]

ShownOnce == \A p, q \in shown : p[1] = q[1] => p = q

ToldOwn ==
    \A r \in Requests : told[r] # << >> /\ r \notin decided =>
        Head(told[r]) \in said[r] \cup {"NO_RESPONSE"}

OwnAnswers ==
    SessionsOwn /\ ThreadsOwn /\ WritesOwn /\ MessagesOwn /\ ShownOnce /\ ToldOwn

NiInv == NiTypes /\ (\A r \in Requests : OneAnswer(r)) /\ (Rough \/ OwnAnswers)

\* What the steps of the other themes leave alone, and the messages about NI.
requestVars == <<ni, niCounter, threads, writes, shown, said, told, decided, closed>>

\* They keep the invariant.
LEMMA NiUntouched ==
  ASSUME NiInv, SameNi, UNCHANGED requestVars, plan' = plan,
         calls["ni"] \in Nat, calls'["ni"] \in Nat, calls["ni"] <= calls'["ni"]
  PROVE  NiInv'
  <1>1. UNCHANGED <<ni, niCounter, threads, writes, shown, said, told, decided, closed>>
    BY DEF requestVars
  <1>2. \A m \in In(msgs') : IsNi(m) => m \in In(msgs)
    BY DEF SameNi
  <1>3. \A r : (Talks(msgs', r) <=> Talks(msgs, r)) /\ (Once(msgs, r) => Once(msgs', r))
    BY DEF SameNi
  <1>4. NiTypes'
    <2>1. \A m \in In(msgs') : Proper(m)'
      BY <1>1, <1>2 DEF NiInv, NiTypes, Proper, IsNi
    <2> QED BY <1>1, <2>1 DEF NiInv, NiTypes
  <1>5. ASSUME NEW r \in Requests PROVE OneAnswer(r)'
    <2>1. OneAnswer(r)
      BY DEF NiInv
    <2>2. r \in Nat
      BY LocAdapterAssumption DEF Requests
    <2>3. /\ InSession(r)' <=> InSession(r)
          /\ InThread(r)' <=> InThread(r)
          /\ Done(r)' <=> Done(r)
      BY <1>1 DEF InSession, InThread, Done
    <2> QED BY <1>1, <1>3, <2>1, <2>2, <2>3 DEF OneAnswer
  <1>6. OwnAnswers => OwnAnswers'
    <2> SUFFICES ASSUME OwnAnswers PROVE OwnAnswers'
      OBVIOUS
    <2>1. MessagesOwn'
      BY <1>1, <1>2 DEF OwnAnswers, MessagesOwn, IsNi
    <2> QED
      BY <1>1, <2>1 DEF OwnAnswers, SessionsOwn, ThreadsOwn, WritesOwn, ShownOnce, ToldOwn
  <1> QED BY <1>4, <1>5, <1>6 DEF NiInv, Rough

-----------------------------------------------------------------------------
(* The steps of the other themes.                                          *)

\* A step that makes no call of a request: its messages are of other themes.
LEMMA OtherSteps ==
  ASSUME ConfigInv, NiInv, UNCHANGED requestVars, UNCHANGED <<plan, calls>>,
         \/ msgs' = msgs
         \/ \E m : ~IsNi(m) /\ msgs' = Append(msgs, m)
         \/ msgs # << >> /\ ~IsNi(Head(msgs)) /\ msgs' = Tail(msgs)
         \/ msgs # << >> /\ ~IsNi(Head(msgs)) /\ msgs' = Tail(msgs) \o pending
  PROVE  NiInv'
  <1>1. Queues /\ calls \in [Themes -> Nat]
    BY DEF ConfigInv, Values
  <1>2. SameNi
    BY <1>1, OtherMessage
  <1>3. calls["ni"] \in Nat /\ calls'["ni"] \in Nat /\ calls["ni"] <= calls'["ni"]
    BY <1>1 DEF Themes
  <1> QED BY <1>2, <1>3, NiUntouched

\* A call.
LEMMA OtherCall ==
  ASSUME ConfigInv, NiInv, UNCHANGED requestVars, NEW theme \in Themes, NEW m, ~IsNi(m),
         Call(theme, m)
  PROVE  NiInv'
  <1>1. Queues /\ calls \in [Themes -> Nat]
    BY DEF ConfigInv, Values
  <1>2. msgs' = Append(msgs, m) /\ plan' = plan /\ calls' = [calls EXCEPT ![theme] = @ + 1]
    BY DEF Call
  <1>3. SameNi
    BY <1>1, <1>2, OtherMessage
  <1>4. calls["ni"] \in Nat /\ calls'["ni"] \in Nat /\ calls["ni"] <= calls'["ni"]
    BY <1>1, <1>2 DEF Themes
  <1> QED BY <1>2, <1>3, <1>4, NiUntouched

\* A message handled, posted, or held.
LEMMA OtherHandle ==
  ASSUME ConfigInv, NiInv, UNCHANGED requestVars, NEW type, NEW sends,
         type \notin {"NiNotify", "NiAnswer", "NiResponse"},
         Handle(type, sends) \/ Hold(type)
  PROVE  NiInv'
  <1>1. UNCHANGED <<plan, calls>> /\ msgs # << >> /\ ~IsNi(Head(msgs)) /\ msgs' = Tail(msgs)
    BY DEF Handle, Hold, IsNi
  <1> QED BY <1>1, OtherSteps

LEMMA OtherPost ==
  ASSUME ConfigInv, NiInv, UNCHANGED requestVars, NEW m, ~IsNi(m),
         Post(<<m>>) \/ \E type : Serve(type, <<m>>)
  PROVE  NiInv'
  <1>1. \A k : msgs \o <<k>> = Append(msgs, k)
    BY ConcatShort DEF ConfigInv, Queues
  <1>2. UNCHANGED <<plan, calls>> /\ msgs' = msgs \o <<m>>
    BY DEF Post, Serve
  <1>3. msgs' = Append(msgs, m)
    BY <1>1, <1>2, Zenon
  <1> QED BY <1>2, <1>3, OtherSteps

LEMMA OtherServe ==
  ASSUME ConfigInv, NiInv, UNCHANGED requestVars, \E type : Serve(type, << >>)
  PROVE  NiInv'
  <1>1. msgs \o << >> = msgs
    BY ConcatShort DEF ConfigInv, Queues
  <1>2. UNCHANGED <<plan, calls>> /\ msgs' = msgs
    BY <1>1 DEF Serve
  <1> QED BY <1>2, OtherSteps

\* All of them.
LEMMA OtherThemesOfNi ==
  ASSUME ConfigInv, NiInv,
         \/ FrameworkConfigures \/ OdcpiComes \/ ModemRestarts \/ HandleConfigMessage
         \/ HandleOdcpiMessage \/ HandleEngineUpEvent \/ LocApiThread \/ TimerThread
         \/ UNCHANGED vars
         \/ \E on \in BOOLEAN : SetNiCb(on)
         \/ HandleNiCb
  PROVE  NiInv'
  <1>1. "config" \in Themes /\ "ni" \in Themes /\ "odcpi" \in Themes
    BY DEF Themes
  <1>2. CASE FrameworkConfigures
    <2>1. UNCHANGED requestVars
      BY <1>2 DEF FrameworkConfigures, niVars, requestVars
    <2>2. \/ \E id : Call("config", [type |-> "Enable", id |-> id])
          \/ \E id : Call("config", [type |-> "Disable", id |-> id])
          \/ \E enable : Call("config", [type |-> "Nfw", enable |-> enable])
          \/ \E id, item, value :
                Call("config", [type |-> "UpdateConfig", id |-> id, item |-> item,
                                value |-> value])
      BY <1>2 DEF FrameworkConfigures, LocAPIEnable, LocAPIDisable, NfwControl, UpdateConfig
    <2>3. \E m : ~IsNi(m) /\ Call("config", m)
      BY <2>2 DEF IsNi
    <2> QED BY <1>1, <2>1, <2>3, OtherCall
  <1>3. CASE OdcpiComes
    <2>1. UNCHANGED requestVars
      BY <1>3 DEF OdcpiComes, niVars, requestVars
    <2>2. \/ \E priority : Call("odcpi", [type |-> "InitOdcpi", priority |-> priority])
          \/ \E request, emergency :
                Call("odcpi", [type |-> "Odcpi", request |-> request, emergency |-> emergency])
      BY <1>3 DEF OdcpiComes, InitOdcpiCommand, RequestOdcpiEvent
    <2>3. \E m : ~IsNi(m) /\ Call("odcpi", m)
      BY <2>2 DEF IsNi
    <2> QED BY <1>1, <2>1, <2>3, OtherCall
  <1>4. CASE \E on \in BOOLEAN : SetNiCb(on)
    <2>1. UNCHANGED requestVars
      BY <1>4 DEF SetNiCb, niVars, requestVars
    <2>2. \E on : Call("ni", [type |-> "NiCb", on |-> on])
      BY <1>4 DEF SetNiCb
    <2>3. \E m : ~IsNi(m) /\ Call("ni", m)
      BY <2>2 DEF IsNi
    <2> QED BY <1>1, <2>1, <2>3, OtherCall
  <1>5. CASE ModemRestarts
    <2>1. UNCHANGED requestVars /\ UNCHANGED <<plan, calls>> /\ msgs' = msgs
      BY <1>5 DEF ModemRestarts, ModemDown, niVars, requestVars
    <2> QED BY <2>1, OtherSteps
  <1>6. CASE HandleConfigMessage \/ HandleOdcpiMessage \/ HandleNiCb
    <2>1. UNCHANGED requestVars
      BY <1>6 DEF HandleConfigMessage, HandleOdcpiMessage, HandleNiCb, niVars, requestVars
    <2>2. \E type, sends : /\ type \notin {"NiNotify", "NiAnswer", "NiResponse"}
                           /\ Handle(type, sends) \/ Hold(type)
      <3>1. CASE HandleConfigMessage
        <4>1. \/ \E sends : \E type \in {"Enable", "Disable", "Nfw", "UpdateConfig",
                                         "ConfigAnswer"} : Handle(type, sends)
              \/ Hold("UpdateConfig")
          BY <3>1
          DEF HandleConfigMessage, HandleEnable, HandleDisable, HandleNfw, HoldConfig,
              HandleLockConfig, HandleListConfig, HandleConfigAnswer
        <4> QED BY <4>1
      <3>2. CASE HandleOdcpiMessage \/ HandleNiCb
        <4>1. \E sends : \E type \in {"InitOdcpi", "Odcpi", "OdcpiTimerExpire", "NiCb"} :
                 Handle(type, sends)
          BY <3>2 DEF HandleOdcpiMessage, HandleInitOdcpi, RequestOdcpi, OdcpiTimerExpire,
                      HandleNiCb
        <4> QED BY <4>1
      <3> QED BY <1>6, <3>1, <3>2
    <2> QED BY <2>1, <2>2, OtherHandle
  <1>7. CASE HandleEngineUpEvent
    <2>1. UNCHANGED requestVars
      BY <1>7 DEF HandleEngineUpEvent, niVars, requestVars
    <2>2. /\ UNCHANGED <<plan, calls>> /\ msgs # << >> /\ ~IsNi(Head(msgs))
          /\ msgs' = Tail(msgs) \o pending
      BY <1>7 DEF HandleEngineUpEvent, HandleEngineUp, IsNi
    <2> QED BY <2>1, <2>2, OtherSteps
  <1>8. CASE LocApiThread
    <2>1. UNCHANGED requestVars
      BY <1>8 DEF LocApiThread, niVars, requestVars
    <2>2. CASE ServeSetLock \/ ServeSetBlacklist
      <3>1. \E type : Serve(type, << >>)
        BY <2>2 DEF ServeSetLock, ServeSetBlacklist
      <3> QED BY <2>1, <3>1, OtherServe
    <2>3. CASE GnssUpdateConfig
      <3>1. Serve("Config", ConfigAnswer(Head(apiq).id))
        BY <2>3 DEF GnssUpdateConfig
      <3>2. CASE Head(apiq).id = 0
        <4>1. Serve("Config", << >>)
          BY <3>1, <3>2 DEF ConfigAnswer
        <4> QED BY <2>1, <4>1, OtherServe
      <3>3. CASE Head(apiq).id # 0
        <4>1. PICK m : m = [type |-> "ConfigAnswer", id |-> Head(apiq).id]
          OBVIOUS
        <4>2. Serve("Config", <<m>>) /\ ~IsNi(m)
          BY <3>1, <3>3, <4>1 DEF ConfigAnswer, IsNi
        <4> QED BY <2>1, <4>2, OtherPost
      <3> QED BY <3>2, <3>3
    <2>4. CASE OpenModem
      <3>1. UNCHANGED <<plan, calls>> /\ msgs' = Append(msgs, [type |-> "EngineUp"])
        BY <2>4 DEF OpenModem
      <3>2. ~IsNi([type |-> "EngineUp"])
        BY DEF IsNi
      <3> QED BY <2>1, <3>1, <3>2, OtherSteps
    <2> QED BY <1>8, <2>2, <2>3, <2>4 DEF LocApiThread
  <1>9. CASE TimerThread
    <2>1. UNCHANGED requestVars
      BY <1>9 DEF TimerThread, niVars, requestVars
    <2>2. CASE OdcpiTimerExpires
      <3>1. UNCHANGED <<plan, calls>> /\ msgs' = msgs
        BY <2>2 DEF OdcpiTimerExpires, adapterVars
      <3> QED BY <2>1, <3>1, OtherSteps
    <2>3. CASE TimeOutCallback
      <3>1. \E m : ~IsNi(m) /\ Post(<<m>>)
        BY <2>3 DEF TimeOutCallback, IsNi
      <3> QED BY <2>1, <3>1, OtherPost
    <2> QED BY <1>9, <2>2, <2>3 DEF TimerThread
  <1>10. CASE UNCHANGED vars
    <2>1. UNCHANGED requestVars /\ UNCHANGED <<plan, calls>> /\ msgs' = msgs
      BY <1>10 DEF vars, niVars, requestVars, adapterVars
    <2> QED BY <2>1, OtherSteps
  <1> QED BY <1>2, <1>3, <1>4, <1>5, <1>6, <1>7, <1>8, <1>9, <1>10

-----------------------------------------------------------------------------
(* The modem's requests and the user's answers come.                       *)

\* The new request is nowhere yet.
LEMMA RequestComes ==
  ASSUME ConfigInv, NiInv, RequestNiNotifyEvent
  PROVE  NiInv'
  <1>1. AnySeq(msgs) /\ calls \in [Themes -> Nat] /\ "ni" \in Themes
    BY DEF ConfigInv, Queues, Values, Themes
  <1>2. PICK new : new = calls["ni"] + 1
    OBVIOUS
  <1>3. PICK m : m = [type |-> "NiNotify", request |-> new]
    OBVIOUS
  <1>4. Call("ni", m) /\ UNCHANGED niVars
    BY <1>2, <1>3 DEF RequestNiNotifyEvent, Number
  <1>5. /\ UNCHANGED <<ni, niCounter, threads, writes, shown, said, told, decided, closed>>
        /\ plan' = plan /\ msgs' = Append(msgs, m)
        /\ calls' = [calls EXCEPT !["ni"] = @ + 1] /\ calls["ni"] < plan.calls["ni"]
    BY <1>4 DEF niVars, Call
  <1>6. plan.calls["ni"] \in 0..MaxCalls
    BY <1>1, LocAdapterAssumption DEF NiInv, NiTypes
  <1>7. new \in Requests /\ calls'["ni"] = new /\ calls["ni"] \in Nat
    BY <1>1, <1>2, <1>5, <1>6, LocAdapterAssumption DEF Requests
  <1>8. /\ \A r : /\ Talks(msgs', r) <=> Talks(msgs, r) \/ About(m, r)
                  /\ Once(msgs, r) /\ ~(Talks(msgs, r) /\ About(m, r)) => Once(msgs', r)
        /\ In(msgs') = In(msgs) \cup {m}
    BY <1>1, <1>5, TalksAppend
  <1>9. \A r : About(m, r) <=> r = new
    BY <1>3 DEF About
  <1>10. NiTypes'
    <2>1. ASSUME NEW k \in In(msgs') PROVE Proper(k)'
      BY <1>3, <1>5, <1>7, <1>8, <2>1 DEF NiInv, NiTypes, Proper
    <2> QED BY <1>5, <2>1 DEF NiInv, NiTypes
  <1>11. ASSUME NEW r \in Requests PROVE OneAnswer(r)'
    <2>1. OneAnswer(r) /\ r \in Nat
      BY LocAdapterAssumption DEF NiInv, Requests
    <2>2. OneAnswer(new)
      BY <1>7 DEF NiInv
    <2>3. ~Talks(msgs, new) /\ ~InSession(new) /\ ~InThread(new) /\ ~Done(new)
      BY <1>2, <1>7, <2>2 DEF OneAnswer
    <2>4. /\ InSession(r)' <=> InSession(r)
          /\ InThread(r)' <=> InThread(r)
          /\ Done(r)' <=> Done(r)
      BY <1>5 DEF InSession, InThread, Done
    <2>5. Once(msgs', r) /\ (Talks(msgs', r) <=> Talks(msgs, r) \/ r = new)
      BY <1>8, <1>9, <2>1, <2>3 DEF OneAnswer
    <2>6. Talks(msgs', r) => ~InSession(r) /\ ~InThread(r) /\ ~Done(r)
      BY <2>1, <2>3, <2>5 DEF OneAnswer
    <2>7. r > calls'["ni"] => r > calls["ni"] /\ r # new
      BY <1>2, <1>7, <2>1
    <2> QED BY <1>5, <2>1, <2>4, <2>5, <2>6, <2>7 DEF OneAnswer
  <1>12. OwnAnswers => OwnAnswers'
    <2> SUFFICES ASSUME OwnAnswers PROVE OwnAnswers'
      OBVIOUS
    <2>1. MessagesOwn'
      BY <1>3, <1>5, <1>8 DEF OwnAnswers, MessagesOwn
    <2> QED
      BY <1>5, <2>1 DEF OwnAnswers, SessionsOwn, ThreadsOwn, WritesOwn, ShownOnce, ToldOwn
  <1> QED BY <1>5, <1>10, <1>11, <1>12 DEF NiInv, Rough

\* What is said of a request does not change what was said of others.
LEMMA AnswerComes ==
  ASSUME ConfigInv, NiInv, NEW p \in shown, NEW answer \in {"ACCEPT", "DENY"},
         GnssNiResponse(p[1], p[2], answer)
  PROVE  NiInv'
  <1>1. AnySeq(msgs) /\ calls \in [Themes -> Nat]
    BY DEF ConfigInv, Queues, Values
  <1>2. PICK id, q : id = p[1] /\ q = p[2]
    OBVIOUS
  <1>3. PICK m : m = [type |-> "NiResponse", id |-> id, answer |-> answer]
    OBVIOUS
  <1>4. GnssNiResponse(id, q, answer)
    BY <1>2
  <1>5. /\ UNCHANGED <<ni, niCounter, threads, writes, shown, told, decided, closed>>
        /\ <<id, q>> \in shown
        /\ said' = [said EXCEPT ![q] = {answer}] /\ said[q] = {}
        /\ Post(<<m>>)
    BY <1>3, <1>4 DEF GnssNiResponse
  <1>6. plan' = plan /\ calls' = calls /\ msgs' = Append(msgs, m)
    <2>1. \A k : msgs \o <<k>> = Append(msgs, k)
      BY <1>1, ConcatShort
    <2>2. msgs \o <<m>> = Append(msgs, m)
      BY <2>1, Zenon
    <2> QED BY <1>5, <2>2 DEF Post
  <1>7. id \in 1..niCounter /\ q \in Requests /\ answer \in Answers
    <2>1. <<id, q>> \in (1..niCounter) \X Requests
      BY <1>5 DEF NiInv, NiTypes
    <2> QED BY <2>1 DEF Answers
  <1>8. /\ \A r : /\ Talks(msgs', r) <=> Talks(msgs, r)
                  /\ Once(msgs, r) => Once(msgs', r)
        /\ In(msgs') = In(msgs) \cup {m}
    <2>1. \A r : ~About(m, r)
      BY <1>3 DEF About
    <2> QED BY <1>1, <1>6, <2>1, TalksAppend
  <1>9. \A r \in Requests : said[r] \subseteq said'[r]
    BY <1>5 DEF NiInv, NiTypes
  <1>10. NiTypes'
    <2>1. ASSUME NEW k \in In(msgs') PROVE Proper(k)'
      BY <1>3, <1>5, <1>7, <1>8, <2>1 DEF NiInv, NiTypes, Proper
    <2>2. said' \in [Requests -> SUBSET Answers]
      BY <1>5, <1>7 DEF NiInv, NiTypes
    <2> QED BY <1>5, <1>6, <2>1, <2>2 DEF NiInv, NiTypes
  <1>11. ASSUME NEW r \in Requests PROVE OneAnswer(r)'
    <2>1. OneAnswer(r)
      BY DEF NiInv
    <2>2. /\ InSession(r)' <=> InSession(r)
          /\ InThread(r)' <=> InThread(r)
          /\ Done(r)' <=> Done(r)
      BY <1>5 DEF InSession, InThread, Done
    <2> QED BY <1>5, <1>6, <1>8, <2>1, <2>2 DEF OneAnswer
  <1>12. OwnAnswers => OwnAnswers'
    <2> SUFFICES ASSUME OwnAnswers PROVE OwnAnswers'
      OBVIOUS
    <2>1. MessagesOwn'
      <3>1. ASSUME NEW k \in In(msgs), k.type = "NiAnswer"
            PROVE  k.answer \in said'[k.request] \cup {"NO_RESPONSE"}
        BY <1>9, <3>1 DEF OwnAnswers, MessagesOwn, NiInv, NiTypes, Proper
      <3>2. ASSUME NEW k \in In(msgs), k.type = "NiResponse",
                   NEW r \in Requests, <<k.id, r>> \in shown
            PROVE  k.answer \in said'[r]
        BY <1>9, <3>2 DEF OwnAnswers, MessagesOwn
      <3>3. ASSUME NEW r \in Requests, <<m.id, r>> \in shown PROVE m.answer \in said'[r]
        <4>1. <<m.id, r>> = <<id, q>>
          BY <1>3, <1>5, <3>3 DEF OwnAnswers, ShownOnce
        <4>2. r = q /\ said'[q] = {answer}
          BY <1>5, <1>7, <4>1 DEF NiInv, NiTypes
        <4> QED BY <1>3, <4>2
      <3> QED BY <1>3, <1>5, <1>8, <3>1, <3>2, <3>3 DEF MessagesOwn
    <2>2. SessionsOwn'
      <3>1. \A k \in Kinds : ni[k].raw \in 0..MaxCalls
        BY DEF NiInv, NiTypes, Session
      <3>2. \A k \in Kinds : ni[k].raw # 0 => ni[k].raw \in Requests
        BY <3>1, LocAdapterAssumption DEF Requests
      <3> QED BY <1>5, <1>9, <3>2 DEF OwnAnswers, SessionsOwn
    <2>3. ThreadsOwn'
      <3>1. \A t \in threads : t.request # 0 => t.request \in Requests
        BY LocAdapterAssumption DEF NiInv, NiTypes, Thread, Requests
      <3> QED BY <1>5, <1>9, <3>1 DEF OwnAnswers, ThreadsOwn
    <2>4. WritesOwn'
      <3>1. \A w \in In(writes) : ni[w[1]].raw \in 0..MaxCalls
        BY DEF NiInv, NiTypes, Session
      <3>2. \A w \in In(writes) : ni[w[1]].raw # 0 => ni[w[1]].raw \in Requests
        BY <3>1, LocAdapterAssumption DEF Requests
      <3> QED BY <1>5, <1>9, <3>2 DEF OwnAnswers, WritesOwn
    <2>5. ShownOnce' /\ ToldOwn'
      BY <1>5, <1>9 DEF OwnAnswers, ShownOnce, ToldOwn
    <2> QED BY <2>1, <2>2, <2>3, <2>4, <2>5 DEF OwnAnswers
  <1> QED BY <1>6, <1>10, <1>11, <1>12 DEF NiInv, Rough

-----------------------------------------------------------------------------
(* The messages handled.                                                   *)

\* The first message taken: a request it is about is in no other.
LEMMA RequestTaken ==
  ASSUME ConfigInv, NiInv, NEW type, NEW sends, Handle(type, sends)
  PROVE  /\ Head(msgs).type = type /\ Head(msgs) \in In(msgs) /\ Proper(Head(msgs))
         /\ In(msgs') \subseteq In(msgs) /\ UNCHANGED <<plan, calls>>
         /\ \A r : Talks(msgs, r) <=> About(Head(msgs), r) \/ Talks(msgs', r)
         /\ \A r : Once(msgs, r) => Once(msgs', r) /\ ~(About(Head(msgs), r) /\ Talks(msgs', r))
         /\ About(Head(msgs), Head(msgs).request) <=> type \in {"NiNotify", "NiAnswer"}
  <1>1. AnySeq(msgs)
    BY DEF ConfigInv, Queues
  <1>2. msgs # << >> /\ Head(msgs).type = type /\ msgs' = Tail(msgs) /\ UNCHANGED <<plan, calls>>
    BY DEF Handle
  <1>3. /\ \A r : Talks(msgs, r) <=> About(Head(msgs), r) \/ Talks(msgs', r)
        /\ \A r : Once(msgs, r) => Once(msgs', r) /\ ~(About(Head(msgs), r) /\ Talks(msgs', r))
        /\ In(msgs') \subseteq In(msgs) /\ Head(msgs) \in In(msgs)
    BY <1>1, <1>2, TalksTail
  <1>4. Proper(Head(msgs))
    BY <1>3 DEF NiInv, NiTypes
  <1> QED BY <1>2, <1>3, <1>4 DEF About

\* The elements of a short sequence.
LEMMA ShortIn ==
  ASSUME NEW a, NEW b
  PROVE  /\ AnySeq(<< >>) /\ In(<< >>) = {}
         /\ AnySeq(<<a>>) /\ In(<<a>>) = {a}
         /\ AnySeq(<<a>> \o <<b>>) /\ In(<<a>> \o <<b>>) = {a, b}
  <1>1. AnySeq(<< >>) /\ AnySeq(<<a>>)
    <2>1. << >> \in Seq({a}) /\ <<a>> \in Seq({a})
      OBVIOUS
    <2> QED BY <2>1 DEF AnySeq
  <1>2. In(<< >>) = {} /\ In(<<a>>) = {a}
    BY DEF In
  <1>3. PICK q : q = <<a>>
    OBVIOUS
  <1>4. AnySeq(q) /\ In(q) = {a}
    BY <1>1, <1>2, <1>3
  <1>5. q \o <<b>> = Append(q, b)
    BY <1>4, ConcatShort
  <1>6. AnySeq(Append(q, b)) /\ In(Append(q, b)) = {a, b}
    <2>1. PICK r : r = 0
      OBVIOUS
    <2>2. /\ Talks(Append(q, b), r) <=> Talks(q, r) \/ About(b, r)
          /\ In(Append(q, b)) = In(q) \cup {b}
      BY <1>4, TalksAppend
    <2>3. AnySeq(Append(q, b))
      BY <1>4, AppendAt
    <2> QED BY <1>4, <2>2, <2>3
  <1> QED BY <1>1, <1>2, <1>3, <1>5, <1>6

\* The first answer to a request.
LEMMA FirstAnswer ==
  ASSUME NiTypes, NEW r \in Requests, NEW answer \in Answers, told[r] = << >>, Tell(r, answer)
  PROVE  /\ told' \in [Requests -> Seq(Answers)]
         /\ Len(told'[r]) = 1 /\ Head(told'[r]) = answer
         /\ \A q \in Requests : q # r => told'[q] = told[q]
  <1>1. told \in [Requests -> Seq(Answers)]
    BY DEF NiTypes
  <1>2. PICK s : s = Append(told[r], answer)
    OBVIOUS
  <1>3. s = <<answer>>
    BY <1>2
  <1>4. s \in Seq(Answers) /\ Len(s) = 1 /\ Head(s) = answer
    BY <1>3
  <1>5. told' = [told EXCEPT ![r] = s]
    BY <1>2 DEF Tell
  <1> QED BY <1>1, <1>4, <1>5

\* Dropped, or told at once.
LEMMA RequestDropped ==
  ASSUME ConfigInv, NiInv, NEW r0, r0 = Head(msgs).request, writes = << >>,
         Handle("NiNotify", << >>),
         \/ Drop(r0)
         \/ AcceptUnasked(r0) /\ (Rough \/ \A t \in threads : t.pc = "waiting")
         \/ \E answer \in {"ACCEPT", "DENY"} : DecideAtOnce(r0, answer)
  PROVE  NiInv'
  <1>1. /\ In(msgs') \subseteq In(msgs) /\ UNCHANGED <<plan, calls>> /\ r0 \in Requests
        /\ \A r : Talks(msgs, r) <=> About(Head(msgs), r) \/ Talks(msgs', r)
        /\ \A r : Once(msgs, r) => Once(msgs', r) /\ ~(About(Head(msgs), r) /\ Talks(msgs', r))
        /\ \A r : About(Head(msgs), r) <=> r = r0
    BY RequestTaken DEF Proper, About
  <1>2. /\ UNCHANGED <<ni, niCounter, threads, shown, said>>
        /\ \/ closed' = closed \cup {r0} /\ told' = told /\ decided' = decided
           \/ /\ closed' = closed /\ decided' = decided \cup {r0}
              /\ \E answer \in {"ACCEPT", "DENY"} : Tell(r0, answer)
    BY DEF Drop, AcceptUnasked, DecideAtOnce
  <1>3. writes' = << >> \/ (writes' = <<<<"session", "IGNORE">>>> /\ ni["session"].raw # 0)
    BY DEF Drop, AcceptUnasked, DecideAtOnce
  <1>4. /\ AnySeq(writes')
        /\ \A w \in In(writes') : w = <<"session", "IGNORE">> /\ ni["session"].raw # 0
    <2>1. CASE writes' = << >>
      BY <2>1, ShortIn
    <2>2. CASE writes' = <<<<"session", "IGNORE">>>> /\ ni["session"].raw # 0
      <3>1. PICK w0 : w0 = <<"session", "IGNORE">>
        OBVIOUS
      <3>2. AnySeq(<<w0>>) /\ In(<<w0>>) = {w0}
        BY ShortIn
      <3> QED BY <2>2, <3>1, <3>2
    <2> QED BY <1>3, <2>1, <2>2
  <1>5. /\ ~InSession(r0) /\ ~InThread(r0) /\ told[r0] = << >> /\ r0 \notin closed
        /\ ~(r0 > calls["ni"])
    BY <1>1 DEF NiInv, OneAnswer, Done
  <1>6. /\ \A r \in Requests : r # r0 => told'[r] = told[r]
        /\ told' \in [Requests -> Seq(Answers)] /\ Len(told'[r0]) <= 1
        /\ r0 \in closed' => told'[r0] = << >>
    <2>1. NiTypes /\ "ACCEPT" \in Answers /\ "DENY" \in Answers /\ Len(<< >>) = 0
      BY DEF NiInv, Answers
    <2>2. CASE told' = told /\ closed' = closed \cup {r0}
      BY <1>5, <2>1, <2>2 DEF NiTypes
    <2>3. CASE closed' = closed /\ \E answer \in {"ACCEPT", "DENY"} : Tell(r0, answer)
      <3>1. PICK answer \in Answers : Tell(r0, answer)
        BY <2>1, <2>3
      <3>2. /\ told' \in [Requests -> Seq(Answers)] /\ Len(told'[r0]) = 1
            /\ \A r \in Requests : r # r0 => told'[r] = told[r]
        BY <1>1, <1>5, <2>1, <3>1, FirstAnswer
      <3> QED BY <1>5, <2>3, <3>2
    <2> QED BY <1>2, <2>2, <2>3
  <1>7. NiTypes'
    <2>1. \A k \in In(msgs') : Proper(k)'
      BY <1>1, <1>2 DEF NiInv, NiTypes, Proper
    <2>2. In(writes') \subseteq Kinds \X Answers
      BY <1>4 DEF Kinds, Answers
    <2> QED BY <1>1, <1>2, <1>4, <1>6, <2>1, <2>2 DEF NiInv, NiTypes
  <1>8. ASSUME NEW r \in Requests PROVE OneAnswer(r)'
    <2>1. OneAnswer(r) /\ r \in Nat
      BY LocAdapterAssumption DEF NiInv, Requests
    <2>2. /\ InSession(r)' <=> InSession(r)
          /\ InThread(r)' <=> InThread(r)
      BY <1>2 DEF InSession, InThread
    <2>3. CASE r = r0
      <3>1. ~Talks(msgs', r) /\ Once(msgs', r)
        BY <1>1, <2>1, <2>3 DEF OneAnswer
      <3>2. ~(r > calls'["ni"])
        BY <1>1, <1>5, <2>3
      <3> QED BY <1>1, <1>2, <1>5, <1>6, <2>1, <2>2, <2>3, <3>1, <3>2 DEF OneAnswer
    <2>4. CASE r # r0
      <3>1. (Talks(msgs', r) <=> Talks(msgs, r)) /\ Once(msgs', r)
        BY <1>1, <2>1, <2>4 DEF OneAnswer
      <3>2. told'[r] = told[r] /\ (r \in closed' <=> r \in closed)
        BY <1>2, <1>6, <2>4
      <3>3. Done(r)' <=> Done(r)
        BY <3>2 DEF Done
      <3> QED BY <1>1, <1>2, <2>1, <2>2, <3>1, <3>2, <3>3 DEF OneAnswer
    <2> QED BY <2>3, <2>4
  <1>9. OwnAnswers => OwnAnswers'
    <2> SUFFICES ASSUME OwnAnswers PROVE OwnAnswers'
      OBVIOUS
    <2>1. MessagesOwn'
      BY <1>1, <1>2 DEF OwnAnswers, MessagesOwn
    <2>2. WritesOwn'
      BY <1>2, <1>4 DEF WritesOwn
    <2>3. ToldOwn'
      <3>1. ASSUME NEW r \in Requests, told'[r] # << >>, r \notin decided'
            PROVE  told'[r] = told[r] /\ r \notin decided
        BY <1>2, <1>6, <3>1
      <3> QED BY <1>2, <3>1 DEF OwnAnswers, ToldOwn
    <2> QED BY <1>2, <2>1, <2>2, <2>3 DEF OwnAnswers, SessionsOwn, ThreadsOwn, ShownOnce
  <1> QED BY <1>1, <1>7, <1>8, <1>9 DEF NiInv, Rough

\* A session of its own, with an id and a thread of its own, if it can be made.
LEMMA SessionStarts ==
  ASSUME ConfigInv, NiInv, NEW r0, r0 = Head(msgs).request, writes = << >>,
         Handle("NiNotify", << >>), NEW k0 \in Kinds, ni[k0].raw = 0, StartSession(k0, r0),
         Rough \/ \A t \in threads : t.pc = "waiting"
  PROVE  NiInv'
  <1>1. /\ In(msgs') \subseteq In(msgs) /\ UNCHANGED <<plan, calls>> /\ r0 \in Requests
        /\ \A r : Talks(msgs, r) <=> About(Head(msgs), r) \/ Talks(msgs', r)
        /\ \A r : Once(msgs, r) => Once(msgs', r) /\ ~(About(Head(msgs), r) /\ Talks(msgs', r))
        /\ \A r : About(Head(msgs), r) <=> r = r0
    BY RequestTaken DEF Proper, About
  <1>2. PICK new, t0 :
           /\ new = niCounter + 1
           /\ t0 = [kind |-> k0, id |-> new, pc |-> "waiting", request |-> 0, answer |-> "IGNORE"]
    OBVIOUS
  <1>3. /\ UNCHANGED <<writes, said, told, decided, closed>>
        /\ niCounter' = new /\ ni' = [ni EXCEPT ![k0].raw = r0, ![k0].id = new]
        /\ threads' = threads \cup {t0} \/ threads' = threads
        /\ shown' = shown \cup {<<new, r0>>}
    BY <1>2 DEF StartSession
  <1>4. r0 \in 1..MaxCalls /\ r0 # 0 /\ MaxCalls \in Nat /\ niCounter \in Nat /\ new \in Nat
    BY <1>1, <1>2, LocAdapterAssumption DEF Requests, NiInv, NiTypes
  <1>5. /\ ni' \in [Kinds -> Session] /\ ni'[k0].raw = r0 /\ ni'[k0].id = new
        /\ ~ni[k0].recvd => ~ni'[k0].recvd
        /\ \A k \in Kinds : k # k0 => ni'[k] = ni[k]
    <2>1. ni \in [Kinds -> Session]
      BY DEF NiInv, NiTypes
    <2>2. PICK s : s = [ni[k0] EXCEPT !.raw = r0, !.id = new]
      OBVIOUS
    <2>3. /\ s \in Session /\ s.raw = r0 /\ s.id = new
          /\ ~ni[k0].recvd => ~s.recvd
      <3>1. ni[k0] \in Session
        BY <2>1
      <3>2. /\ s = [raw |-> r0, id |-> new, recvd |-> ni[k0].recvd, resp |-> ni[k0].resp]
            /\ ni[k0].recvd \in BOOLEAN /\ ni[k0].resp \in Answers
        BY <2>2, <3>1 DEF Session
      <3>3. s.recvd = ni[k0].recvd
        BY <3>2, Zenon
      <3> QED BY <1>4, <3>2, <3>3 DEF Session
    <2>4. ni' = [ni EXCEPT ![k0] = s]
      BY <1>3, <2>1, <2>2
    <2> QED BY <2>1, <2>3, <2>4
  <1>6. ~InSession(r0) /\ ~InThread(r0) /\ ~Done(r0) /\ ~(r0 > calls["ni"])
    BY <1>1 DEF NiInv, OneAnswer
  <1>7. NiTypes'
    <2>1. \A m \in In(msgs') : Proper(m)'
      BY <1>1, <1>2, <1>3, <1>4 DEF NiInv, NiTypes, Proper
    <2>2. t0 \in Thread
      BY <1>2, <1>4 DEF Thread, Answers
    <2>3. shown' \subseteq (1..niCounter') \X Requests
      BY <1>1, <1>2, <1>3, <1>4 DEF NiInv, NiTypes
    <2> QED BY <1>1, <1>3, <1>4, <1>5, <2>1, <2>2, <2>3 DEF NiInv, NiTypes
  <1>8. ASSUME NEW r \in Requests PROVE OneAnswer(r)'
    <2>1. OneAnswer(r) /\ r \in Nat /\ r # 0
      BY LocAdapterAssumption DEF NiInv, Requests
    <2>2. InThread(r)' <=> InThread(r)
      BY <1>2, <1>3, <2>1 DEF InThread
    <2>3. Done(r)' <=> Done(r)
      BY <1>3 DEF Done
    <2>4. \A t, u \in threads' : t.request = r /\ u.request = r => t = u
      BY <1>2, <1>3, <2>1 DEF OneAnswer
    <2>5. CASE r = r0
      <3>1. ~Talks(msgs', r) /\ Once(msgs', r)
        BY <1>1, <2>1, <2>5 DEF OneAnswer
      <3>2. ~(r > calls'["ni"])
        BY <1>1, <1>6, <2>5
      <3>3. \A k, l \in Kinds : ni'[k].raw = r /\ ni'[l].raw = r => k = l
        BY <1>5, <1>6, <2>5 DEF InSession
      <3> QED BY <1>1, <1>3, <1>6, <2>1, <2>2, <2>3, <2>4, <2>5, <3>1, <3>2, <3>3 DEF OneAnswer
    <2>6. CASE r # r0
      <3>1. (Talks(msgs', r) <=> Talks(msgs, r)) /\ Once(msgs', r)
        BY <1>1, <2>1, <2>6 DEF OneAnswer
      <3>2. \A k \in Kinds : ni'[k].raw = r <=> ni[k].raw = r
        <4>1. ni[k0].raw # r
          BY <2>1
        <4> QED BY <1>5, <2>6, <4>1
      <3>3. InSession(r)' <=> InSession(r)
        BY <3>2 DEF InSession
      <3>4. \A k, l \in Kinds : ni'[k].raw = r /\ ni'[l].raw = r => k = l
        BY <2>1, <3>2 DEF OneAnswer
      <3> QED BY <1>1, <1>3, <2>1, <2>2, <2>3, <2>4, <3>1, <3>3, <3>4 DEF OneAnswer
    <2> QED BY <2>5, <2>6
  <1>9. ASSUME OwnAnswers, \A t \in threads : t.pc = "waiting" PROVE OwnAnswers'
    <2>1. SessionsOwn'
      <3>1. ~ni'[k0].recvd
        BY <1>5, <1>9, Zenon DEF OwnAnswers, SessionsOwn
      <3>0. <<ni'[k0].id, ni'[k0].raw>> \in shown'
        BY <1>3, <1>5
      <3>2. \A k \in Kinds : k # k0 =>
                /\ ni[k].raw # 0 =>
                      /\ <<ni[k].id, ni[k].raw>> \in shown'
                      /\ ni[k].recvd =>
                            ni[k].resp \in said'[ni[k].raw] \cup {"NO_RESPONSE", "IGNORE"}
                /\ ni[k].raw = 0 => ~ni[k].recvd
        BY <1>3, <1>9 DEF OwnAnswers, SessionsOwn
      <3> QED BY <1>4, <1>5, <3>0, <3>1, <3>2 DEF SessionsOwn
    <2>2. ThreadsOwn'
      <3>1. \A t \in threads : t.kind # k0 /\ t.kind \in Kinds
        BY <1>9 DEF OwnAnswers, ThreadsOwn, NiInv, NiTypes, Thread
      <3>2. \A t \in threads : /\ ni'[t.kind] = ni[t.kind]
        BY <1>5, <3>1
      <3>3. /\ t0.kind = k0 /\ t0.pc = "waiting" /\ t0.request = 0 /\ ni'[t0.kind].raw # 0
        BY <1>2, <1>4, <1>5
      <3>4. ASSUME NEW t \in threads
            PROVE  /\ t.pc = "waiting" => ni'[t.kind].raw # 0 /\ t.request = 0
                   /\ t.pc = "clearing" => ni'[t.kind].raw = 0
                   /\ t.request # 0 => t.answer \in said'[t.request] \cup {"NO_RESPONSE"}
                   /\ \A u \in threads' : t.kind = u.kind => t = u
        BY <1>3, <1>9, <3>1, <3>2, <3>3 DEF OwnAnswers, ThreadsOwn
      <3>5. \A u \in threads' : t0.kind = u.kind => t0 = u
        BY <1>3, <3>1, <3>3
      <3> QED BY <1>3, <3>3, <3>4, <3>5 DEF ThreadsOwn
    <2>3. WritesOwn'
      BY <1>3 DEF WritesOwn, In
    <2>4. \A p \in shown : p[1] # new
      BY <1>2, <1>4 DEF NiInv, NiTypes
    <2>5. MessagesOwn'
      <3>1. ASSUME NEW m \in In(msgs'), m.type = "NiResponse",
                   NEW r \in Requests, <<m.id, r>> \in shown'
            PROVE  m.answer \in said'[r]
        <4>1. m \in In(msgs) /\ m.id # new
          BY <1>1, <1>2, <1>4, <3>1 DEF NiInv, NiTypes, Proper
        <4>2. <<m.id, r>> \in shown
          BY <1>3, <3>1, <4>1
        <4> QED BY <1>3, <1>9, <3>1, <4>1, <4>2 DEF OwnAnswers, MessagesOwn
      <3> QED BY <1>1, <1>3, <1>9, <3>1 DEF OwnAnswers, MessagesOwn
    <2>6. ShownOnce'
      BY <1>3, <1>9, <2>4 DEF OwnAnswers, ShownOnce
    <2>7. ToldOwn'
      BY <1>3, <1>9 DEF OwnAnswers, ToldOwn
    <2> QED BY <2>1, <2>2, <2>3, <2>5, <2>6, <2>7 DEF OwnAnswers
  <1> QED BY <1>1, <1>7, <1>8, <1>9 DEF NiInv, Rough

\* A request of the network is handled.
LEMMA NotifyHandled ==
  ASSUME ConfigInv, NiInv, writes = << >>, HandleNiNotify
  PROVE  NiInv'
  <1>1. PICK r0 : r0 = Head(msgs).request
    OBVIOUS
  <1>2. /\ Rough \/ \A t \in threads : t.pc = "waiting"
        /\ Handle("NiNotify", << >>)
        /\ \E type \in {"SUPL", "ES", "CP"}, emergency, override, anyEs, cpEs \in BOOLEAN :
               Decide(r0, type, emergency, override, anyEs, cpEs)
    BY <1>1 DEF HandleNiNotify
  <1>3. \/ \E answer \in {"ACCEPT", "DENY"} : DecideAtOnce(r0, answer)
        \/ \E k \in Kinds : RequestNiNotify(k, r0)
    BY <1>2 DEF Decide, Kinds
  <1>4. ASSUME NEW k \in Kinds, RequestNiNotify(k, r0)
        PROVE  \/ Drop(r0) \/ AcceptUnasked(r0)
               \/ ni[k].raw = 0 /\ StartSession(k, r0)
    BY <1>4 DEF RequestNiNotify
  <1> QED BY <1>1, <1>2, <1>3, <1>4, RequestDropped, SessionStarts

\* The user's answer is to be written to the session it was given for.
LEMMA ResponseHandled ==
  ASSUME ConfigInv, NiInv, writes = << >>, HandleNiResponse
  PROVE  NiInv'
  <1>1. PICK m, es, plain : m = Head(msgs) /\ es = ni["sessionEs"] /\ plain = ni["session"]
    OBVIOUS
  <1>2. /\ Handle("NiResponse", << >>)
        /\ UNCHANGED <<ni, niCounter, threads, shown, said, told, decided, closed>>
    BY DEF HandleNiResponse
  <1>3. /\ m.type = "NiResponse" /\ m \in In(msgs) /\ Proper(m) /\ In(msgs') \subseteq In(msgs)
        /\ UNCHANGED <<plan, calls>>
        /\ \A r : Talks(msgs, r) <=> About(m, r) \/ Talks(msgs', r)
        /\ \A r : Once(msgs, r) => Once(msgs', r)
    BY <1>1, <1>2, RequestTaken
  <1>4. m.answer \in Answers
    BY <1>3 DEF Proper
  <1>5. /\ \A r : Talks(msgs', r) <=> Talks(msgs, r)
        /\ \A r : Once(msgs, r) => Once(msgs', r)
        /\ \A k \in In(msgs') : IsNi(k) => k \in In(msgs)
    BY <1>3 DEF About
  <1>6. AnySeq(writes')
        /\ \A w \in In(writes') :
              \/ w = <<"session", "IGNORE">> /\ plain.raw # 0
              \/ w = <<"sessionEs", m.answer>> /\ es.raw # 0 /\ m.id = es.id
              \/ w = <<"session", m.answer>> /\ plain.raw # 0 /\ m.id = plain.id
    <2>1. PICK a, b, c :
             /\ a = <<"session", "IGNORE">>
             /\ b = <<"sessionEs", m.answer>> /\ c = <<"session", m.answer>>
      OBVIOUS
    <2>2. \/ writes' = << >>
          \/ es.raw # 0 /\ m.id = es.id /\ writes' = << >> \o <<b>>
          \/ es.raw # 0 /\ m.id = es.id /\ plain.raw # 0 /\ writes' = <<a>> \o <<b>>
          \/ plain.raw # 0 /\ m.id = plain.id /\ writes' = <<c>>
      BY <1>1, <2>1 DEF HandleNiResponse, Writes
    <2>3. << >> \o <<b>> = <<b>>
      OBVIOUS
    <2>4. /\ AnySeq(<< >>) /\ In(<< >>) = {} /\ AnySeq(<<b>>) /\ In(<<b>>) = {b}
          /\ AnySeq(<<c>>) /\ In(<<c>>) = {c}
          /\ AnySeq(<<a>> \o <<b>>) /\ In(<<a>> \o <<b>>) = {a, b}
      BY ShortIn
    <2> QED BY <2>1, <2>2, <2>3, <2>4
  <1>7. NiTypes'
    <2>1. \A k \in In(msgs') : Proper(k)'
      BY <1>2, <1>3 DEF NiInv, NiTypes, Proper
    <2>2. In(writes') \subseteq Kinds \X Answers
      BY <1>4, <1>6 DEF Kinds, Answers
    <2> QED BY <1>2, <1>3, <1>6, <2>1, <2>2 DEF NiInv, NiTypes
  <1>8. ASSUME NEW r \in Requests PROVE OneAnswer(r)'
    <2>1. OneAnswer(r)
      BY DEF NiInv
    <2>2. /\ InSession(r)' <=> InSession(r)
          /\ InThread(r)' <=> InThread(r)
          /\ Done(r)' <=> Done(r)
      BY <1>2 DEF InSession, InThread, Done
    <2> QED BY <1>2, <1>3, <1>5, <2>1, <2>2 DEF OneAnswer
  <1>9. OwnAnswers => OwnAnswers'
    <2> SUFFICES ASSUME OwnAnswers PROVE OwnAnswers'
      OBVIOUS
    <2>1. MessagesOwn'
      BY <1>2, <1>3 DEF OwnAnswers, MessagesOwn
    <2>2. ASSUME NEW k \in Kinds, ni[k].raw # 0, m.id = ni[k].id
          PROVE  m.answer \in said[ni[k].raw]
      <3>1. <<m.id, ni[k].raw>> \in shown
        BY <2>2 DEF OwnAnswers, SessionsOwn
      <3>2. ni[k].raw \in Requests
        BY <3>1 DEF NiInv, NiTypes
      <3> QED BY <1>3, <3>1, <3>2 DEF OwnAnswers, MessagesOwn
    <2>3. WritesOwn'
      <3>1. "session" \in Kinds /\ "sessionEs" \in Kinds
        BY DEF Kinds
      <3>2. ASSUME NEW w \in In(writes')
            PROVE  ni[w[1]].raw # 0 /\ w[2] \in said[ni[w[1]].raw] \cup {"IGNORE"}
        BY <1>1, <1>6, <2>2, <3>1, <3>2
      <3> QED BY <1>2, <3>2 DEF WritesOwn
    <2> QED BY <1>2, <2>1, <2>3 DEF OwnAnswers, SessionsOwn, ThreadsOwn, ShownOnce, ToldOwn
  <1> QED BY <1>3, <1>7, <1>8, <1>9 DEF NiInv, Rough

\* What a thread posted is told.
LEMMA AnswerHandled ==
  ASSUME ConfigInv, NiInv, HandleNiAnswer
  PROVE  NiInv'
  <1>1. PICK m, r0 : m = Head(msgs) /\ r0 = m.request
    OBVIOUS
  <1>2. /\ Handle("NiAnswer", << >>) /\ Tell(r0, m.answer)
        /\ UNCHANGED <<ni, niCounter, threads, writes, shown, said, decided, closed>>
    BY <1>1 DEF HandleNiAnswer
  <1>3. /\ m.type = "NiAnswer" /\ m \in In(msgs) /\ Proper(m) /\ In(msgs') \subseteq In(msgs)
        /\ UNCHANGED <<plan, calls>>
        /\ \A r : Talks(msgs, r) <=> About(m, r) \/ Talks(msgs', r)
        /\ \A r : Once(msgs, r) => Once(msgs', r) /\ ~(About(m, r) /\ Talks(msgs', r))
    BY <1>1, <1>2, RequestTaken
  <1>4. /\ \A r : About(m, r) <=> r = r0
        /\ r0 \in Requests /\ m.answer \in Answers
    BY <1>1, <1>3 DEF About, Proper
  <1>5. /\ ~InSession(r0) /\ ~InThread(r0) /\ told[r0] = << >> /\ r0 \notin closed
        /\ ~(r0 > calls["ni"])
    BY <1>3, <1>4 DEF NiInv, OneAnswer, Done
  <1>6. /\ told' \in [Requests -> Seq(Answers)]
        /\ Len(told'[r0]) = 1 /\ Head(told'[r0]) = m.answer
        /\ \A q \in Requests : q # r0 => told'[q] = told[q]
    BY <1>2, <1>4, <1>5, FirstAnswer DEF NiInv
  <1>7. NiTypes'
    <2>1. \A k \in In(msgs') : Proper(k)'
      BY <1>2, <1>3 DEF NiInv, NiTypes, Proper
    <2> QED BY <1>2, <1>3, <1>6, <2>1 DEF NiInv, NiTypes
  <1>8. ASSUME NEW r \in Requests PROVE OneAnswer(r)'
    <2>1. OneAnswer(r)
      BY DEF NiInv
    <2>2. /\ InSession(r)' <=> InSession(r)
          /\ InThread(r)' <=> InThread(r)
      BY <1>2 DEF InSession, InThread
    <2>3. Once(msgs', r)
      BY <1>3, <2>1 DEF OneAnswer
    <2>4. CASE r = r0
      <3>1. ~Talks(msgs', r)
        BY <1>3, <1>4, <2>1, <2>4 DEF OneAnswer
      <3>2. ~(r > calls'["ni"])
        BY <1>3, <1>5, <2>4
      <3>0. ~InSession(r) /\ ~InThread(r)
        BY <1>5, <2>4 DEF InSession, InThread
      <3>3. ~InSession(r)' /\ ~InThread(r)'
        BY <2>2, <3>0
      <3>5. r \notin closed'
        BY <1>2, <1>5, <2>4
      <3>6. Len(told'[r]) <= 1
        <4>1. Len(told'[r]) = 1
          BY <1>6, <2>4, Zenon
        <4> QED BY <4>1
      <3>4. /\ \A k, l \in Kinds : ni'[k].raw = r /\ ni'[l].raw = r => k = l
            /\ \A t, u \in threads' : t.request = r /\ u.request = r => t = u
        BY <1>2, <2>1 DEF OneAnswer
      <3> QED BY <2>3, <3>1, <3>2, <3>3, <3>4, <3>5, <3>6 DEF OneAnswer
    <2>5. CASE r # r0
      <3>1. Talks(msgs', r) <=> Talks(msgs, r)
        BY <1>3, <1>4, <2>5
      <3>2. told'[r] = told[r] /\ (Done(r)' <=> Done(r))
        BY <1>2, <1>6, <2>5 DEF Done
      <3> QED BY <1>2, <1>3, <2>1, <2>2, <2>3, <3>1, <3>2 DEF OneAnswer
    <2> QED BY <2>4, <2>5
  <1>9. OwnAnswers => OwnAnswers'
    <2> SUFFICES ASSUME OwnAnswers PROVE OwnAnswers'
      OBVIOUS
    <2>1. MessagesOwn'
      BY <1>2, <1>3 DEF OwnAnswers, MessagesOwn
    <2>2. m.answer \in said[r0] \cup {"NO_RESPONSE"}
      BY <1>1, <1>3 DEF OwnAnswers, MessagesOwn
    <2>3. ToldOwn'
      BY <1>2, <1>6, <2>2 DEF OwnAnswers, ToldOwn
    <2> QED
      BY <1>2, <2>1, <2>3 DEF OwnAnswers, SessionsOwn, ThreadsOwn, WritesOwn, ShownOnce, In
  <1> QED BY <1>3, <1>7, <1>8, <1>9 DEF NiInv, Rough

-----------------------------------------------------------------------------
(* The answer is written, and the threads.                                 *)

\* Fields of a session set.
LEMMA SessionSet ==
  ASSUME NEW x \in Session
  PROVE  /\ \A b, answer : [x EXCEPT !.resp = answer, !.recvd = b]
               = [raw |-> x.raw, id |-> x.id, recvd |-> b, resp |-> answer]
         /\ \A r, b, answer : [x EXCEPT !.recvd = b, !.resp = answer, !.raw = r]
               = [raw |-> r, id |-> x.id, recvd |-> b, resp |-> answer]
         /\ \A r : [x EXCEPT !.id = r]
               = [raw |-> x.raw, id |-> r, recvd |-> x.recvd, resp |-> x.resp]
  <1>0. x = [raw |-> x.raw, id |-> x.id, recvd |-> x.recvd, resp |-> x.resp]
    BY DEF Session
  <1>1. ASSUME NEW b, NEW answer
        PROVE  [x EXCEPT !.resp = answer, !.recvd = b]
                 = [raw |-> x.raw, id |-> x.id, recvd |-> b, resp |-> answer]
    <2>1. PICK y : y = [x EXCEPT !.resp = answer]
      OBVIOUS
    <2>2. y = [raw |-> x.raw, id |-> x.id, recvd |-> x.recvd, resp |-> answer]
      BY <1>0, <2>1
    <2>3. [y EXCEPT !.recvd = b] = [raw |-> x.raw, id |-> x.id, recvd |-> b, resp |-> answer]
      BY <2>2
    <2> QED BY <2>1, <2>3
  <1>2. ASSUME NEW r, NEW b, NEW answer
        PROVE  [x EXCEPT !.recvd = b, !.resp = answer, !.raw = r]
                 = [raw |-> r, id |-> x.id, recvd |-> b, resp |-> answer]
    <2>1. PICK y : y = [x EXCEPT !.recvd = b]
      OBVIOUS
    <2>2. y = [raw |-> x.raw, id |-> x.id, recvd |-> b, resp |-> x.resp]
      BY <1>0, <2>1
    <2>3. PICK z : z = [y EXCEPT !.resp = answer]
      OBVIOUS
    <2>4. z = [raw |-> x.raw, id |-> x.id, recvd |-> b, resp |-> answer]
      BY <2>2, <2>3
    <2>5. [z EXCEPT !.raw = r] = [raw |-> r, id |-> x.id, recvd |-> b, resp |-> answer]
      BY <2>4
    <2> QED BY <2>1, <2>3, <2>5
  <1>3. ASSUME NEW r
        PROVE  [x EXCEPT !.id = r]
                 = [raw |-> x.raw, id |-> r, recvd |-> x.recvd, resp |-> x.resp]
    BY <1>0
  <1> QED BY <1>1, <1>2, <1>3

\* An answer written to a session.
LEMMA AnswerWritten ==
  ASSUME ConfigInv, NiInv, WriteResponse
  PROVE  NiInv'
  <1>1. PICK w : w = Head(writes)
    OBVIOUS
  <1>2. /\ UNCHANGED <<niCounter, threads, shown, said, told, decided, closed>>
        /\ UNCHANGED adapterVars
        /\ writes # << >> /\ writes' = Tail(writes)
        /\ ni' = [ni EXCEPT ![w[1]].resp = w[2], ![w[1]].recvd = TRUE]
    BY <1>1 DEF WriteResponse
  <1>3. msgs' = msgs /\ plan' = plan /\ calls' = calls
    BY <1>2 DEF adapterVars
  <1>4. AnySeq(writes') /\ In(writes') \subseteq In(writes) /\ w \in In(writes)
    <2>1. AnySeq(writes)
      BY DEF NiInv, NiTypes
    <2>2. PICK r : r = 0
      OBVIOUS
    <2>3. /\ Talks(writes, r) <=> About(Head(writes), r) \/ Talks(Tail(writes), r)
          /\ In(Tail(writes)) \subseteq In(writes) /\ Head(writes) \in In(writes)
      BY <1>2, <2>1, TalksTail
    <2>4. AnySeq(Tail(writes))
      BY <1>2, <2>1, TailAt
    <2> QED BY <1>1, <1>2, <2>3, <2>4
  <1>5. PICK k0 \in Kinds, answer \in Answers : w[1] = k0 /\ w[2] = answer
    BY <1>4 DEF NiInv, NiTypes
  <1>6. PICK s : s = [raw |-> ni[k0].raw, id |-> ni[k0].id, recvd |-> TRUE, resp |-> answer]
    OBVIOUS
  <1>7. ni' = [ni EXCEPT ![k0] = s]
    <2>1. ni \in [Kinds -> Session]
      BY DEF NiInv, NiTypes
    <2>2. [ni[k0] EXCEPT !.resp = answer, !.recvd = TRUE] = s
      <3>1. ni[k0] \in Session
        BY <2>1
      <3>2. \A b : [ni[k0] EXCEPT !.resp = answer, !.recvd = b]
                      = [raw |-> ni[k0].raw, id |-> ni[k0].id, recvd |-> b, resp |-> answer]
        BY <3>1, SessionSet, ZenonT(40)
      <3> QED BY <1>6, <3>2, Zenon
    <2>3. ni' = [ni EXCEPT ![k0] = [ni[k0] EXCEPT !.resp = answer, !.recvd = TRUE]]
      BY <1>2, <1>5, <2>1
    <2> QED BY <2>2, <2>3
  <1>8. /\ ni' \in [Kinds -> Session] /\ ni'[k0] = s /\ \A k \in Kinds : k # k0 => ni'[k] = ni[k]
        /\ \A k \in Kinds : ni'[k].raw = ni[k].raw /\ ni'[k].id = ni[k].id
    <2>1. ni \in [Kinds -> Session]
      BY DEF NiInv, NiTypes
    <2>2. s \in Session /\ s.raw = ni[k0].raw /\ s.id = ni[k0].id
      BY <1>6, <2>1 DEF Session
    <2> QED BY <1>7, <2>1, <2>2
  <1>9. NiTypes'
    <2>1. \A m \in In(msgs') : Proper(m)'
      BY <1>2, <1>3 DEF NiInv, NiTypes, Proper
    <2> QED BY <1>2, <1>3, <1>4, <1>8, <2>1 DEF NiInv, NiTypes
  <1>10. ASSUME NEW r \in Requests PROVE OneAnswer(r)'
    <2>1. OneAnswer(r)
      BY DEF NiInv
    <2>2. /\ InSession(r)' <=> InSession(r)
          /\ InThread(r)' <=> InThread(r)
          /\ Done(r)' <=> Done(r)
      BY <1>2, <1>8 DEF InSession, InThread, Done
    <2> QED BY <1>2, <1>3, <1>8, <2>1, <2>2 DEF OneAnswer
  <1>11. OwnAnswers => OwnAnswers'
    <2> SUFFICES ASSUME OwnAnswers PROVE OwnAnswers'
      OBVIOUS
    <2>1. SessionsOwn'
      <3>1. ni[k0].raw # 0 /\ answer \in said[ni[k0].raw] \cup {"IGNORE"}
        BY <1>4, <1>5 DEF OwnAnswers, WritesOwn
      <3>2. <<s.id, s.raw>> \in shown' /\ s.resp \in said'[s.raw] \cup {"NO_RESPONSE", "IGNORE"}
        BY <1>2, <1>6, <3>1 DEF OwnAnswers, SessionsOwn
      <3>3. \A k \in Kinds : k # k0 =>
                /\ ni[k].raw # 0 =>
                      /\ <<ni[k].id, ni[k].raw>> \in shown'
                      /\ ni[k].recvd =>
                            ni[k].resp \in said'[ni[k].raw] \cup {"NO_RESPONSE", "IGNORE"}
                /\ ni[k].raw = 0 => ~ni[k].recvd
        BY <1>2 DEF OwnAnswers, SessionsOwn
      <3>4. s.raw # 0
        BY <1>6, <3>1
      <3> QED BY <1>8, <3>2, <3>3, <3>4 DEF SessionsOwn
    <2>2. ThreadsOwn'
      <3>1. \A t \in threads : t.kind \in Kinds
        BY DEF NiInv, NiTypes, Thread
      <3> QED BY <1>2, <1>8, <3>1 DEF OwnAnswers, ThreadsOwn
    <2>3. WritesOwn'
      <3>1. \A v \in In(writes) : v[1] \in Kinds
        BY DEF NiInv, NiTypes
      <3> QED BY <1>2, <1>4, <1>8, <3>1 DEF OwnAnswers, WritesOwn
    <2>4. MessagesOwn'
      BY <1>2, <1>3 DEF OwnAnswers, MessagesOwn
    <2> QED BY <1>2, <2>1, <2>2, <2>3, <2>4 DEF OwnAnswers, ShownOnce, ToldOwn
  <1> QED BY <1>3, <1>9, <1>10, <1>11 DEF NiInv, Rough

\* A thread takes the request out of its session.
LEMMA ThreadWakes ==
  ASSUME ConfigInv, NiInv, NEW t \in threads, NEW timeout \in BOOLEAN, NiThreadWakes(t, timeout)
  PROVE  NiInv'
  <1>1. PICK k0, r0, answer, request :
           /\ k0 = t.kind /\ r0 = ni[k0].raw
           /\ answer = (IF timeout THEN "NO_RESPONSE" ELSE ni[k0].resp)
           /\ request = (IF r0 # 0 /\ answer # "IGNORE" THEN r0 ELSE 0)
    OBVIOUS
  <1>2. PICK t1 : t1 = [t EXCEPT !.pc = "clearing", !.request = request, !.answer = answer]
    OBVIOUS
  <1>3. /\ UNCHANGED <<niCounter, writes, shown, said, told, decided>> /\ UNCHANGED adapterVars
        /\ t.pc = "waiting" /\ (timeout \/ ni[k0].recvd) /\ (Rough \/ writes = << >>)
        /\ ni' = [ni EXCEPT ![k0].recvd = FALSE, ![k0].resp = answer, ![k0].raw = 0]
        /\ threads' = (threads \ {t}) \cup {t1}
        /\ closed' = IF r0 # 0 /\ answer = "IGNORE" THEN closed \cup {r0} ELSE closed
    BY <1>1, <1>2 DEF NiThreadWakes
  <1>4. msgs' = msgs /\ plan' = plan /\ calls' = calls
    BY <1>3 DEF adapterVars
  <1>5. ni \in [Kinds -> Session] /\ threads \subseteq Thread
    BY DEF NiInv, NiTypes
  <1>6. k0 \in Kinds /\ r0 \in 0..MaxCalls /\ answer \in Answers /\ request \in 0..MaxCalls
    BY <1>1, <1>5, LocAdapterAssumption DEF Session, Thread, Answers
  <1>7. /\ t1 \in Thread /\ t1.kind = k0 /\ t1.pc = "clearing"
        /\ t1.request = request /\ t1.answer = answer
    BY <1>1, <1>2, <1>5, <1>6 DEF Thread
  <1>8. PICK s : s = [raw |-> 0, id |-> ni[k0].id, recvd |-> FALSE, resp |-> answer]
    OBVIOUS
  <1>9. ni' = [ni EXCEPT ![k0] = s]
    <2>1. [ni[k0] EXCEPT !.recvd = FALSE, !.resp = answer, !.raw = 0] = s
      <3>1. ni[k0] \in Session
        BY <1>5, <1>6
      <3>2. \A r, b, a : [ni[k0] EXCEPT !.recvd = b, !.resp = a, !.raw = r]
                            = [raw |-> r, id |-> ni[k0].id, recvd |-> b, resp |-> a]
        BY <3>1, SessionSet
      <3> QED BY <1>8, <3>2, Zenon
    <2>2. ni' = [ni EXCEPT ![k0] = [ni[k0] EXCEPT !.recvd = FALSE, !.resp = answer, !.raw = 0]]
      BY <1>3, <1>5, <1>6
    <2> QED BY <2>1, <2>2
  <1>10. /\ ni' \in [Kinds -> Session] /\ ni'[k0] = s
         /\ \A k \in Kinds : k # k0 => ni'[k] = ni[k]
    <2>1. s \in Session
      BY <1>5, <1>6, <1>8, LocAdapterAssumption DEF Session
    <2> QED BY <1>5, <1>6, <1>9, <2>1
  <1>11. ni'[k0].raw = 0 /\ ~ni'[k0].recvd
    <2>1. s.raw = 0
      BY <1>8
    <2>2. ~s.recvd
      BY <1>8, Zenon
    <2>3. ni'[k0].raw = 0
      BY <1>10, <2>1
    <2>4. ~ni'[k0].recvd
      BY <1>10, <2>2, Zenon
    <2> QED BY <2>3, <2>4
  <1>12. NiTypes'
    <2>1. \A m \in In(msgs') : Proper(m)'
      BY <1>3, <1>4 DEF NiInv, NiTypes, Proper
    <2> QED BY <1>3, <1>4, <1>7, <1>10, <2>1 DEF NiInv, NiTypes, In
  <1>13. ASSUME NEW r \in Requests PROVE OneAnswer(r)'
    <2>1. OneAnswer(r) /\ r # 0
      BY LocAdapterAssumption DEF NiInv, Requests
    <2>2. \A k \in Kinds : ni'[k].raw = r => ni[k].raw = r /\ k # k0
      BY <1>10, <1>11, <2>1
    <2>3. \A k, l \in Kinds : ni'[k].raw = r /\ ni'[l].raw = r => k = l
      BY <2>1, <2>2 DEF OneAnswer
    <2>4. CASE r = r0
      <3>1. InSession(r) /\ ~InThread(r) /\ ~Done(r) /\ ~Talks(msgs, r)
        BY <1>1, <1>6, <2>1, <2>4 DEF InSession, OneAnswer
      <3>2. ~InSession(r)'
        BY <1>1, <1>6, <2>1, <2>2, <2>4 DEF InSession, OneAnswer
      <3>3. \A u, v \in threads' : u.request = r /\ v.request = r => u = v
        BY <1>3, <3>1 DEF InThread
      <3>4. InThread(r)' => request = r
        BY <1>3, <1>7, <3>1 DEF InThread
      <3>5. request = r => closed' = closed
        BY <1>1, <1>3, <2>1
      <3>6. ~(r > calls["ni"])
        BY <2>1, <3>1 DEF OneAnswer
      <3>7. told'[r] = << >> /\ Len(told'[r]) <= 1
        BY <1>3, <2>1, <3>1 DEF Done, OneAnswer
      <3>8. InThread(r)' => ~Done(r)'
        BY <1>3, <3>1, <3>4, <3>5 DEF Done
      <3>9. ~Talks(msgs', r) /\ Once(msgs', r) /\ ~(r > calls'["ni"])
        BY <1>4, <2>1, <3>1, <3>6 DEF OneAnswer
      <3> QED BY <2>3, <3>2, <3>3, <3>7, <3>8, <3>9 DEF OneAnswer
    <2>5. CASE r # r0
      <3>1. request # r /\ t1.request # r
        BY <1>1, <1>7, <2>1, <2>5
      <3>2. \A k \in Kinds : ni'[k].raw = r <=> ni[k].raw = r
        BY <1>1, <1>10, <1>11, <2>1, <2>5
      <3>3. InSession(r)' <=> InSession(r)
        BY <3>2 DEF InSession
      <3>4. InThread(r)' => InThread(r)
        BY <1>3, <3>1 DEF InThread
      <3>5. \A u, v \in threads' : u.request = r /\ v.request = r => u = v
        BY <1>3, <2>1, <3>1 DEF OneAnswer
      <3>6. r \in closed' <=> r \in closed
        BY <1>3, <2>5
      <3>7. (Done(r)' <=> Done(r)) /\ told' = told
        BY <1>3, <3>6 DEF Done
      <3> QED BY <1>4, <2>1, <2>3, <3>3, <3>4, <3>5, <3>6, <3>7 DEF OneAnswer
    <2> QED BY <2>4, <2>5
  <1>14. ASSUME OwnAnswers, writes = << >> PROVE OwnAnswers'
    <2>1. r0 # 0 /\ \A u \in threads : u # t => u.kind # k0 /\ u.kind \in Kinds
      BY <1>1, <1>3, <1>5, <1>14 DEF OwnAnswers, ThreadsOwn, Thread
    <2>2. answer \in said[r0] \cup {"NO_RESPONSE", "IGNORE"}
      BY <1>1, <1>3, <1>6, <1>14, <2>1 DEF OwnAnswers, SessionsOwn
    <2>3. SessionsOwn'
      <3>1. \A k \in Kinds : k # k0 =>
                /\ ni[k].raw # 0 =>
                      /\ <<ni[k].id, ni[k].raw>> \in shown'
                      /\ ni[k].recvd =>
                            ni[k].resp \in said'[ni[k].raw] \cup {"NO_RESPONSE", "IGNORE"}
                /\ ni[k].raw = 0 => ~ni[k].recvd
        BY <1>3, <1>14 DEF OwnAnswers, SessionsOwn
      <3> QED BY <1>10, <1>11, <3>1 DEF SessionsOwn
    <2>4. ThreadsOwn'
      <3>1. \A u \in threads' :
               u = t1 \/ (u \in threads /\ u # t /\ u.kind # k0 /\ ni'[u.kind] = ni[u.kind])
        BY <1>3, <1>10, <2>1
      <3>2. /\ t1.pc = "clearing" /\ ni'[t1.kind].raw = 0
            /\ t1.request # 0 => t1.answer \in said'[t1.request] \cup {"NO_RESPONSE"}
        BY <1>1, <1>3, <1>7, <1>11, <2>2
      <3>3. ASSUME NEW u \in threads, u # t, u.kind # k0, ni'[u.kind] = ni[u.kind]
            PROVE  /\ u.pc = "waiting" => ni'[u.kind].raw # 0 /\ u.request = 0
                   /\ u.pc = "clearing" => ni'[u.kind].raw = 0
                   /\ u.request # 0 => u.answer \in said'[u.request] \cup {"NO_RESPONSE"}
                   /\ \A v \in threads' : u.kind = v.kind => u = v
        BY <1>3, <1>7, <1>14, <3>1, <3>3 DEF OwnAnswers, ThreadsOwn
      <3>4. \A v \in threads' : t1.kind = v.kind => t1 = v
        BY <1>7, <3>1
      <3> QED BY <3>1, <3>2, <3>3, <3>4 DEF ThreadsOwn
    <2>5. WritesOwn'
      BY <1>3, <1>14, ShortIn DEF WritesOwn
    <2>6. MessagesOwn'
      BY <1>3, <1>4, <1>14 DEF OwnAnswers, MessagesOwn
    <2> QED BY <1>3, <1>14, <2>3, <2>4, <2>5, <2>6 DEF OwnAnswers, ShownOnce, ToldOwn
  <1> QED BY <1>3, <1>4, <1>12, <1>13, <1>14 DEF NiInv, Rough

\* It posts the answer, and clears the id.
LEMMA ThreadEnds ==
  ASSUME ConfigInv, NiInv, NEW t \in threads, NiThreadEnds(t)
  PROVE  NiInv'
  <1>1. PICK k0, r0, m :
           /\ k0 = t.kind /\ r0 = t.request
           /\ m = [type |-> "NiAnswer", request |-> r0, answer |-> t.answer]
    OBVIOUS
  <1>2. /\ UNCHANGED <<niCounter, writes, shown, said, told, decided, closed>>
        /\ t.pc = "clearing" /\ threads' = threads \ {t}
        /\ ni' = [ni EXCEPT ![k0].id = 0]
        /\ Post(IF r0 = 0 THEN << >> ELSE <<m>>)
    BY <1>1 DEF NiThreadEnds
  <1>3. ni \in [Kinds -> Session] /\ threads \subseteq Thread
    BY DEF NiInv, NiTypes
  <1>4. k0 \in Kinds /\ r0 \in 0..MaxCalls /\ t.answer \in Answers
    BY <1>1, <1>3 DEF Thread
  <1>5. plan' = plan /\ calls' = calls
    BY <1>2 DEF Post
  <1>6. /\ r0 = 0 => msgs' = msgs
        /\ r0 # 0 => msgs' = Append(msgs, m)
    <2>1. AnySeq(msgs)
      BY DEF ConfigInv, Queues
    <2>2. msgs \o << >> = msgs /\ \A k : msgs \o <<k>> = Append(msgs, k)
      BY <2>1, ConcatShort
    <2>3. msgs \o <<m>> = Append(msgs, m)
      BY <2>2, Zenon
    <2> QED BY <1>2, <2>2, <2>3 DEF Post
  <1>7. /\ \A r : r # r0 \/ r0 = 0 => (Talks(msgs', r) <=> Talks(msgs, r))
        /\ \A r : Once(msgs, r) /\ ~(r = r0 /\ Talks(msgs, r)) => Once(msgs', r)
        /\ In(msgs') \subseteq In(msgs) \cup {m} /\ (r0 = 0 => In(msgs') \subseteq In(msgs))
    <2>1. CASE r0 = 0
      BY <1>6, <2>1
    <2>2. CASE r0 # 0
      <3>1. AnySeq(msgs)
        BY DEF ConfigInv, Queues
      <3>2. /\ \A r : /\ Talks(msgs', r) <=> Talks(msgs, r) \/ About(m, r)
                      /\ Once(msgs, r) /\ ~(Talks(msgs, r) /\ About(m, r)) => Once(msgs', r)
            /\ In(msgs') = In(msgs) \cup {m}
        BY <1>6, <2>2, <3>1, TalksAppend, ZenonT(40)
      <3>3. \A r : About(m, r) <=> r = r0
        BY <1>1 DEF About
      <3> QED BY <2>2, <3>2, <3>3
    <2> QED BY <2>1, <2>2
  <1>8. PICK s : s = [raw |-> ni[k0].raw, id |-> 0, recvd |-> ni[k0].recvd, resp |-> ni[k0].resp]
    OBVIOUS
  <1>9. s \in Session /\ s.raw = ni[k0].raw /\ (~ni[k0].recvd => ~s.recvd)
    <2>1. /\ ni[k0].raw \in 0..MaxCalls /\ ni[k0].recvd \in BOOLEAN
          /\ ni[k0].resp \in Answers /\ 0 \in Nat
      BY <1>3, <1>4 DEF Session
    <2>2. s.recvd = ni[k0].recvd
      BY <1>8, Zenon
    <2> QED BY <1>8, <2>1, <2>2 DEF Session
  <1>10. /\ ni' \in [Kinds -> Session] /\ ni'[k0] = s
         /\ \A k \in Kinds : k # k0 => ni'[k] = ni[k]
         /\ \A k \in Kinds : ni'[k].raw = ni[k].raw
    <2>1. \A r : [ni[k0] EXCEPT !.id = r] = [raw |-> ni[k0].raw, id |-> r, recvd |-> ni[k0].recvd,
                                             resp |-> ni[k0].resp]
      BY <1>3, <1>4, SessionSet
    <2>2. [ni[k0] EXCEPT !.id = 0] = s
      BY <1>8, <2>1, Zenon
    <2>3. ni' = [ni EXCEPT ![k0] = s]
      BY <1>2, <2>2
    <2> QED BY <1>3, <1>4, <1>9, <2>3
  <1>11. NiTypes'
    <2>1. \A k \in In(msgs') : Proper(k)'
      <3>1. ASSUME NEW k \in In(msgs) PROVE Proper(k)'
        BY <1>2 DEF NiInv, NiTypes, Proper
      <3>2. r0 # 0 => r0 \in Requests
        BY <1>4, LocAdapterAssumption DEF Requests
      <3>3. r0 # 0 => Proper(m)'
        BY <1>1, <1>4, <3>2 DEF Proper
      <3> QED BY <1>7, <3>1, <3>3
    <2> QED BY <1>2, <1>5, <1>10, <2>1 DEF NiInv, NiTypes, In
  <1>12. ASSUME NEW r \in Requests PROVE OneAnswer(r)'
    <2>1. OneAnswer(r) /\ r # 0
      BY LocAdapterAssumption DEF NiInv, Requests
    <2>2. InSession(r)' <=> InSession(r)
      BY <1>10 DEF InSession
    <2>3. (Done(r)' <=> Done(r)) /\ UNCHANGED <<told, closed>>
      BY <1>2 DEF Done
    <2>4. /\ \A k, l \in Kinds : ni'[k].raw = r /\ ni'[l].raw = r => k = l
          /\ \A u, v \in threads' : u.request = r /\ v.request = r => u = v
      BY <1>2, <1>10, <2>1 DEF OneAnswer
    <2>5. InThread(r)' => InThread(r)
      BY <1>2 DEF InThread
    <2>6. CASE r = r0
      <3>1. InThread(r) /\ ~InSession(r) /\ ~Done(r) /\ ~Talks(msgs, r) /\ ~(r > calls["ni"])
        BY <1>1, <2>1, <2>6 DEF InThread, OneAnswer
      <3>2. ~InThread(r)'
        BY <1>1, <1>2, <2>1, <2>6 DEF InThread, OneAnswer
      <3>3. Once(msgs', r)
        BY <1>7, <2>1, <3>1 DEF OneAnswer
      <3> QED BY <1>5, <2>1, <2>2, <2>3, <2>4, <3>1, <3>2, <3>3 DEF OneAnswer
    <2>7. CASE r # r0
      <3>1. (Talks(msgs', r) <=> Talks(msgs, r)) /\ Once(msgs', r)
        BY <1>7, <2>1, <2>7 DEF OneAnswer
      <3> QED BY <1>5, <2>1, <2>2, <2>3, <2>4, <2>5, <3>1 DEF OneAnswer
    <2> QED BY <2>6, <2>7
  <1>13. OwnAnswers => OwnAnswers'
    <2> SUFFICES ASSUME OwnAnswers PROVE OwnAnswers'
      OBVIOUS
    <2>1. SessionsOwn'
      <3>1. ni[k0].raw = 0 /\ ~ni[k0].recvd
        BY <1>1, <1>2, <1>4 DEF OwnAnswers, SessionsOwn, ThreadsOwn
      <3>2. ni'[k0].raw = 0
        BY <1>9, <1>10, <3>1
      <3>3. ~ni'[k0].recvd
        BY <1>9, <1>10, <3>1, Zenon
      <3>4. \A k \in Kinds : k # k0 =>
                /\ ni[k].raw # 0 =>
                      /\ <<ni[k].id, ni[k].raw>> \in shown'
                      /\ ni[k].recvd =>
                            ni[k].resp \in said'[ni[k].raw] \cup {"NO_RESPONSE", "IGNORE"}
                /\ ni[k].raw = 0 => ~ni[k].recvd
        BY <1>2 DEF OwnAnswers, SessionsOwn
      <3> QED BY <1>10, <3>2, <3>3, <3>4 DEF SessionsOwn
    <2>2. ThreadsOwn'
      <3>1. \A u \in threads : u.kind \in Kinds
        BY <1>3 DEF Thread
      <3> QED BY <1>2, <1>10, <3>1 DEF OwnAnswers, ThreadsOwn
    <2>3. WritesOwn'
      <3>1. \A v \in In(writes) : v[1] \in Kinds
        BY DEF NiInv, NiTypes
      <3>2. In(writes') = In(writes)
        BY <1>2 DEF In
      <3> QED BY <1>2, <1>10, <3>1, <3>2 DEF OwnAnswers, WritesOwn
    <2>4. MessagesOwn'
      <3>1. r0 # 0 => m.answer \in said[m.request] \cup {"NO_RESPONSE"}
        BY <1>1 DEF OwnAnswers, ThreadsOwn
      <3>2. m.type = "NiAnswer"
        BY <1>1
      <3> QED BY <1>2, <1>7, <3>1, <3>2 DEF OwnAnswers, MessagesOwn
    <2> QED BY <1>2, <2>1, <2>2, <2>3, <2>4 DEF OwnAnswers, ShownOnce, ToldOwn
  <1> QED BY <1>5, <1>11, <1>12, <1>13 DEF NiInv, Rough

-----------------------------------------------------------------------------

\* Every step keeps the invariant.
LEMMA NiStep ==
  ASSUME ConfigInv, NiInv, [Next]_vars
  PROVE  NiInv'
  <1>1. CASE NiComes
    <2>1. CASE \E on \in BOOLEAN : SetNiCb(on)
      BY <2>1, OtherThemesOfNi
    <2>2. CASE RequestNiNotifyEvent
      BY <2>2, RequestComes
    <2>3. ASSUME NEW p \in shown, NEW answer \in {"ACCEPT", "DENY"},
                 GnssNiResponse(p[1], p[2], answer)
          PROVE  NiInv'
      BY <2>3, AnswerComes
    <2> QED BY <1>1, <2>1, <2>2, <2>3 DEF NiComes
  <1>2. CASE HandleNiMessage
    <2>1. CASE HandleNiCb
      BY <2>1, OtherThemesOfNi
    <2> QED
      BY <1>2, <2>1, NotifyHandled, ResponseHandled, AnswerHandled DEF HandleNiMessage
  <1>3. CASE WriteResponse
    BY <1>3, AnswerWritten
  <1>4. ASSUME NEW t \in threads, NiThread(t) PROVE NiInv'
    BY <1>4, ThreadWakes, ThreadEnds DEF NiThread
  <1>5. CASE \/ FrameworkConfigures \/ OdcpiComes \/ ModemRestarts \/ HandleConfigMessage
             \/ HandleOdcpiMessage \/ HandleEngineUpEvent \/ LocApiThread \/ TimerThread
             \/ UNCHANGED vars
    BY <1>5, OtherThemesOfNi
  <1> QED BY <1>1, <1>2, <1>3, <1>4, <1>5 DEF Next, AdapterThread

\* Nothing is requested at the start.
LEMMA NiStart ==
  ASSUME Init
  PROVE  NiInv
  <1>1. /\ plan \in Plans /\ msgs = << >> /\ calls = [t \in Themes |-> 0]
        /\ ni = [k \in Kinds |-> [raw |-> 0, id |-> 0, recvd |-> FALSE, resp |-> "NO_RESPONSE"]]
        /\ niCounter = 0 /\ threads = {} /\ writes = << >> /\ shown = {} /\ closed = {}
        /\ said = [r \in Requests |-> {}] /\ told = [r \in Requests |-> << >>]
    BY DEF Init, InitAdapter, InitNi
  <1>2. PICK s : s = [raw |-> 0, id |-> 0, recvd |-> FALSE, resp |-> "NO_RESPONSE"]
    OBVIOUS
  <1>3. s \in Session /\ s.raw = 0
    BY <1>2, LocAdapterAssumption DEF Session, Answers
  <1>4. ~s.recvd
    BY <1>2, Zenon
  <1>5. ni \in [Kinds -> Session] /\ \A k \in Kinds : ni[k] = s
    BY <1>1, <1>2, <1>3
  <1>6. In(msgs) = {} /\ In(writes) = {} /\ AnySeq(writes) /\ Len(msgs) = 0
    BY <1>1, ShortIn
  <1>7. /\ told \in [Requests -> Seq(Answers)] /\ said \in [Requests -> SUBSET Answers]
        /\ \A r \in Requests : told[r] = << >> /\ Len(told[r]) = 0
    BY <1>1
  <1>8. NiTypes
    BY <1>1, <1>5, <1>6, <1>7 DEF NiTypes
  <1>9. ASSUME NEW r \in Requests PROVE OneAnswer(r)
    <2>1. r # 0
      BY LocAdapterAssumption DEF Requests
    <2>2. ~Talks(msgs, r) /\ Once(msgs, r)
      BY <1>6 DEF Talks, Once
    <2>3. ~InSession(r) /\ ~InThread(r) /\ ~Done(r)
      BY <1>1, <1>3, <1>5, <1>7, <2>1 DEF InSession, InThread, Done
    <2>4. \A k \in Kinds : ni[k].raw # r
      BY <2>3 DEF InSession
    <2> QED BY <1>1, <1>7, <2>2, <2>3, <2>4 DEF OneAnswer
  <1>10. OwnAnswers
    <2>1. SessionsOwn
      <3>1. \A k \in Kinds : ni[k].raw = 0
        BY <1>3, <1>5
      <3>2. \A k \in Kinds : ~ni[k].recvd
        BY <1>4, <1>5, Zenon
      <3> QED BY <3>1, <3>2 DEF SessionsOwn
    <2>2. ThreadsOwn /\ WritesOwn /\ MessagesOwn /\ ShownOnce /\ ToldOwn
      BY <1>1, <1>6, <1>7 DEF ThreadsOwn, WritesOwn, MessagesOwn, ShownOnce, ToldOwn
    <2> QED BY <2>1, <2>2 DEF OwnAnswers
  <1> QED BY <1>8, <1>9, <1>10 DEF NiInv

\* A request of the network gets one answer at most, none if it is dropped or
\* ignored; and in calm surroundings what the modem is told is what the user
\* said of this very request, that he did not say, or was decided without him:
\* for any plans, and with locks, restarts and positions on demand between.
THEOREM AnswersOwn == Spec => []AnswerIsOwn
  <1>1. Init => ConfigInv /\ NiInv
    BY ConfigStart, NiStart
  <1>2. ConfigInv /\ NiInv /\ [Next]_vars => (ConfigInv /\ NiInv)'
    BY ConfigStep, NiStep
  <1>3. NiInv => AnswerIsOwn
    BY DEF NiInv, OneAnswer, OwnAnswers, ToldOwn, AnswerIsOwn
  <1> QED BY <1>1, <1>2, <1>3, PTL DEF Spec
=============================================================================
