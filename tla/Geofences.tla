----------------------------- MODULE Geofences ------------------------------
(***************************************************************************)
(* Geofences, from the client's identifiers down to the modem's.           *)
(*                                                                         *)
(*   client      gps/location/LocationAPIClientBase: maps the client's own *)
(*               ids to sessions (mGeofenceBiDict) and keeps its requests  *)
(*               in a queue: an answer is taken for the oldest request;    *)
(*   adapter     gps/geofence/GeofenceAdapter: maps sessions to the        *)
(*               handles of the modem (mGeofenceIds) and handles to what   *)
(*               they stand for (mGeofences), to add the fences again when *)
(*               the modem has restarted;                                  *)
(*   LocApi      makes the adapter's calls, one at a time, in order.       *)
(*                                                                         *)
(* A command goes twice through the LocApi: addToCallQueue only comes back *)
(* to the adapter's thread, which looks the handle up and makes the call;  *)
(* the modem's answer comes back in turn. The arrays of a command are      *)
(* shared by the continuations of all its items, and freed by that of the  *)
(* last.                                                                   *)
(*                                                                         *)
(* The engine lock stays ENABLED, as LocApiBase constructs it; the modem   *)
(* never gives a handle twice.                                             *)
(***************************************************************************)
EXTENDS Integers, Sequences, FiniteSets, SequencesExt, FiniteSetsExt, Functions

CONSTANTS
    Clients,        \* LocationAPI instances
    Ids,            \* the clients' own geofence ids, from 1
    Batches,        \* the arrays of ids a client may pass to a command, each id once
    Refusable,      \* the calls a working modem may refuse
    Patient,        \* a client waits for its answers before it uses an id again
    MaxBacklog,     \* bound: messages in the two queues when a client calls
    MaxCommands,    \* bound: commands of all clients
    MaxRefusals,    \* bound: calls refused by a working modem
    MaxCrashes      \* bound: modem restarts

Operations == {"add", "remove", "pause", "resume", "modify"}

ASSUME GeofencesAssumption ==
    /\ Ids \subseteq Nat \ {0}
    /\ Batches \subseteq Seq(Ids) \ {<< >>}
    /\ \A b \in Batches : IsInjective(b)
    /\ Refusable \subseteq Operations \cup {"restore"}
    /\ Patient \in BOOLEAN
    /\ {MaxBacklog, MaxCommands, MaxRefusals, MaxCrashes} \subseteq Nat

VARIABLES
    msgs,           \* the adapter's message queue
    engq,           \* the LocApi's message queue
    known,          \* mClientData: the clients the adapter knows
    fences,         \* mGeofences: handle -> what it stands for
    handles,        \* mGeofenceIds: <<client, session>> -> handle
    modem,          \* the fences the modem monitors: handle -> their state
    up,             \* the LocApi has the modem open
    live,           \* clients that have not called destroy
    dict,           \* mGeofenceBiDict of each client, both directions
    requests,       \* mRequestQueues[REQUEST_GEOFENCE] of each client
    added,          \* the ids each client has added and not removed
    commands,       \* every command given, with its arrays
    used            \* sessions, handles and bounded events so far

adapter == <<known, fences, handles>>
client == <<live, dict, requests, added>>
vars == <<msgs, engq, adapter, modem, up, client, commands, used>>

Default == 1        \* the options a fence is added with
Modified == 2       \* the options modifyGeofences gives it

NoFence == [client |-> "none", session |-> 0, options |-> Default, paused |-> FALSE]

Init ==
    /\ msgs = << >> /\ engq = << >>
    /\ known = Clients /\ live = Clients
    /\ fences = << >> /\ handles = << >> /\ modem = << >>
    /\ up = TRUE
    /\ dict = [c \in Clients |-> [session |-> << >>, id |-> << >>]]
    /\ requests = [c \in Clients |-> << >>]
    /\ added = [c \in Clients |-> {}]
    /\ commands = << >>
    /\ used = [sessions |-> 0, handles |-> 0, refusals |-> 0, crashes |-> 0]

Extend(f, x, y) == [z \in DOMAIN f \cup {x} |-> IF z = x THEN y ELSE f[z]]
Without(f, x) == Restrict(f, DOMAIN f \ {x})

\* The sequences of the members of S in ascending order: there is one.
Ascending(S) ==
    {q \in [1..Cardinality(S) -> S] : \A i, j \in 1..Cardinality(S) : i < j => q[i] < q[j]}

-----------------------------------------------------------------------------
(* Clients: LocationAPIClientBase under its mutex.                         *)

\* BiDict::set, BiDict::rmBySession and BiDict::getId
DictSet(d, i, s) == [session |-> Extend(d.session, i, s), id |-> Extend(d.id, s, i)]
DictRemove(d, s) == [session |-> Without(d.session, d.id[s]), id |-> Without(d.id, s)]
DictId(d, s) == IF s \in DOMAIN d.id THEN d.id[s] ELSE 0

\* A command in its life: the arrays are live until its collective response.
\* given counts the responses, for is the request the first was taken for, and
\* made is what became of each item.
NewCommand(c, op, sessions, ids) ==
    [client |-> c, op |-> op, sessions |-> sessions, ids |-> ids,
     errs |-> [i \in DOMAIN sessions |-> "unset"],
     made |-> [i \in DOMAIN sessions |-> "pending"],
     given |-> 0, for |-> 0]

\* Nothing the client asked about these ids is unanswered.
Settled(c, ids) ==
    \A n \in ToSet(requests[c]) : ToSet(commands[n].ids) \cap ToSet(ids) = {}

Room == Len(msgs) + Len(engq) < MaxBacklog

MayCall(c, ids) ==
    /\ c \in live /\ Room
    /\ Len(commands) < MaxCommands
    /\ Patient => Settled(c, ids)

Issue(c, op, sessions, ids) ==
    LET n == Len(commands) + 1 IN
    /\ commands' = Append(commands, NewCommand(c, op, sessions, ids))
    /\ requests' = [requests EXCEPT ![c] = Append(@, n)]
    /\ msgs' = Append(msgs, [type |-> "command", n |-> n])
    /\ UNCHANGED <<engq, adapter, modem, up, live>>

\* locAPIAddGeofences: a session per fence, from generateSessionId.
AddGeofences(c, ids) ==
    LET session(i) == used.sessions + i
        sessions == [i \in DOMAIN ids |-> session(i)]
    IN /\ MayCall(c, ids) /\ ToSet(ids) \cap added[c] = {}
       /\ used' = [used EXCEPT !.sessions = @ + Len(ids)]
       /\ dict' = [dict EXCEPT ![c] =
                      FoldLeft(LAMBDA d, i : DictSet(d, ids[i], sessions[i]), @,
                               [i \in DOMAIN ids |-> i])]
       /\ added' = [added EXCEPT ![c] = @ \cup ToSet(ids)]
       /\ Issue(c, "add", sessions, ids)

\* The ids the client has a session for.
Mapped(c, ids) ==
    {[j \in DOMAIN q |-> ids[q[j]]] :
        q \in Ascending({i \in DOMAIN ids : ids[i] \in DOMAIN dict[c].session})}

\* The other commands pass on the sessions of those ids, if any.
OnSessions(c, op, ids, mapped) ==
    /\ MayCall(c, ids) /\ ToSet(ids) \subseteq added[c]
    /\ mapped # << >>
    /\ Issue(c, op, [j \in DOMAIN mapped |-> dict[c].session[mapped[j]]], mapped)

\* locAPIRemoveGeofences forgets the sessions at once.
RemoveGeofences(c, ids) ==
    /\ \E mapped \in Mapped(c, ids) :
          /\ OnSessions(c, "remove", ids, mapped)
          /\ dict' = [dict EXCEPT ![c] =
                         FoldLeft(LAMBDA d, i : DictRemove(d, dict[c].session[i]), @, mapped)]
    /\ added' = [added EXCEPT ![c] = @ \ ToSet(ids)]
    /\ UNCHANGED used

\* locAPIPauseGeofences, locAPIResumeGeofences and locAPIModifyGeofences
ChangeGeofences(c, op, ids) ==
    /\ \E mapped \in Mapped(c, ids) : OnSessions(c, op, ids, mapped)
    /\ UNCHANGED <<dict, added, used>>

\* LocationAPI::destroy
RemoveClientCommand(c) ==
    /\ c \in live /\ Room
    /\ Patient => requests[c] = << >>
    /\ live' = live \ {c}
    /\ msgs' = Append(msgs, [type |-> "removeClient", client |-> c])
    /\ UNCHANGED <<engq, adapter, modem, up, dict, requests, added, commands, used>>

\* onAddGeofencesCb: the ids whose add is reported to have failed are free again.
FailedAdds(d, a) ==
    {DictId(d, a.sessions[i]) : i \in {j \in DOMAIN a.errs : a.errs[j] # "ok"}}

\* onCollectiveResponseCb: whatever the response answers, it is taken for the
\* oldest request.
Respond(n, cmds) ==
    LET a == cmds[n]
        c == a.client
        q == requests[c]
        taken == IF c \in known /\ q # << >> THEN Head(q) ELSE 0
    IN /\ commands' = [cmds EXCEPT ![n].given = @ + 1, ![n].for = taken]
       /\ requests' = IF taken = 0 THEN requests ELSE [requests EXCEPT ![c] = Tail(@)]
       /\ added' = IF taken # 0 /\ commands[taken].op = "add"
                   THEN [added EXCEPT ![c] = @ \ FailedAdds(dict[c], a)] ELSE added

-----------------------------------------------------------------------------
(* The adapter's thread.                                                   *)

Receive(type) ==
    /\ msgs # << >> /\ Head(msgs).type = type
    /\ msgs' = Tail(msgs)

\* A call for the modem: the item it is for (0: none), and what a fence is to be.
Call(op, n, i, h, fence) == [op |-> op, n |-> n, i |-> i, h |-> h, fence |-> fence]

Key(fence) == <<fence.client, fence.session>>

\* saveGeofenceItem: as not paused.
SaveGeofenceItem(fence, h) ==
    /\ fences' = Extend(fences, h, [fence EXCEPT !.paused = FALSE])
    /\ handles' = Extend(handles, Key(fence), h)

RemoveHandleOnly(h) ==
    /\ handles' = IF h \in DOMAIN fences /\ Key(fences[h]) \in DOMAIN handles
                  THEN Without(handles, Key(fences[h])) ELSE handles
    /\ UNCHANGED fences

\* removeGeofenceItem
RemoveGeofenceItem(h) ==
    IF h \in DOMAIN fences /\ Key(fences[h]) \in DOMAIN handles
    THEN /\ handles' = Without(handles, Key(fences[h]))
         /\ fences' = Without(fences, h)
    ELSE UNCHANGED <<fences, handles>>

\* pauseGeofenceItem, resumeGeofenceItem and modifyGeofenceItem
PauseGeofenceItem(h, b) ==
    fences' = IF h \in DOMAIN fences THEN [fences EXCEPT ![h].paused = b] ELSE fences
ModifyGeofenceItem(h) ==
    fences' = IF h \in DOMAIN fences THEN [fences EXCEPT ![h].options = Modified] ELSE fences

\* MsgAddGeofences and its like: every item goes to the end of the call queue.
ProcCommand ==
    /\ Receive("command")
    /\ LET n == Head(msgs).n IN
       engq' = engq \o [i \in DOMAIN commands[n].sessions |-> Call("queue", n, i, 0, NoFence)]
    /\ UNCHANGED <<adapter, modem, up, client, commands, used>>

FenceOf(n, i) ==
    [NoFence EXCEPT !.client = commands[n].client, !.session = commands[n].sessions[i]]

\* "Send aggregated response on last item and cleanup"
Finish(n, i, cmds) ==
    IF i = Len(cmds[n].sessions) THEN Respond(n, cmds)
    ELSE commands' = cmds /\ UNCHANGED <<requests, added>>

ProcQueuedSilent ==
    /\ Receive("queued")
    /\ LET n == Head(msgs).n
           i == Head(msgs).i
           op == commands[n].op
           k == Key(FenceOf(n, i))
       IN IF op = "add" \/ k \in DOMAIN handles
          THEN /\ engq' = Append(engq, Call(op, n, i, IF op = "add" THEN 0 ELSE handles[k],
                                            FenceOf(n, i)))
               /\ commands' = [commands EXCEPT ![n].errs[i] = "ok"]
          ELSE /\ commands' = [commands EXCEPT ![n].errs[i] = "unknown"]
               /\ UNCHANGED engq
    /\ UNCHANGED <<adapter, modem, up, client, used>>

\* The continuation of addToCallQueue: look the handle up and make the call.
ProcQueued ==
    /\ Receive("queued")
    /\ LET n == Head(msgs).n
           i == Head(msgs).i
           op == commands[n].op
           k == Key(FenceOf(n, i))
       IN IF op = "add"
          THEN /\ engq' = Append(engq, Call("add", n, i, 0, FenceOf(n, i)))
               /\ UNCHANGED <<commands, requests, added>>
          ELSE IF k \in DOMAIN handles
          THEN /\ engq' = Append(engq, Call(op, n, i, handles[k], NoFence))
               /\ commands' = [commands EXCEPT ![n].errs[i] = "ok"]
               /\ UNCHANGED <<requests, added>>
          ELSE /\ Finish(n, i, [commands EXCEPT ![n].errs[i] = "unknown",
                                                ![n].made[i] = "unknown"])
               /\ UNCHANGED engq
    /\ UNCHANGED <<adapter, modem, up, live, dict, used>>

\* The maps after the modem's answer to a command.
Recorded(op, a) ==
    CASE op = "add" /\ a.ok -> SaveGeofenceItem(a.fence, a.h)
      [] op = "remove" /\ a.ok -> RemoveGeofenceItem(a.h)
      [] op \in {"pause", "resume"} /\ a.ok ->
            PauseGeofenceItem(a.h, op = "pause") /\ UNCHANGED handles
      [] op = "modify" /\ a.ok -> ModifyGeofenceItem(a.h) /\ UNCHANGED handles
      [] OTHER -> UNCHANGED <<fences, handles>>

Verdict(a) == IF a.ok THEN "ok" ELSE "failed"

\* The operations whose continuation writes the error only if the modem agreed.
SuccessOnly == {"resume", "modify"}
LeavesError(op, a) == op \in SuccessOnly /\ ~a.ok


\* A resume or a modification that fails leaves its item the error of the lookup,
\* which is success; and a resume that fails does not give the response, though it
\* be the last item's.
ProcAnswer ==
    /\ Receive("answer")
    /\ LET a == Head(msgs)
           op == commands[a.n].op
           cmds == [commands EXCEPT ![a.n].made[a.i] = Verdict(a),
                                    ![a.n].errs[a.i] = IF LeavesError(op, a) THEN @
                                                       ELSE Verdict(a)]
       IN /\ Recorded(op, a)
          /\ IF op = "resume" /\ ~a.ok
             THEN commands' = cmds /\ UNCHANGED <<requests, added>>
             ELSE Finish(a.n, a.i, cmds)
    /\ UNCHANGED <<engq, known, modem, up, live, dict, used>>

\* MsgRemoveClient: stopClientSessions forgets the handles at once, the fences
\* themselves when the modem has removed them.
ProcRemoveClient ==
    /\ Receive("removeClient")
    /\ LET c == Head(msgs).client
           mine == {s \in 1..used.sessions : <<c, s>> \in DOMAIN handles}
       IN /\ handles' = Restrict(handles, {k \in DOMAIN handles : k[1] # c})
          /\ \E q \in Ascending(mine) :
                engq' = engq \o [j \in DOMAIN q |->
                                    Call("remove", 0, 0, handles[<<c, q[j]>>], NoFence)]
          /\ known' = known \ {c}
    /\ UNCHANGED <<fences, modem, up, client, commands, used>>

\* The continuation of stopClientSessions.
ProcStopped ==
    /\ Receive("stopped")
    /\ fences' = IF Head(msgs).ok THEN Without(fences, Head(msgs).h) ELSE fences
    /\ UNCHANGED <<engq, known, handles, modem, up, client, commands, used>>

ProcEngineUpLowest ==
    /\ Receive("engineUp")
    /\ engq' = engq \o [j \in 1..(IF fences = << >> THEN 0 ELSE 1) |->
                          Call("restore", 0, 0, 0, fences[Min(DOMAIN fences)])]
    /\ fences' = << >> /\ handles' = << >>
    /\ UNCHANGED <<known, modem, up, client, commands, used>>

\* restartGeofences: both maps are cleared and every fence is added again.
ProcEngineUp ==
    /\ Receive("engineUp")
    /\ \E q \in Ascending(DOMAIN fences) :
          engq' = engq \o [j \in DOMAIN q |-> Call("restore", 0, 0, 0, fences[q[j]])]
    /\ fences' = << >> /\ handles' = << >>
    /\ UNCHANGED <<known, modem, up, client, commands, used>>

\* A fence that was paused is paused again, and saved as one that is not.
ProcRestored ==
    /\ Receive("restored")
    /\ LET a == Head(msgs) IN
       /\ IF a.ok THEN SaveGeofenceItem(a.fence, a.h) ELSE UNCHANGED <<fences, handles>>
       /\ engq' = IF a.ok /\ a.fence.paused
                  THEN Append(engq, Call("repause", 0, 0, a.h, NoFence)) ELSE engq
    /\ UNCHANGED <<known, modem, up, client, commands, used>>

Proc ==
    \/ ProcCommand \/ ProcQueued \/ ProcAnswer
    \/ ProcRemoveClient \/ ProcStopped \/ ProcEngineUp \/ ProcRestored

-----------------------------------------------------------------------------
(* The LocApi's thread and the modem.                                      *)

IsAdd(e) == e.op \in {"add", "restore"}

\* The answer to a call, or none if it has no continuation.
Answer(e, h, ok) ==
    CASE e.op = "repause" -> << >>
      [] e.op = "restore" -> <<[type |-> "restored", h |-> h, fence |-> e.fence, ok |-> ok]>>
      [] e.op = "remove" /\ e.n = 0 -> <<[type |-> "stopped", h |-> h, ok |-> ok]>>
      [] OTHER -> <<[type |-> "answer", n |-> e.n, i |-> e.i, h |-> h, fence |-> e.fence,
                     ok |-> ok]>>

\* The fences of the modem after a call it accepts. A fence is added unpaused.
Monitors(e, h) ==
    CASE IsAdd(e) -> Extend(modem, h, [e.fence EXCEPT !.paused = FALSE])
      [] e.op = "remove" -> Without(modem, h)
      [] e.op \in {"pause", "repause"} -> [modem EXCEPT ![h].paused = TRUE]
      [] e.op = "resume" -> [modem EXCEPT ![h].paused = FALSE]
      [] e.op = "modify" -> [modem EXCEPT ![h].options = Modified]

\* addToCallQueue: the continuation goes back to the adapter.
Queue ==
    /\ engq # << >> /\ Head(engq).op = "queue"
    /\ engq' = Tail(engq)
    /\ msgs' = Append(msgs, [type |-> "queued", n |-> Head(engq).n, i |-> Head(engq).i])
    /\ UNCHANGED <<adapter, modem, up, client, commands, used>>

IsCall == engq # << >> /\ Head(engq).op \notin {"queue", "open"}

Accept ==
    /\ IsCall /\ up
    /\ LET e == Head(engq)
           h == IF IsAdd(e) THEN used.handles + 1 ELSE e.h
       IN /\ IsAdd(e) \/ h \in DOMAIN modem
          /\ modem' = Monitors(e, h)
          /\ msgs' = msgs \o Answer(e, h, TRUE)
          /\ used' = IF IsAdd(e) THEN [used EXCEPT !.handles = @ + 1] ELSE used
    /\ engq' = Tail(engq)
    /\ UNCHANGED <<adapter, up, client, commands>>

\* A call fails if the modem is not open or does not know the handle, or as the
\* modem sees fit.
Refuse ==
    /\ IsCall
    /\ LET e == Head(engq)
           must == ~up \/ (~IsAdd(e) /\ e.h \notin DOMAIN modem)
       IN /\ must \/ (e.op \in Refusable /\ used.refusals < MaxRefusals)
          /\ msgs' = msgs \o Answer(e, e.h, FALSE)
          /\ used' = IF must THEN used ELSE [used EXCEPT !.refusals = @ + 1]
    /\ engq' = Tail(engq)
    /\ UNCHANGED <<adapter, modem, up, client, commands>>

\* LocSsrMsg: the adapter is told that the engine is up.
Open ==
    /\ engq # << >> /\ Head(engq).op = "open"
    /\ engq' = Tail(engq)
    /\ up' = TRUE
    /\ msgs' = Append(msgs, [type |-> "engineUp"])
    /\ UNCHANGED <<adapter, modem, client, commands, used>>

LocApi == Queue \/ Accept \/ Refuse \/ Open

\* The modem restarts: handleEngineDownEvent queues the LocSsrMsg.
Crash ==
    /\ up /\ used.crashes < MaxCrashes
    /\ used' = [used EXCEPT !.crashes = @ + 1]
    /\ up' = FALSE
    /\ modem' = << >>
    /\ engq' = Append(engq, Call("open", 0, 0, 0, NoFence))
    /\ UNCHANGED <<msgs, adapter, client, commands>>

Calls ==
    \/ \E c \in Clients, ids \in Batches :
          \/ AddGeofences(c, ids) \/ RemoveGeofences(c, ids)
          \/ \E op \in {"pause", "resume", "modify"} : ChangeGeofences(c, op, ids)
    \/ \E c \in Clients : RemoveClientCommand(c)

Next == Calls \/ Proc \/ LocApi \/ Crash

Spec == Init /\ [][Next]_vars

\* The two message threads keep running: each has a step to take exactly when its
\* queue is not empty.
FairSpec ==
    /\ Spec
    /\ []<>(msgs = << >>) \/ []<><<Proc>>_vars
    /\ []<>(engq = << >>) \/ []<><<LocApi>>_vars

-----------------------------------------------------------------------------
(* Properties.                                                             *)

FenceRecords ==
    [client : Clients, session : Nat \ {0}, options : {Default, Modified}, paused : BOOLEAN]

\* The maps, the queues and the commands hold what the threads expect of them.
TypeOK ==
    /\ known \subseteq Clients /\ live \subseteq known
    /\ \A f \in {fences, modem} :
          \A h \in DOMAIN f : h \in 1..used.handles /\ f[h] \in FenceRecords
    /\ DOMAIN handles \subseteq Clients \X (1..used.sessions)
    /\ \A c \in Clients :
          /\ dict[c].session \in [DOMAIN dict[c].session -> 1..used.sessions]
          /\ dict[c].id \in [DOMAIN dict[c].id -> Ids]
          /\ added[c] \subseteq Ids
          /\ ToSet(requests[c]) \subseteq DOMAIN commands
    /\ \A n \in DOMAIN commands : commands[n].given \in {0, 1}
    /\ \A j \in DOMAIN engq : engq[j].n \in DOMAIN commands \cup {0}

\* mGeofences and mGeofenceIds describe the same fences: every handle a client's
\* command would be made with stands for the fence it names, and every fence of a
\* client the adapter knows can be found by its name.
MapsAgree ==
    /\ \A k \in DOMAIN handles : handles[k] \in DOMAIN fences /\ Key(fences[handles[k]]) = k
    /\ \A h \in DOMAIN fences : fences[h].client \in known =>
          Key(fences[h]) \in DOMAIN handles /\ handles[Key(fences[h])] = h

Idle == msgs = << >> /\ engq = << >>

\* When everything has settled, modem restarts included, the modem monitors no
\* fence that is not in the adapter's map, and it monitors every one of a client the
\* adapter knows, with the options and the pause the adapter recorded.
ModemFollowsMap ==
    Idle => /\ DOMAIN modem \subseteq DOMAIN fences
            /\ \A h \in DOMAIN fences : fences[h].client \in known =>
                  /\ h \in DOMAIN modem
                  /\ Key(modem[h]) = Key(fences[h]) /\ modem[h].options = fences[h].options
                  /\ fences[h].paused => modem[h].paused

\* The sessions command n is about and that op was asked for at some time.
Asked(op) ==
    UNION {ToSet(commands[n].sessions) : n \in {m \in 1..Len(commands) : commands[m].op = op}}

\* The sessions whose clients were told that op had succeeded.
Told(op) ==
    UNION {{commands[n].sessions[i] : i \in {j \in DOMAIN commands[n].errs :
                                                commands[n].errs[j] = "ok"}} :
           n \in {m \in 1..Len(commands) : commands[m].op = op /\ commands[m].for # 0}}

\* A fence whose client was told that it had been added, and has not asked for its
\* removal, is monitored again when everything has settled.
FencesSurvive ==
    Idle => \A s \in Told("add") \ Asked("remove") :
               \/ \E h \in DOMAIN modem : modem[h].session = s
               \/ \E n \in 1..Len(commands) :
                     s \in ToSet(commands[n].sessions) /\ commands[n].client \notin live


\* "LOCATION_ERROR_SUCCESS if successful" (LocationAPI.h, of the calls that remove,
\* modify, pause and resume geofences): an item is told to have succeeded only if the
\* modem did what was asked. It does not hold of a modification that is refused, nor
\* of a resume that is refused when the last item of its array is not.
SuccessIsTrue ==
    \A n \in 1..Len(commands) : commands[n].given > 0 =>
        \A i \in DOMAIN commands[n].made :
            commands[n].errs[i] = "ok" => commands[n].made[i] = "ok"

\* "collectiveResponseCallback to match command with response" (LocationAPI.h): a
\* response is taken for the command it answers.
ResponsesMatch ==
    \A n \in 1..Len(commands) : commands[n].for \in {0, n}

Waiting(n) ==
    n \in DOMAIN commands /\ commands[n].given = 0 /\ commands[n].client \in live

\* "collectiveResponseCallback is called for every geofence API call"
\* (LocationDataTypes.h), as long as the client stays.
EveryCommandAnswered == \A n \in 1..MaxCommands : Waiting(n) ~> ~Waiting(n)

RefusedResume(n) ==
    n \in DOMAIN commands /\ commands[n].op = "resume" /\ "failed" \in ToSet(commands[n].made)

\* The same but for a resume that the modem refused.
CallsAnswered == \A n \in 1..MaxCommands : Waiting(n) ~> ~Waiting(n) \/ RefusedResume(n)

=============================================================================
