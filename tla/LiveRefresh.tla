---------------------------- MODULE LiveRefresh ----------------------------
(***************************************************************************)
(* How a change of the store reaches an open dashboard page.               *)
(*                                                                         *)
(* A call that changes the store (a report, a deletion) commits, clears    *)
(* the results cache and broadcasts an event to the hub's clients.  The    *)
(* page (dashboard.js) answers an event with a refresh: it fetches results *)
(* and agents, and shows them unless a newer refresh has begun.  Every 15  *)
(* seconds it polls the agents on its own.  A socket that closes is opened *)
(* again after 3 seconds.                                                  *)
(*                                                                         *)
(* Data is a version number, for an answer that of the store at the first  *)
(* statement of its read.  The results cache is reduced to the page's own  *)
(* entry; module ResultsCache has the whole of it.                         *)
(***************************************************************************)
EXTENDS Integers, Sequences

CONSTANTS
    Changers,    \* concurrent calls that change the store
    Polls,       \* agents polls that may be under way at once
    QueueSize,   \* room in a client's send channel
    MaxVersion,  \* bound: changes of the store
    MaxFaults    \* bound: broken connections and failed fetches

ASSUME RefreshAssumption ==
    /\ QueueSize \in Nat \ {0} /\ MaxVersion \in Nat /\ MaxFaults \in Nat

\* A socket is given up at a fault or when it overflows, once per event at most.
Sockets == 1 .. MaxVersion + MaxFaults + 1
\* A refresh at the start and one for each event.
Refreshes == 1 .. MaxVersion + 1

VARIABLES
    db,        \* version of the store
    cache,     \* the page's entry of the results cache, -1 for none
    change,    \* where each call stands: its stage, its event, the clients still to serve
    clients,   \* h.clients
    send,      \* the send channel of each client
    closes,    \* how often the client's done channel was closed
    link,      \* each socket as the network sees it: new, up, down, gone
    socket,    \* the page's socket
    timer,     \* liveRefreshTimer is set
    sequence,  \* dashboardRefreshSequence
    refresh,   \* the refreshes and how far their two fetches are
    poll,      \* the agents polls: the version read, -1 for none
    rows,      \* version of the rows shown, and the refresh they came with
    agents,    \* version of the agents' names and statuses shown (what agentHash compares)
    missed,    \* history: an event of CurrentUnlessMissed happened
    faults     \* history: faults so far

serverVars == <<db, cache, change>>
hubVars == <<clients, send, closes, link>>
pageVars == <<socket, timer, sequence, refresh, poll, rows, agents>>
vars == <<serverVars, hubVars, pageVars, missed, faults>>

NoChange == [stage |-> "idle", event |-> "none", to |-> {}]
NotBegun == [stage |-> "none", version |-> -1, overtaken |-> FALSE, agents |-> -1]
Begun == [NotBegun EXCEPT !.stage = "get"]

\* The page has just been loaded: it begins a refresh and opens its first socket.
Init ==
    /\ db = 0 /\ cache = -1 /\ change = [c \in Changers |-> NoChange]
    /\ clients = {} /\ send = [s \in Sockets |-> << >>]
    /\ closes = [s \in Sockets |-> 0]
    /\ link = [s \in Sockets |-> "new"]
    /\ socket = 1 /\ timer = FALSE
    /\ sequence = 1 /\ refresh = [n \in Refreshes |-> IF n = 1 THEN Begun ELSE NotBegun]
    /\ poll = [p \in Polls |-> -1]
    /\ rows = [version |-> -1, from |-> 0] /\ agents = -1
    /\ missed = FALSE /\ faults = 0

Fault == faults < MaxFaults /\ faults' = faults + 1
----------------------------------------------------------------------------
(* The handlers that change the store. *)

Commit(c, event) ==
    /\ change[c] = NoChange /\ db < MaxVersion
    /\ db' = db + 1
    /\ change' = [change EXCEPT ![c] = [stage |-> "clear", event |-> event, to |-> {}]]
    /\ UNCHANGED <<cache, hubVars, pageVars, missed, faults>>

\* Faulty variant of Clear: the page's entry has another key and stays.
ClearOthers(c) ==
    /\ change[c].stage = "clear"
    /\ change' = [change EXCEPT ![c].stage = "broadcast"]
    /\ UNCHANGED <<db, cache, hubVars, pageVars, missed, faults>>

Clear(c) ==
    /\ change[c].stage = "clear"
    /\ cache' = -1
    /\ refresh' = [n \in Refreshes |-> IF refresh[n].stage = "set"
                                       THEN [refresh[n] EXCEPT !.overtaken = TRUE]
                                       ELSE refresh[n]]
    /\ change' = [change EXCEPT ![c].stage = "broadcast"]
    /\ UNCHANGED <<db, hubVars, socket, timer, sequence, poll, rows, agents, missed, faults>>

\* broadcastBytes copies the set of clients under the hub's mutex.
Broadcast(c) ==
    /\ change[c].stage = "broadcast"
    /\ change' = [change EXCEPT ![c].stage = "send", ![c].to = clients]
    /\ missed' = (missed \/ socket \notin clients)
    /\ UNCHANGED <<db, cache, hubVars, pageVars, faults>>

Served(c, s) == change' = [change EXCEPT ![c].to = @ \ {s}]

\* Room in the channel.
Enqueue(c, s) ==
    /\ s \in change[c].to \cap clients /\ Len(send[s]) < QueueSize
    /\ send' = [send EXCEPT ![s] = Append(@, change[c].event)]
    /\ Served(c, s)
    /\ UNCHANGED <<db, cache, clients, closes, link, pageVars, missed, faults>>

\* done is closed: the event is skipped, or put into a channel nobody reads.
Skip(c, s) ==
    /\ s \in change[c].to /\ closes[s] > 0
    /\ Served(c, s)
    /\ UNCHANGED <<db, cache, hubVars, pageVars, missed, faults>>

\* Faulty variant of Remove: without a look at h.clients.
RemoveAlways(s) ==
    /\ clients' = clients \ {s}
    /\ closes' = [closes EXCEPT ![s] = @ + 1]
    /\ send' = [send EXCEPT ![s] = << >>]

\* remove: once per client; it closes done, and nobody reads send any more.
Remove(s) ==
    IF s \in clients
    THEN /\ clients' = clients \ {s}
         /\ closes' = [closes EXCEPT ![s] = @ + 1]
         /\ send' = [send EXCEPT ![s] = << >>]
    ELSE UNCHANGED <<clients, closes, send>>

\* A full channel: the client is too slow and is dropped.
DropSlow(c, s) ==
    /\ s \in change[c].to /\ Len(send[s]) = QueueSize /\ closes[s] = 0
    /\ Remove(s)
    /\ link' = [link EXCEPT ![s] = IF @ = "up" THEN "down" ELSE @]
    /\ missed' = (missed \/ s = socket)
    /\ Served(c, s)
    /\ UNCHANGED <<db, cache, pageVars, faults>>

Done(c) ==
    /\ change[c].stage = "send" /\ change[c].to = {}
    /\ change' = [change EXCEPT ![c] = NoChange]
    /\ UNCHANGED <<db, cache, hubVars, pageVars, missed, faults>>
----------------------------------------------------------------------------
(* Sockets. *)

\* handleWebSocket upgrades the connection and adds the client.
Add ==
    /\ link[socket] = "new"
    /\ link' = [link EXCEPT ![socket] = "up"]
    /\ send' = [send EXCEPT ![socket] = <<"connected">>]
    /\ clients' = clients \cup {socket}
    /\ UNCHANGED <<serverVars, closes, pageVars, missed, faults>>

\* The connection breaks, or cannot be opened.
Break ==
    /\ link[socket] \in {"new", "up"}
    /\ Fault
    /\ link' = [link EXCEPT ![socket] = IF @ = "up" THEN "down" ELSE "gone"]
    /\ missed' = TRUE
    /\ UNCHANGED <<serverVars, clients, send, closes, pageVars>>

\* The writer or a ping fails.
WriterFails(s) ==
    /\ link[s] = "down" /\ s \in clients
    /\ Remove(s)
    /\ UNCHANGED <<serverVars, link, pageVars, missed, faults>>

\* The reading loop ends: handleWebSocket returns, and its deferred remove runs.
ReaderEnds(s) ==
    /\ link[s] = "down"
    /\ Remove(s)
    /\ link' = [link EXCEPT ![s] = "gone"]
    /\ UNCHANGED <<serverVars, pageVars, missed, faults>>

\* onclose, and 3 seconds later connectLiveRefresh.  Nothing is fetched.
Reconnect ==
    /\ link[socket] \in {"down", "gone"} /\ socket + 1 \in Sockets
    /\ socket' = socket + 1
    /\ UNCHANGED <<serverVars, hubVars, timer, sequence, refresh, poll, rows, agents, missed, faults>>

\* Begins a refresh.
Begin ==
    /\ sequence' = sequence + 1
    /\ refresh' = [refresh EXCEPT ![sequence + 1] = Begun]

\* runWriter writes the next message and the page handles it.
Receive ==
    /\ link[socket] = "up" /\ socket \in clients /\ send[socket] # << >>
    /\ send' = [send EXCEPT ![socket] = Tail(@)]
    /\ LET message == Head(send[socket])
       IN  /\ timer' = (timer \/ message = "results")
           /\ IF message = "refresh" THEN Begin ELSE UNCHANGED <<sequence, refresh>>
    /\ UNCHANGED <<serverVars, clients, closes, link, socket, poll, rows, agents, missed, faults>>
----------------------------------------------------------------------------
(* Refreshes and polls of the page. *)

\* 120 ms after the last of a series of events.
TimerFires ==
    /\ timer /\ timer' = FALSE
    /\ Begin
    /\ UNCHANGED <<serverVars, hubVars, socket, poll, rows, agents, missed, faults>>

\* The server answers the results fetch from its cache ...
Hit(n) ==
    /\ refresh[n].stage = "get" /\ cache # -1
    /\ refresh' = [refresh EXCEPT ![n].stage = "ok", ![n].version = cache]
    /\ UNCHANGED <<serverVars, hubVars, socket, timer, sequence, poll, rows, agents, missed, faults>>

\* ... or from the store,
Read(n) ==
    /\ refresh[n].stage = "get" /\ cache = -1
    /\ refresh' = [refresh EXCEPT ![n].stage = "set", ![n].version = db]
    /\ UNCHANGED <<serverVars, hubVars, socket, timer, sequence, poll, rows, agents, missed, faults>>

\* and then puts the answer into the cache.
Fill(n) ==
    /\ refresh[n].stage = "set"
    /\ cache' = refresh[n].version
    /\ refresh' = [refresh EXCEPT ![n].stage = "ok", ![n].overtaken = FALSE]
    /\ missed' = (missed \/ refresh[n].overtaken)
    /\ UNCHANGED <<db, change, hubVars, socket, timer, sequence, poll, rows, agents, faults>>

Expire ==
    /\ cache # -1 /\ cache' = -1
    /\ UNCHANGED <<db, change, hubVars, pageVars, missed, faults>>

\* The other fetch of the refresh, handleAgents, which has no cache.
ReadAgents(n) ==
    /\ refresh[n].stage \in {"get", "set", "ok"} /\ refresh[n].agents = -1
    /\ refresh' = [refresh EXCEPT ![n].agents = db]
    /\ UNCHANGED <<serverVars, hubVars, socket, timer, sequence, poll, rows, agents, missed, faults>>

\* Faulty variant of Show: the sequence number is not compared.
ShowAlways(n) ==
    /\ refresh[n].stage = "ok" /\ refresh[n].agents # -1
    /\ refresh' = [refresh EXCEPT ![n] = NotBegun]
    /\ rows' = [version |-> refresh[n].version, from |-> n] /\ agents' = refresh[n].agents
    /\ UNCHANGED <<serverVars, hubVars, socket, timer, sequence, poll, missed, faults>>

\* Both fetches have answered: the page shows them unless a later refresh has begun.
Show(n) ==
    /\ refresh[n].stage = "ok" /\ refresh[n].agents # -1
    /\ refresh' = [refresh EXCEPT ![n] = NotBegun]
    /\ IF n = sequence
       THEN rows' = [version |-> refresh[n].version, from |-> n] /\ agents' = refresh[n].agents
       ELSE UNCHANGED <<rows, agents>>
    /\ UNCHANGED <<serverVars, hubVars, socket, timer, sequence, poll, missed, faults>>

\* handleRefreshError shows the error; nothing tries again.
RefreshFails(n) ==
    /\ refresh[n].stage # "none"
    /\ Fault
    /\ refresh' = [refresh EXCEPT ![n] = NotBegun]
    /\ missed' = TRUE
    /\ UNCHANGED <<serverVars, hubVars, socket, timer, sequence, poll, rows, agents>>

\* The interval fires whether or not the last poll was answered.
Poll(p) ==
    /\ poll[p] = -1
    /\ poll' = [poll EXCEPT ![p] = db]
    /\ UNCHANGED <<serverVars, hubVars, socket, timer, sequence, refresh, rows, agents, missed, faults>>

\* Faulty variant of PollAnswered: only a refresh may replace what is shown.
PollAnsweredOnce(p) ==
    /\ poll[p] # -1
    /\ agents' = IF agents = -1 THEN poll[p] ELSE agents
    /\ poll' = [poll EXCEPT ![p] = -1]
    /\ UNCHANGED <<serverVars, hubVars, socket, timer, sequence, refresh, rows, missed, faults>>

\* The answer replaces what is shown if its hash differs, whatever else has been shown
\* meanwhile; with equal hashes the names and statuses are those of the answer anyway.
PollAnswered(p) ==
    /\ poll[p] # -1
    /\ agents' = poll[p]
    /\ poll' = [poll EXCEPT ![p] = -1]
    /\ UNCHANGED <<serverVars, hubVars, socket, timer, sequence, refresh, rows, missed, faults>>

PollFails(p) ==
    /\ poll[p] # -1
    /\ Fault
    /\ poll' = [poll EXCEPT ![p] = -1]
    /\ UNCHANGED <<serverVars, hubVars, socket, timer, sequence, refresh, rows, agents, missed>>
----------------------------------------------------------------------------
Publish(c) ==
    \/ Clear(c) \/ Broadcast(c) \/ Done(c)
    \/ \E s \in Sockets : Enqueue(c, s) \/ Skip(c, s) \/ DropSlow(c, s)

HubStep == Add \/ Receive \/ Reconnect \/ \E s \in Sockets : WriterFails(s) \/ ReaderEnds(s)

Fetch(n) == Hit(n) \/ Read(n) \/ Fill(n) \/ Show(n)

Next ==
    \/ \E c \in Changers :
         \/ Publish(c)
         \/ \E event \in {"results", "refresh"} : Commit(c, event)
    \/ HubStep \/ TimerFires \/ Expire \/ Break
    \/ \E n \in Refreshes : Fetch(n) \/ ReadAgents(n) \/ RefreshFails(n)
    \/ \E p \in Polls : Poll(p) \/ PollAnswered(p) \/ PollFails(p)

\* Handlers end, sockets and timers work, every fetch is answered.  No change of the
\* store is owed, and no fault.
Fairness ==
    /\ \A c \in Changers : WF_vars(Publish(c))
    /\ WF_vars(Add) /\ WF_vars(Receive) /\ WF_vars(Reconnect) /\ WF_vars(TimerFires)
    /\ \A s \in Sockets : WF_vars(ReaderEnds(s))
    /\ \A n \in Refreshes : WF_vars(Fetch(n)) /\ WF_vars(ReadAgents(n))
    /\ \A p \in Polls : WF_vars(Poll(p) \/ PollAnswered(p))

Spec == Init /\ [][Next]_vars
FairSpec == Spec /\ Fairness
----------------------------------------------------------------------------
(* Properties. *)

\* Every variable has its type, and nothing read is newer than the store.
TypeOK ==
    /\ db \in 0 .. MaxVersion /\ cache \in -1 .. db
    /\ change \in [Changers -> [stage : {"idle", "clear", "broadcast", "send"},
                                event : {"none", "results", "refresh"}, to : SUBSET Sockets]]
    /\ clients \subseteq Sockets
    /\ \A s \in Sockets : Len(send[s]) <= QueueSize
    /\ link \in [Sockets -> {"new", "up", "down", "gone"}]
    /\ socket \in Sockets /\ timer \in BOOLEAN /\ sequence \in Refreshes
    /\ refresh \in [Refreshes -> [stage : {"none", "get", "set", "ok"}, version : -1 .. db,
                                  overtaken : BOOLEAN, agents : -1 .. db]]
    /\ poll \in [Polls -> -1 .. db]
    /\ rows \in [version : -1 .. db, from : 0 .. sequence] /\ agents \in -1 .. db
    /\ missed \in BOOLEAN /\ faults \in 0 .. MaxFaults

\* The done channel of a client is closed once, by whichever of the broadcasts, the
\* reader and the writer removes it first; a second close would end the process.
ClosedOnce == \A s \in Sockets : closes[s] <= (IF s \in clients THEN 0 ELSE 1)

\* A refresh never replaces what a later one has shown (dashboard.js:1254).
LatestStays == [][rows'.from >= rows.from]_vars

\* When the changes stop, the page comes to show the current rows, unless one of these
\* happened on the way: a socket broke or was dropped, an event was broadcast while the
\* page had no socket in the hub, a fetch failed, or the cache was filled by a read that
\* a clear had overtaken.
CurrentUnlessMissed == <>[](missed \/ rows.version = db)

\* The agents' names and statuses are current in the end whatever was missed: the poll
\* repairs them, also after a late answer that replaced a newer one.
AgentsCatchUp == <>[](agents = db)
============================================================================
