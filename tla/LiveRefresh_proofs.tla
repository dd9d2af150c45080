--------------------------- MODULE LiveRefresh_proofs ---------------------------
(***************************************************************************)
(* Two facts about the hub and the page, for any number of calls that      *)
(* change the store, polls, sockets and events: a client's done channel is *)
(* closed once, and what is shown is never replaced by an older refresh.   *)
(***************************************************************************)
EXTENDS LiveRefresh, TLAPS

Links == {"new", "up", "down", "gone"}

\* What the hub knows of a socket.  One that was not opened yet is no client and was not
\* closed; closing takes a client out of the hub; only an opened socket is ever served.
Hub ==
    /\ closes \in [Sockets -> Nat]
    /\ link \in [Sockets -> Links]
    /\ \A s \in Sockets : link[s] = "new" => s \notin clients /\ closes[s] = 0
    /\ ClosedOnce

\* What is shown came with a refresh that has begun.
Shown == /\ sequence \in Nat /\ rows.from \in Nat /\ rows.from <= sequence

\* A removal; the link may change, but not back to "new".
LEMMA RemoveHub ==
    ASSUME Hub, NEW s \in Sockets, Remove(s),
           link' \in [Sockets -> Links],
           \A k \in Sockets : link'[k] = "new" => link[k] = "new"
    PROVE  Hub'
<1>1. CASE s \in clients
  <2>1. /\ clients' = clients \ {s} /\ closes' = [closes EXCEPT ![s] = @ + 1]
    BY <1>1 DEF Remove
  <2>2. closes[s] = 0
    BY <1>1 DEF Hub, ClosedOnce
  <2>3. /\ closes' \in [Sockets -> Nat] /\ closes'[s] = 1
        /\ \A k \in Sockets : k # s => closes'[k] = closes[k]
    BY <2>1, <2>2 DEF Hub
  <2> QED  BY <1>1, <2>1, <2>3 DEF Hub, ClosedOnce
<1>2. CASE s \notin clients
  BY <1>2 DEF Remove, Hub, ClosedOnce
<1> QED  BY <1>1, <1>2

LEMMA AddHub == ASSUME Hub, Add, socket \in Sockets PROVE Hub'
<1>1. /\ link[socket] = "new" /\ clients' = clients \cup {socket} /\ UNCHANGED closes
      /\ link' = [link EXCEPT ![socket] = "up"]
  BY DEF Add
<1>2. link' \in [Sockets -> Links] /\ closes[socket] = 0
  BY <1>1 DEF Hub, Links
<1> QED  BY <1>1, <1>2 DEF Hub, ClosedOnce

LEMMA BreakHub == ASSUME Hub, Break, socket \in Sockets PROVE Hub'
<1>1. /\ link[socket] \in {"new", "up"} /\ UNCHANGED <<clients, closes>>
      /\ link' = [link EXCEPT ![socket] = IF @ = "up" THEN "down" ELSE "gone"]
  BY DEF Break
<1>2. link' \in [Sockets -> Links] /\ \A s \in Sockets : link'[s] = "new" => link[s] = "new"
  BY <1>1 DEF Hub, Links
<1> QED  BY <1>1, <1>2 DEF Hub, ClosedOnce

\* The hub's clients change with the sockets only.
LEMMA HubKept ==
    ASSUME Next, ~Add, ~Break,
           \A s \in Sockets : /\ ~WriterFails(s) /\ ~ReaderEnds(s)
                              /\ \A c \in Changers : ~DropSlow(c, s)
    PROVE  UNCHANGED <<clients, closes, link>>
  BY DEF Next, Publish, HubStep, Fetch, Clear, Broadcast, Done, Enqueue, Skip, Commit, Receive,
         Reconnect, TimerFires, Expire, Hit, Read, Fill, Show, ReadAgents, RefreshFails, Poll,
         PollAnswered, PollFails, hubVars

LEMMA HubStays == ASSUME Hub, socket \in Sockets, [Next]_vars PROVE Hub'
<1>1. CASE Add
  BY <1>1, AddHub
<1>2. CASE Break
  BY <1>2, BreakHub
<1>3. ASSUME NEW s \in Sockets, WriterFails(s) PROVE Hub'
  <2>1. Remove(s) /\ link' = link /\ link[s] # "new"
    BY <1>3 DEF WriterFails
  <2> QED  BY <2>1, RemoveHub DEF Hub
<1>4. ASSUME NEW s \in Sockets, ReaderEnds(s) PROVE Hub'
  <2>1. Remove(s) /\ link' = [link EXCEPT ![s] = "gone"]
    BY <1>4 DEF ReaderEnds
  <2>2. /\ link' \in [Sockets -> Links]
        /\ \A k \in Sockets : link'[k] = "new" => link[k] = "new"
    BY <2>1 DEF Hub, Links
  <2> QED  BY <2>1, <2>2, RemoveHub
<1>5. ASSUME NEW c \in Changers, NEW s \in Sockets, DropSlow(c, s) PROVE Hub'
  <2>1. Remove(s) /\ link' = [link EXCEPT ![s] = IF @ = "up" THEN "down" ELSE @]
    BY <1>5 DEF DropSlow
  <2>2. /\ link' \in [Sockets -> Links]
        /\ \A k \in Sockets : link'[k] = "new" => link[k] = "new"
    BY <2>1 DEF Hub, Links
  <2> QED  BY <2>1, <2>2, RemoveHub
<1>6. CASE UNCHANGED vars
  BY <1>6 DEF vars, hubVars, Hub, ClosedOnce
<1>7. CASE UNCHANGED <<clients, closes, link>>
  BY <1>7 DEF Hub, ClosedOnce
<1> QED  BY <1>1, <1>2, <1>3, <1>4, <1>5, <1>6, <1>7, HubKept

LEMMA SocketStays == ASSUME socket \in Sockets, [Next]_vars PROVE socket' \in Sockets
<1>1. CASE Reconnect
  BY <1>1 DEF Reconnect
<1>2. Reconnect \/ socket' = socket
  BY DEF Next, Publish, HubStep, Fetch, Clear, Broadcast, Done, Enqueue, Skip, DropSlow, Commit, Add, Break,
         Receive, TimerFires, Show, WriterFails, ReaderEnds, Expire, Hit, Read, Fill, ReadAgents,
         RefreshFails, Poll, PollAnswered, PollFails, pageVars, vars
<1> QED  BY <1>1, <1>2

LEMMA ShownStays == ASSUME Shown, [Next]_vars PROVE Shown' /\ rows'.from >= rows.from
<1>1. CASE Receive \/ TimerFires
  <2>1. sequence' \in {sequence, sequence + 1} /\ UNCHANGED rows
    BY <1>1 DEF Receive, TimerFires, Begin
  <2> QED  BY <2>1 DEF Shown
<1>2. ASSUME NEW n \in Refreshes, Show(n) PROVE Shown' /\ rows'.from >= rows.from
  <2>1. UNCHANGED sequence /\ (rows'.from = sequence \/ UNCHANGED rows)
    BY <1>2 DEF Show
  <2> QED  BY <2>1 DEF Shown
<1>3. CASE UNCHANGED <<sequence, rows>>
  BY <1>3 DEF Shown
<1>4. Receive \/ TimerFires \/ (\E n \in Refreshes : Show(n)) \/ UNCHANGED <<sequence, rows>>
  BY DEF Next, Publish, HubStep, Fetch, Clear, Broadcast, Done, Enqueue, Skip, DropSlow, Commit, Add, Break,
         Reconnect, WriterFails, ReaderEnds, Expire, Hit, Read, Fill, ReadAgents, RefreshFails, Poll,
         PollAnswered, PollFails, pageVars, vars
<1> QED  BY <1>1, <1>2, <1>3, <1>4

\* The done channel of a client is closed once, by whichever of the broadcasts, the reader
\* and the writer removes it first (realtimeHub.remove).
THEOREM ClosedOnceAlways == Spec => []ClosedOnce
<1>1. Init => Hub /\ socket \in Sockets
  BY RefreshAssumption DEF Init, Hub, Links, Sockets, ClosedOnce
<1>2. Hub /\ socket \in Sockets /\ [Next]_vars => (Hub /\ socket \in Sockets)'
  BY HubStays, SocketStays
<1>3. Hub => ClosedOnce
  BY DEF Hub
<1> QED  BY <1>1, <1>2, <1>3, PTL DEF Spec

\* A refresh never replaces what a later one has shown (dashboard.js:1254).
THEOREM LatestStaysAlways == Spec => LatestStays
<1>1. Init => Shown
  BY DEF Init, Shown
<1>2. Shown /\ [Next]_vars => Shown' /\ rows'.from >= rows.from
  BY ShownStays
<1> QED  BY <1>1, <1>2, PTL DEF Spec, LatestStays
=============================================================================
