------------------------ MODULE DashboardData_proofs ------------------------
(***************************************************************************)
(* Proofs about a dashboard answer.                                        *)
(*                                                                         *)
(* First the query that is streamed for it: the order of what is           *)
(* delivered, and that nothing is skipped, whatever happens to the tables  *)
(* between two pages.  Then the aggregation, from the sums and listings it *)
(* is written with to what it keeps of every series.  Last the memory: its *)
(* bound, its sums, and the points each series is drawn with.              *)
(***************************************************************************)
EXTENDS DashboardData, FiniteSetTheorems, WellFoundedInduction, TLAPS

TheTables == {"raw", "rolled"}

Queries == [table : {"none", "raw", "rolled", "done"}, of : SUBSET Series, since : Int,
            cutoff : Int, end : Int, before : Int, cursor : SUBSET Row]

Delivered == got \cup page

\* r lies before the place where the query stands in the table it reads.
BehindCursor(r) ==
    ~TextBefore(r.at, query.before) \/ \E c \in query.cursor : r = c \/ Precedes(r, c)

Typed ==
    /\ TableType(rows) /\ IsFiniteSet(rows)
    /\ query \in Queries
    /\ query.table \notin TheTables => query.cursor = {}
    /\ query.table = "none" => Delivered = {}
    /\ \A c \in query.cursor :
         /\ c.table = query.table
         /\ ~TextBefore(c.at, Start) /\ TextBefore(c.at, query.before)
    /\ \A c, d \in query.cursor : c = d
    /\ page \subseteq Row /\ got \subseteq Row /\ stayed \subseteq rows
    /\ changes \in 0 .. MaxChanges

\* What has been delivered lies behind the cursor, the raw rows of a long range not before
\* the second of its cutoff.
Behind ==
    /\ \A r \in Delivered :
         /\ r.table = query.table => BehindCursor(r)
         /\ r.table = "rolled" => query.table \in {"rolled", "done"}
         /\ query.table \in TheTables /\ Long /\ r.table = "raw" =>
              Second(query.cutoff) <= Second(r.at)
    /\ query.table = "rolled" => Long /\ query.before <= query.cutoff

Descending == Behind /\ PagesDescend

\* The query is through with r.
Passed(r) ==
    \/ query.table = "done"
    \/ query.table = "rolled" /\ r.table = "raw"
    \/ r.table = query.table /\ BehindCursor(r)

\* No row that stayed is passed over, and none has taken the place of the cursor.
Complete ==
    /\ \A r \in stayed : InRange(r) /\ Passed(r) => r \in Delivered
    /\ \A r \in stayed, c \in query.cursor : r.table = c.table /\ r.id = c.id => r = c
----------------------------------------------------------------------------
(* The order of the texts, and that of the rows. *)

\* The place of an instant in the order of the texts.
Place(t) == 2 * Second(t) + (IF t % 2 = 1 THEN 0 ELSE 1)

LEMMA TextOrder ==
    ASSUME NEW t \in Int, NEW c \in Int
    PROVE  /\ Place(t) \in Int /\ Second(t) \in Int
           /\ TextBefore(t, c) <=> Place(t) < Place(c)
           /\ Place(t) = Place(c) => t = c
           /\ Second(t) < Second(c) => TextBefore(t, c)
           /\ TextBefore(t, c) => Second(t) <= Second(c)
           /\ TextBefore(t, c) /\ t % 2 = 0 => Second(t) < Second(c)
           /\ t <= c => Second(t) <= Second(c)
<1>1. Place(t) \in Int /\ Second(t) \in Int /\ Place(c) \in Int /\ Second(c) \in Int
  BY DEF Place, Second
<1>2. TextBefore(t, c) <=> Place(t) < Place(c)
  BY DEF TextBefore, Place, Second
<1>3. Place(t) = Place(c) => t = c
  BY DEF Place, Second
<1>4. /\ Second(t) < Second(c) => TextBefore(t, c)
      /\ TextBefore(t, c) => Second(t) <= Second(c)
      /\ TextBefore(t, c) /\ t % 2 = 0 => Second(t) < Second(c)
  BY <1>1 DEF TextBefore
<1>5. t <= c => Second(t) <= Second(c)
  BY DEF Second
<1> QED  BY <1>1, <1>2, <1>3, <1>4, <1>5

LEMMA PrecedesOrder ==
    ASSUME NEW r \in Row, NEW q \in Row
    PROVE  /\ ~(Precedes(r, q) /\ Precedes(q, r))
           /\ ~Precedes(r, r)
           /\ Precedes(r, q) \/ Precedes(q, r) \/ (r.at = q.at /\ r.id = q.id)
           /\ \A s \in Row : Precedes(r, q) /\ Precedes(q, s) => Precedes(r, s)
<1>1. r.at \in Int /\ r.id \in Nat /\ q.at \in Int /\ q.id \in Nat
  BY DEF Row
<1>2. /\ Place(r.at) \in Int /\ Place(q.at) \in Int
      /\ TextBefore(r.at, q.at) <=> Place(r.at) < Place(q.at)
      /\ TextBefore(q.at, r.at) <=> Place(q.at) < Place(r.at)
      /\ TextBefore(r.at, r.at) <=> Place(r.at) < Place(r.at)
      /\ Place(r.at) = Place(q.at) => r.at = q.at
  BY <1>1, TextOrder
<1>3. ASSUME NEW s \in Row, Precedes(r, q), Precedes(q, s) PROVE Precedes(r, s)
  <2>1. s.at \in Int /\ s.id \in Nat
    BY DEF Row
  <2>2. /\ Place(s.at) \in Int
        /\ TextBefore(s.at, q.at) <=> Place(s.at) < Place(q.at)
        /\ TextBefore(s.at, r.at) <=> Place(s.at) < Place(r.at)
    BY <1>1, <2>1, TextOrder
  <2>3. /\ Place(q.at) < Place(r.at) \/ (q.at = r.at /\ q.id < r.id)
        /\ Place(s.at) < Place(q.at) \/ (s.at = q.at /\ s.id < q.id)
    BY <1>2, <1>3, <2>2 DEF Precedes
  <2>4. Place(s.at) < Place(r.at) \/ (s.at = r.at /\ s.id < r.id)
    BY <1>1, <1>2, <2>1, <2>2, <2>3
  <2> QED  BY <2>2, <2>4 DEF Precedes
<1>4. /\ ~(Precedes(r, q) /\ Precedes(q, r))
      /\ ~Precedes(r, r)
      /\ Precedes(r, q) \/ Precedes(q, r) \/ (r.at = q.at /\ r.id = q.id)
  BY <1>1, <1>2 DEF Precedes
<1> QED  BY <1>3, <1>4

\* A row in front of q's text precedes q.
LEMMA LaterPrecedes ==
    ASSUME NEW r \in Row, NEW q \in Row, NEW b \in Int, ~TextBefore(r.at, b), TextBefore(q.at, b)
    PROVE  Precedes(r, q) /\ ~Precedes(q, r) /\ r # q
<1>1. r.at \in Int /\ q.at \in Int
  BY DEF Row
<1>2. TextBefore(q.at, r.at)
  BY <1>1, TextOrder
<1> QED  BY <1>2, PrecedesOrder DEF Precedes

LEMMA LeastNumber ==
    ASSUME NEW S, S \subseteq Nat, S # {}
    PROVE  \E m \in S : \A n \in S : m <= n
<1>1. PICK m \in S : \A n \in S : ~(<<n, m>> \in OpToRel(<, Nat))
  BY NatLessThanWellFounded, WFMin
<1>2. ASSUME NEW n \in S, n < m PROVE <<n, m>> \in OpToRel(<, Nat)
  <2>1. <<n, m>> \in Nat \X Nat /\ <<n, m>>[1] = n /\ <<n, m>>[2] = m
    OBVIOUS
  <2> QED  BY <1>2, <2>1 DEF OpToRel
<1>3. \A n \in S : ~(n < m)
  BY <1>1, <1>2
<1> QED  BY <1>3

\* A page that is not empty has a last row.
LEMMA LastRow ==
    ASSUME TableType(rows), query.before \in Int, Start \in Int,
           NEW P, P \subseteq Eligible, P # {}
    PROVE  \E p \in P : \A r \in P : r = p \/ Precedes(r, p)
<1>1. \A r \in P : /\ r \in rows /\ r \in Row /\ r.at \in Int /\ r.id \in Nat
                   /\ r.table = query.table /\ ~TextBefore(r.at, Start)
  BY DEF Eligible, TableType, Row
<1>2. Place(Start) \in Int /\ \A r \in P : Place(r.at) \in Int /\ Place(r.at) - Place(Start) \in Nat
  BY <1>1, TextOrder
<1> DEFINE S == {Place(r.at) - Place(Start) : r \in P}
<1>3. PICK m \in S : \A n \in S : m <= n
  <2>1. S \subseteq Nat /\ S # {}
    BY <1>2
  <2> HIDE DEF S
  <2> QED  BY <2>1, LeastNumber
<1> DEFINE I == {r.id : r \in {q \in P : Place(q.at) - Place(Start) = m}}
<1>4. PICK i \in I : \A n \in I : i <= n
  <2>1. I \subseteq Nat /\ I # {}
    BY <1>1, <1>3
  <2> HIDE DEF I
  <2> QED  BY <2>1, LeastNumber
<1>5. PICK p \in P : Place(p.at) - Place(Start) = m /\ p.id = i
  BY <1>4
<1>6. ASSUME NEW r \in P PROVE r = p \/ Precedes(r, p)
  <2>1. Place(r.at) - Place(Start) >= Place(p.at) - Place(Start)
    BY <1>3, <1>5
  <2>2. CASE Place(r.at) = Place(p.at)
    <3>1. r.at = p.at
      BY <1>1, <2>2, TextOrder
    <3>2. p.id <= r.id
      BY <1>4, <1>5, <2>2
    <3>3. r.id = p.id => r = p
      BY <1>1 DEF TableType
    <3> QED  BY <1>1, <3>1, <3>2, <3>3 DEF Precedes
  <2>3. CASE Place(r.at) # Place(p.at)
    <3>1. Place(p.at) < Place(r.at)
      BY <1>2, <2>1, <2>3
    <3> QED  BY <1>1, <3>1, TextOrder DEF Precedes
  <2> QED  BY <2>2, <2>3
<1> QED  BY <1>6
----------------------------------------------------------------------------
(* What the steps do. *)

LEMMA Bounds ==
    ASSUME Typed
    PROVE  /\ query.since \in Int /\ query.cutoff \in Int /\ query.before \in Int
           /\ query.end \in Int /\ Floor \in Int /\ Start \in Int
           /\ Floor <= Start
           /\ Start # Floor => Start = query.before - Window /\ Second(Start) < Second(query.before)
<1>1. /\ query.since \in Int /\ query.cutoff \in Int /\ query.before \in Int
      /\ query.end \in Int
  BY DEF Typed, Queries
<1>2. Floor \in Int
  BY <1>1 DEF Floor
<1>3. Window \in Nat /\ Window >= 2 /\ query.before - Window \in Int
  BY <1>1, StreamAssumption DEF StreamAssumption
<1>4. Start \in Int /\ Floor <= Start /\ (Start # Floor => Start = query.before - Window)
  BY <1>2, <1>3 DEF Start
<1>5. Second(query.before - Window) < Second(query.before)
  BY <1>1, <1>3 DEF Second
<1> QED  BY <1>1, <1>2, <1>4, <1>5

LEMMA PageRead ==
    ASSUME Typed, NEW P \in SUBSET Eligible, ReadPage(P)
    PROVE  /\ query.table \in TheTables
           /\ page' = P /\ got' = Delivered /\ Delivered' = Delivered \cup P
           /\ UNCHANGED <<rows, stayed, changes>>
           /\ \A p \in P, r \in Eligible \ P : Precedes(p, r)
           /\ \A p \in P : /\ p \in rows /\ p \in Row /\ p.at \in Int
                           /\ p.table = query.table
                           /\ ~TextBefore(p.at, Start) /\ TextBefore(p.at, query.before)
                           /\ \A c \in query.cursor : Precedes(c, p)
BY DEF ReadPage, ReadRows, Delivered, Eligible, TheTables, Typed, TableType, Row

\* The query after a full page.
LEMMA NextPageFields ==
    ASSUME Typed, NEW P \in SUBSET Eligible, ReadPage(P), NextPage(P)
    PROVE  /\ query' \in Queries
           /\ query'.table = query.table /\ query'.of = query.of /\ query'.since = query.since
           /\ query'.cutoff = query.cutoff /\ query'.end = query.end
           /\ query'.before = query.before
           /\ Long' = Long /\ Start' = Start
           /\ \E c \in P : query'.cursor = {c} /\ \A r \in P : r = c \/ Precedes(r, c)
<1> DEFINE C == {p \in P : \A r \in P : r = p \/ Precedes(r, p)}
<1>1. query' = [query EXCEPT !.cursor = C]
  BY DEF NextPage
<1>2. P \subseteq Row
  BY PageRead
<1>3. /\ query'.table = query.table /\ query'.of = query.of /\ query'.since = query.since
      /\ query'.cutoff = query.cutoff /\ query'.end = query.end
      /\ query'.before = query.before /\ query'.cursor = C /\ query' \in Queries
  BY <1>1, <1>2 DEF Typed, Queries
<1>4. Long' = Long /\ Start' = Start
  BY <1>3 DEF Long, Start, Floor
<1>5. P # {}
  <2>1. Cardinality(P) # 0
    BY StreamAssumption DEF StreamAssumption, NextPage, Full
  <2> QED  BY <2>1, FS_EmptySet
<1>6. PICK c \in P : \A r \in P : r = c \/ Precedes(r, c)
  BY <1>5, LastRow, Bounds DEF Typed
<1>7. C = {c}
  <2>1. \A d \in C : d = c
    BY <1>2, <1>6, PrecedesOrder
  <2> QED  BY <1>6, <2>1
<1> QED  BY <1>3, <1>4, <1>6, <1>7

\* The query after the last page of a window that is not the last.
LEMMA NextWindowFields ==
    ASSUME Typed, NEW P \in SUBSET Eligible, ReadPage(P), NextWindow(P)
    PROVE  /\ query' \in Queries
           /\ query'.table = query.table /\ query'.of = query.of /\ query'.since = query.since
           /\ query'.cutoff = query.cutoff /\ query'.end = query.end
           /\ query'.before = Start /\ query'.cursor = {}
           /\ Long' = Long /\ P = Eligible
           /\ Second(Start) < Second(query.before) /\ Start <= query.before
<1>1. query' = [query EXCEPT !.before = Start, !.cursor = {}] /\ P = Eligible /\ Start # Floor
  BY Bounds DEF NextWindow, Short
<1>2. Start \in Int
  BY Bounds
<1>3. /\ query'.table = query.table /\ query'.of = query.of /\ query'.since = query.since
      /\ query'.cutoff = query.cutoff /\ query'.end = query.end
      /\ query'.before = Start /\ query'.cursor = {} /\ query' \in Queries
  BY <1>1, <1>2 DEF Typed, Queries
<1>4. Start = query.before - Window /\ Second(Start) < Second(query.before)
  BY <1>1, Bounds
<1>5. Start <= query.before
  BY <1>4, Bounds, StreamAssumption DEF StreamAssumption
<1> QED  BY <1>1, <1>3, <1>4, <1>5 DEF Long

\* The query after the last page of a table.
LEMMA NextTableFields ==
    ASSUME Typed, NEW P \in SUBSET Eligible, ReadPage(P), NextTable(P)
    PROVE  /\ query' \in Queries
           /\ query.table = "raw" /\ query'.table = "rolled"
           /\ query'.of = query.of /\ query'.since = query.since
           /\ query'.cutoff = query.cutoff /\ query'.end = query.end
           /\ query'.before = query.cutoff /\ query'.cursor = {}
           /\ Long' = Long /\ Long /\ Start = query.cutoff /\ P = Eligible
<1>1. /\ query' = [query EXCEPT !.table = "rolled", !.before = query.cutoff, !.cursor = {}]
      /\ P = Eligible /\ Start = Floor /\ query.table = "raw" /\ Long
  BY DEF NextTable, Short
<1>2. /\ query'.of = query.of /\ query'.since = query.since /\ query'.cutoff = query.cutoff
      /\ query'.end = query.end /\ query'.before = query.cutoff /\ query'.cursor = {}
      /\ query'.table = "rolled" /\ query' \in Queries
  BY <1>1, Bounds DEF Typed, Queries
<1> QED  BY <1>1, <1>2 DEF Long, Floor

LEMMA FinishFields ==
    ASSUME Typed, NEW P \in SUBSET Eligible, ReadPage(P), Finish(P)
    PROVE  /\ query' \in Queries
           /\ query'.table = "done" /\ query'.of = query.of /\ query'.since = query.since
           /\ query'.cutoff = query.cutoff /\ query'.end = query.end
           /\ query'.before = query.before /\ query'.cursor = {}
           /\ Long' = Long /\ (query.table = "raw" => ~Long)
           /\ Start = query.since /\ P = Eligible
<1>1. /\ query' = [query EXCEPT !.table = "done", !.cursor = {}]
      /\ P = Eligible /\ Start = Floor /\ (query.table = "raw" => ~Long)
  BY DEF Finish, Short
<1>2. /\ query'.of = query.of /\ query'.since = query.since /\ query'.cutoff = query.cutoff
      /\ query'.end = query.end /\ query'.before = query.before /\ query'.cursor = {}
      /\ query'.table = "done" /\ query' \in Queries
  BY <1>1 DEF Typed, Queries
<1> QED  BY <1>1, <1>2 DEF Long, Floor

LEMMA AskFields ==
    ASSUME NEW now \in Clock, NEW range \in Ranges, NEW of \in Asked, Ask(now, range, of)
    PROVE  /\ query.table = "none" /\ query' \in Queries /\ query'.table = "raw"
           /\ query'.before = query'.end /\ query'.cursor = {}
           /\ stayed' = rows /\ changes' = 0 /\ UNCHANGED <<rows, page, got>>
<1>1. PICK cutoff \in {now, now + 1}, end \in {now, now + 1} :
         query' = [NoQuery EXCEPT !.table = "raw", !.of = of, !.since = now - range,
                     !.cutoff = cutoff - RawAge, !.end = end, !.before = end]
  BY DEF Ask
<1>2. query' = [table |-> "raw", of |-> of, since |-> now - range, cutoff |-> cutoff - RawAge,
                end |-> end, before |-> end, cursor |-> {}]
  BY <1>1 DEF NoQuery
<1>3. /\ now \in Int /\ now - range \in Int /\ cutoff - RawAge \in Int /\ end \in Int
      /\ of \subseteq Series
  BY StreamAssumption DEF StreamAssumption
<1> QED  BY <1>2, <1>3 DEF Ask, Queries
----------------------------------------------------------------------------
(* Types. *)

LEMMA TypedInit == WInit => Typed
<1> SUFFICES ASSUME WInit PROVE Typed
  OBVIOUS
<1>1. query = [table |-> "none", of |-> {}, since |-> 0, cutoff |-> 0, end |-> 0,
               before |-> 0, cursor |-> {}]
  BY DEF WInit, NoQuery
<1>2. query \in Queries /\ query.cursor = {} /\ query.table = "none"
  BY <1>1 DEF Queries
<1>3. TableType(rows) /\ IsFiniteSet(rows)
  BY StreamAssumption DEF WInit, StreamAssumption
<1>4. changes \in 0 .. MaxChanges
  BY StreamAssumption DEF WInit, StreamAssumption
<1> QED  BY <1>2, <1>3, <1>4 DEF WInit, Typed, Delivered, TheTables

\* A new row has a key of its own.
LEMMA TypedInsert ==
    ASSUME Typed, NEW table \in TheTables, NEW t \in Instants, NEW s \in Series,
           Insert(table, t, s)
    PROVE  TableType(rows') /\ IsFiniteSet(rows') /\ rows \subseteq rows'
<1>1. PICK id \in NewIds(table) :
         rows' = rows \cup {[table |-> table, at |-> t, id |-> id, series |-> s]}
  BY DEF Insert
<1> DEFINE ids == {r.id : r \in {q \in rows : q.table = table}}
           new == [table |-> table, at |-> t, id |-> id, series |-> s]
<1>2. ids \subseteq Nat \ {0}
  BY DEF Typed, TableType, Row
<1>3. id \in Nat \ {0} /\ \A i \in ids : i < id
  BY <1>2 DEF NewIds
<1>4. new \in Row /\ (new.table = "rolled" => new.at % 2 = 0)
  BY <1>3, StreamAssumption DEF Row, StreamAssumption, Insert, TheTables
<1>5. \A r \in rows : r.table = table => r.id # id
  BY <1>2, <1>3
<1>6. TableType(rows')
  BY <1>1, <1>4, <1>5 DEF Typed, TableType
<1>7. IsFiniteSet(rows')
  <2> HIDE DEF new
  <2> QED  BY <1>1, FS_AddElement DEF Typed
<1> QED  BY <1>1, <1>6, <1>7

LEMMA TypedChange ==
    ASSUME Typed, TablesChange
    PROVE  /\ Typed'
           /\ UNCHANGED streamVars
           /\ stayed' \subseteq stayed /\ query.table \in TheTables
<1>1. /\ UNCHANGED streamVars /\ stayed' = stayed \cap rows'
      /\ query.table \in TheTables /\ changes' \in 0 .. MaxChanges
  BY StreamAssumption DEF TablesChange, Expire, Insert, DeleteAgent, Change, TheTables, Typed,
                          StreamAssumption
<1>2. TableType(rows') /\ IsFiniteSet(rows')
  <2>1. CASE rows' \in SUBSET rows
    <3>1. IsFiniteSet(rows')
      BY <2>1, FS_Subset DEF Typed
    <3> QED  BY <2>1, <3>1 DEF Typed, TableType
  <2>2. ASSUME NEW table \in TheTables, NEW t \in Instants, NEW s \in Series,
               Insert(table, t, s)
        PROVE  TableType(rows') /\ IsFiniteSet(rows')
    BY <2>2, TypedInsert
  <2> QED  BY <2>1, <2>2 DEF TablesChange, Expire, DeleteAgent, TheTables
<1>3. Start' = Start /\ Delivered' = Delivered
  BY <1>1 DEF streamVars, Start, Floor, Long, Delivered
<1>4. Typed'
  BY <1>1, <1>2, <1>3 DEF Typed, streamVars, Delivered
<1> QED  BY <1>1, <1>4

LEMMA TypedPage ==
    ASSUME Typed, NEW P \in SUBSET Eligible, ReadPage(P)
    PROVE  Typed'
<1>1. /\ page' \subseteq Row /\ got' \subseteq Row /\ UNCHANGED <<rows, stayed, changes>>
      /\ query.table \in TheTables
  BY PageRead DEF Typed, Delivered
<1>2. CASE NextPage(P)
  <2>1. PICK c \in P : query'.cursor = {c}
    BY <1>2, NextPageFields
  <2>2. c.table = query.table /\ ~TextBefore(c.at, Start) /\ TextBefore(c.at, query.before)
    BY PageRead
  <2>3. /\ query' \in Queries /\ query'.table = query.table /\ query'.before = query.before
        /\ Start' = Start
    BY <1>2, NextPageFields
  <2> QED  BY <1>1, <2>1, <2>2, <2>3 DEF Typed, TheTables
<1>3. CASE ~NextPage(P)
  <2>1. query' \in Queries /\ query'.cursor = {} /\ query'.table # "none"
    BY <1>1, <1>3, NextWindowFields, NextTableFields, FinishFields DEF ReadPage, TheTables
  <2> QED  BY <1>1, <2>1 DEF Typed
<1> QED  BY <1>2, <1>3

LEMMA TypedStep == Typed /\ [WNext]_wvars => Typed'
<1> SUFFICES ASSUME Typed, [WNext]_wvars PROVE Typed'
  OBVIOUS
<1>1. ASSUME NEW now \in Clock, NEW range \in Ranges, NEW of \in Asked, Ask(now, range, of)
      PROVE  Typed'
  <2>1. changes' \in 0 .. MaxChanges
    BY <1>1, AskFields, StreamAssumption DEF StreamAssumption
  <2> QED  BY <1>1, <2>1, AskFields DEF Typed, TheTables
<1>2. CASE TablesChange
  BY <1>2, TypedChange
<1>3. ASSUME NEW P \in SUBSET Eligible, ReadPage(P) PROVE Typed'
  BY <1>3, TypedPage
<1>4. CASE UNCHANGED wvars
  <2>1. Start' = Start /\ Delivered' = Delivered
    BY <1>4 DEF wvars, streamVars, Start, Floor, Long, Delivered
  <2> QED  BY <1>4, <2>1 DEF Typed, wvars, streamVars
<1> QED  BY <1>1, <1>2, <1>3, <1>4 DEF WNext, SomeAsk

LEMMA TypedAlways == WSpec => []Typed
BY TypedInit, TypedStep, PTL DEF WSpec

\* WTypeOK: every variable keeps its type; no two rows of a table have one id, and there
\* is at most one cursor, a row of the window it stands in.
THEOREM TypeCorrect == WSpec => []WTypeOK
<1>1. ASSUME Typed PROVE WTypeOK
  <2>1. Cardinality(query.cursor) <= 1
    <3>1. CASE query.cursor = {}
      BY <3>1, FS_EmptySet
    <3>2. CASE query.cursor # {}
      <4>1. PICK c \in query.cursor : TRUE
        BY <3>2
      <4>2. query.cursor = {c}
        BY <1>1, <4>1 DEF Typed
      <4> QED  BY <4>2, FS_Singleton
    <3> QED  BY <3>1, <3>2
  <2>2. /\ query.table \in {"none", "raw", "rolled", "done"} /\ query.of \subseteq Series
        /\ {query.since, query.cutoff, query.end, query.before} \subseteq Int
        /\ query.cursor \subseteq Row
    BY <1>1 DEF Typed, Queries
  <2> QED  BY <1>1, <2>1, <2>2 DEF Typed, WTypeOK
<1> QED  BY <1>1, TypedAlways, PTL
----------------------------------------------------------------------------
(* The pages descend. *)

\* What lies behind the cursor comes before the page read next.
LEMMA BehindComesFirst ==
    ASSUME Typed, NEW P \in SUBSET Eligible, ReadPage(P),
           NEW r \in Row, BehindCursor(r), NEW p \in P
    PROVE  Precedes(r, p) /\ ~Precedes(p, r) /\ r # p
<1>1. p \in Row /\ TextBefore(p.at, query.before) /\ \A c \in query.cursor : Precedes(c, p)
  BY PageRead
<1>2. CASE ~TextBefore(r.at, query.before)
  BY <1>1, <1>2, LaterPrecedes, Bounds
<1>3. ASSUME NEW c \in query.cursor, r = c \/ Precedes(r, c)
      PROVE  Precedes(r, p)
  <2>1. c \in Row /\ Precedes(c, p)
    BY <1>1 DEF Typed, Queries
  <2> QED  BY <1>1, <1>3, <2>1, PrecedesOrder
<1> QED  BY <1>1, <1>2, <1>3, PrecedesOrder DEF BehindCursor

\* ... and in a window that is read to its end, not before the start of the window.
LEMMA BehindWindow ==
    ASSUME Typed, NEW r \in Row, BehindCursor(r), Second(Start) < Second(query.before)
    PROVE  ~TextBefore(r.at, Start)
<1>1. r.at \in Int /\ Start \in Int /\ query.before \in Int
  BY Bounds DEF Row
<1>2. CASE ~TextBefore(r.at, query.before)
  BY <1>1, <1>2, TextOrder
<1>3. ASSUME NEW c \in query.cursor, r = c \/ Precedes(r, c)
      PROVE  ~TextBefore(r.at, Start)
  <2>1. c.at \in Int /\ ~TextBefore(c.at, Start)
    BY DEF Typed, Queries, Row
  <2>2. Place(c.at) <= Place(r.at)
    BY <1>1, <1>3, <2>1, TextOrder DEF Precedes
  <2>3. Place(Start) \in Int /\ Place(r.at) \in Int /\ Place(c.at) \in Int
    BY <1>1, <2>1, TextOrder
  <2>4. Place(Start) <= Place(c.at)
    <3>1. TextBefore(c.at, Start) <=> Place(c.at) < Place(Start)
      BY <1>1, <2>1, TextOrder
    <3> QED  BY <2>1, <2>3, <3>1
  <2>5. ~(Place(r.at) < Place(Start))
    BY <2>2, <2>3, <2>4
  <2>6. TextBefore(r.at, Start) <=> Place(r.at) < Place(Start)
    BY <1>1, TextOrder
  <2> QED  BY <2>5, <2>6
<1> QED  BY <1>2, <1>3 DEF BehindCursor

\* In a long range no raw row is read from before the second of the cutoff.
LEMMA RawAfterCutoff ==
    ASSUME Typed, NEW P \in SUBSET Eligible, ReadPage(P), Long, NEW p \in P, p.table = "raw"
    PROVE  Second(query.cutoff) <= Second(p.at)
<1>1. p.at \in Int /\ ~TextBefore(p.at, Start) /\ Floor = query.cutoff
  BY PageRead DEF Floor
<1>2. Second(query.cutoff) <= Second(Start)
  BY <1>1, Bounds, TextOrder
<1>3. ~(Second(p.at) < Second(Start))
  BY <1>1, Bounds, TextOrder
<1>4. Second(p.at) \in Int /\ Second(Start) \in Int /\ Second(query.cutoff) \in Int
  BY <1>1, Bounds, TextOrder
<1> QED  BY <1>2, <1>3, <1>4

LEMMA PageDescends ==
    ASSUME Typed, Behind, NEW P \in SUBSET Eligible, ReadPage(P)
    PROVE  PagesDescend'
<1> SUFFICES ASSUME NEW r \in Delivered, NEW p \in P
             PROVE  \/ r.table = p.table /\ Precedes(r, p)
                    \/ r.table = "raw" /\ p.table = "rolled" /\ Second(p.at) < Second(r.at)
  BY PageRead DEF PagesDescend
<1>1. r \in Row /\ p.table = query.table /\ query.table \in TheTables /\ p \in rows /\ p.at \in Int
  BY PageRead DEF Typed, Delivered
<1>2. CASE r.table = query.table
  BY <1>1, <1>2, BehindComesFirst DEF Behind
<1>3. CASE r.table # query.table
  <2>1. r.table = "raw" /\ query.table = "rolled"
    BY <1>1, <1>3 DEF Behind, TheTables, Row
  <2>2. Second(query.cutoff) <= Second(r.at) /\ query.before <= query.cutoff
    BY <1>1, <2>1 DEF Behind
  <2>3. TextBefore(p.at, query.before) /\ p.at % 2 = 0
    BY <1>1, <2>1, PageRead DEF Typed, TableType
  <2>4. Second(p.at) < Second(query.before)
    BY <1>1, <2>3, Bounds, TextOrder
  <2>5. Second(query.before) <= Second(query.cutoff)
    BY <2>2, Bounds, TextOrder
  <2>6. /\ Second(p.at) \in Int /\ Second(query.before) \in Int /\ Second(query.cutoff) \in Int
        /\ Second(r.at) \in Int
    BY <1>1, Bounds, TextOrder DEF Row
  <2> QED  BY <1>1, <2>1, <2>2, <2>4, <2>5, <2>6
<1> QED  BY <1>2, <1>3

LEMMA BehindPage ==
    ASSUME Typed, Behind, NEW P \in SUBSET Eligible, ReadPage(P)
    PROVE  Behind'
<1>1. /\ query.table \in TheTables /\ Delivered' = Delivered \cup P
      /\ \A p \in P : p \in Row /\ p.table = query.table /\ ~TextBefore(p.at, Start)
      /\ Delivered \subseteq Row
  BY PageRead DEF Typed, Delivered
<1>2. \A r \in Delivered' : Long /\ r.table = "raw" => Second(query.cutoff) <= Second(r.at)
  BY <1>1, RawAfterCutoff DEF Behind
<1>3. CASE NextPage(P)
  <2>1. PICK c \in P : query'.cursor = {c} /\ \A r \in P : r = c \/ Precedes(r, c)
    BY <1>3, NextPageFields
  <2>2. \A r \in Delivered' : r.table = query.table => r = c \/ Precedes(r, c)
    BY <1>1, <2>1, BehindComesFirst DEF Behind
  <2>3. /\ query'.table = query.table /\ query'.before = query.before
        /\ query'.cutoff = query.cutoff /\ Long' = Long
    BY <1>3, NextPageFields
  <2> QED  BY <1>1, <1>2, <2>1, <2>2, <2>3 DEF Behind, BehindCursor, TheTables
<1>4. CASE NextWindow(P)
  <2>1. /\ query'.table = query.table /\ query'.before = Start /\ query'.cutoff = query.cutoff
        /\ Long' = Long /\ Second(Start) < Second(query.before) /\ Start <= query.before
    BY <1>4, NextWindowFields
  <2>2. \A r \in Delivered' : r.table = query.table => ~TextBefore(r.at, Start)
    BY <1>1, <2>1, BehindWindow DEF Behind
  <2>3. query.before <= query.cutoff => Start <= query.cutoff
    BY <2>1, Bounds
  <2> QED  BY <1>1, <1>2, <2>1, <2>2, <2>3 DEF Behind, BehindCursor, TheTables
<1>5. CASE NextTable(P)
  <2>1. /\ query.table = "raw" /\ query'.table = "rolled" /\ query'.cutoff = query.cutoff
        /\ Long' = Long /\ Long /\ query'.before = query.cutoff
    BY <1>5, NextTableFields
  <2>2. \A r \in Delivered' : r.table # "rolled"
    BY <1>1, <2>1 DEF Behind
  <2>3. query.cutoff <= query.cutoff
    BY Bounds
  <2> QED  BY <1>2, <2>1, <2>2, <2>3 DEF Behind
<1>6. CASE Finish(P)
  <2>1. query'.table = "done"
    BY <1>6, FinishFields
  <2>2. \A r \in Delivered' : r.table # "done"
    BY <1>1 DEF Row
  <2> QED  BY <2>1, <2>2 DEF Behind, TheTables
<1> QED  BY <1>3, <1>4, <1>5, <1>6 DEF ReadPage

LEMMA DescendingStep == Typed /\ Descending /\ [WNext]_wvars => Descending'
<1> SUFFICES ASSUME Typed, Descending, [WNext]_wvars PROVE Descending'
  OBVIOUS
<1>1. ASSUME NEW now \in Clock, NEW range \in Ranges, NEW of \in Asked, Ask(now, range, of)
      PROVE  Descending'
  <2>1. Delivered' = {} /\ query'.table = "raw" /\ got' = {}
    BY <1>1, AskFields DEF Typed, Delivered
  <2> QED  BY <2>1 DEF Descending, Behind, PagesDescend
<1>2. ASSUME NEW P \in SUBSET Eligible, ReadPage(P) PROVE Descending'
  BY <1>2, BehindPage, PageDescends DEF Descending
<1>3. CASE TablesChange \/ UNCHANGED wvars
  <2>1. UNCHANGED streamVars
    BY <1>3, TypedChange DEF wvars
  <2>2. Long' = Long /\ Delivered' = Delivered /\ \A r : BehindCursor(r)' = BehindCursor(r)
    BY <2>1 DEF streamVars, Long, Delivered, BehindCursor
  <2>3. Behind'
    BY <2>1, <2>2 DEF Descending, Behind, streamVars
  <2>4. PagesDescend'
    BY <2>1 DEF Descending, PagesDescend, streamVars
  <2> QED  BY <2>3, <2>4 DEF Descending
<1> QED  BY <1>1, <1>2, <1>3 DEF WNext, SomeAsk

LEMMA DescendingAlways == WSpec => []Descending
<1>1. WInit => Descending
  <2> SUFFICES ASSUME WInit PROVE Descending
    OBVIOUS
  <2>1. query.table = "none" /\ Delivered = {} /\ got = {}
    BY DEF WInit, NoQuery, Delivered
  <2> QED  BY <2>1 DEF Descending, Behind, PagesDescend
<1> QED  BY <1>1, TypedAlways, DescendingStep, PTL DEF WSpec

\* Every row of a page comes after all that was delivered before it: no row is delivered
\* twice, and the order is newest first across pages, windows and tables.
THEOREM PagesDescendAlways == WSpec => []PagesDescend
<1>1. Descending => PagesDescend
  BY DEF Descending
<1> QED  BY <1>1, DescendingAlways, PTL
----------------------------------------------------------------------------
(* Nothing is skipped. *)

\* A row that stayed, in the window and not behind the cursor, is what the page is taken from.
LEMMA StayedIsEligible ==
    ASSUME Typed, Complete, NEW r \in stayed, r.table = query.table, r.series \in query.of,
           ~TextBefore(r.at, Start), ~BehindCursor(r)
    PROVE  r \in Eligible
<1>1. r \in rows /\ r \in Row
  BY DEF Typed, TableType
<1>2. ASSUME NEW c \in query.cursor PROVE Precedes(c, r)
  <2>1. c \in Row /\ c.table = query.table
    BY DEF Typed, Queries
  <2>2. r # c /\ ~Precedes(r, c)
    BY DEF BehindCursor
  <2>3. r.id # c.id
    BY <2>1, <2>2 DEF Complete
  <2> QED  BY <1>1, <2>1, <2>2, <2>3, PrecedesOrder
<1> QED  BY <1>1, <1>2 DEF Eligible, BehindCursor

LEMMA CompletePage ==
    ASSUME Typed, Complete, NEW P \in SUBSET Eligible, ReadPage(P)
    PROVE  Complete'
<1>1. /\ query.table \in TheTables /\ Delivered' = Delivered \cup P /\ stayed' = stayed
      /\ \A p \in P : p \in rows /\ p \in Row /\ ~TextBefore(p.at, Start)
  BY PageRead
<1>2. \A r \in stayed : r \in rows /\ r \in Row
  BY DEF Typed, TableType
<1>3. /\ query'.of = query.of /\ query'.since = query.since /\ query'.cutoff = query.cutoff
      /\ query'.end = query.end /\ Long' = Long
  BY NextPageFields, NextWindowFields, NextTableFields, FinishFields DEF ReadPage
<1>4. \A r \in stayed : InRange(r)' => InRange(r) /\ r.series \in query.of
  BY <1>3 DEF InRange
<1>5. \A r \in stayed : InRange(r) /\ r.table = query.table /\ BehindCursor(r) => r \in Delivered
  BY DEF Complete, Passed
<1>6. ASSUME P = Eligible, NEW r \in stayed, InRange(r), r.table = query.table,
             ~TextBefore(r.at, Start)
      PROVE  r \in Delivered'
  <2>1. CASE BehindCursor(r)
    BY <1>1, <1>5, <1>6, <2>1
  <2>2. CASE ~BehindCursor(r)
    BY <1>1, <1>6, <2>2, StayedIsEligible DEF InRange
  <2> QED  BY <2>1, <2>2
<1>7. CASE NextPage(P)
  <2>1. PICK c \in P : query'.cursor = {c}
    BY <1>7, NextPageFields
  <2>2. query'.table = query.table /\ query'.before = query.before
    BY <1>7, NextPageFields
  <2>3. \A r \in stayed : r.table = c.table /\ r.id = c.id => r = c
    BY <1>1, <1>2 DEF Typed, TableType
  <2>4. ASSUME NEW r \in stayed, InRange(r), r.table = query.table, Precedes(r, c)
        PROVE  r \in Delivered'
    <3>1. CASE BehindCursor(r)
      BY <1>1, <1>5, <2>4, <3>1
    <3>2. CASE ~BehindCursor(r)
      <4>1. r.at \in Int /\ c.at \in Int /\ Start \in Int
        BY <1>1, <1>2, Bounds DEF Row
      <4>2. Place(c.at) <= Place(r.at)
        BY <2>4, <4>1, TextOrder DEF Precedes
      <4>3. ~TextBefore(r.at, Start)
        BY <1>1, <4>1, <4>2, TextOrder
      <4>4. r \in Eligible
        BY <2>4, <3>2, <4>3, StayedIsEligible DEF InRange
      <4>5. ~Precedes(c, r)
        BY <1>1, <1>2, <2>4, PrecedesOrder
      <4> QED  BY <1>1, <4>4, <4>5, PageRead
    <3> QED  BY <3>1, <3>2
  <2>5. ASSUME NEW r \in stayed, InRange(r), Passed(r)' PROVE r \in Delivered'
    BY <1>1, <2>1, <2>2, <2>4, <2>5 DEF Complete, Passed, BehindCursor
  <2> QED  BY <1>1, <1>4, <2>1, <2>3, <2>5 DEF Complete
<1>8. CASE NextWindow(P)
  <2>1. query'.table = query.table /\ query'.before = Start /\ query'.cursor = {} /\ P = Eligible
    BY <1>8, NextWindowFields
  <2>2. ASSUME NEW r \in stayed, InRange(r), Passed(r)' PROVE r \in Delivered'
    BY <1>1, <1>6, <2>1, <2>2 DEF Complete, Passed, BehindCursor
  <2> QED  BY <1>1, <1>4, <2>1, <2>2 DEF Complete
<1>9. CASE NextTable(P)
  <2>1. /\ query.table = "raw" /\ query'.table = "rolled" /\ query'.before = query.cutoff
        /\ query'.cursor = {} /\ P = Eligible /\ Long /\ Start = query.cutoff
    BY <1>9, NextTableFields
  <2>2. ASSUME NEW r \in stayed, InRange(r), Passed(r)' PROVE r \in Delivered'
    <3>1. r.table = "raw"
      BY <1>2, <2>1, <2>2 DEF Passed, BehindCursor, InRange, Row
    <3>2. ~TextBefore(r.at, Start)
      BY <2>1, <2>2, <3>1 DEF InRange
    <3> QED  BY <1>6, <2>1, <2>2, <3>1, <3>2
  <2> QED  BY <1>1, <1>4, <2>1, <2>2 DEF Complete
<1>10. CASE Finish(P)
  <2>1. /\ query'.cursor = {} /\ P = Eligible /\ (query.table = "raw" => ~Long)
        /\ Start = query.since
    BY <1>10, FinishFields
  <2>2. ASSUME NEW r \in stayed, InRange(r) PROVE r \in Delivered'
    <3>1. CASE r.table = query.table
      <4>1. ~TextBefore(r.at, Start)
        BY <1>1, <2>1, <2>2, <3>1 DEF InRange, TheTables
      <4> QED  BY <1>6, <2>1, <2>2, <3>1, <4>1
    <3>2. CASE r.table # query.table
      <4>1. r.table = "raw" /\ query.table = "rolled"
        BY <1>1, <1>2, <2>1, <2>2, <3>2 DEF InRange, TheTables, Row
      <4> QED  BY <1>1, <2>2, <4>1 DEF Complete, Passed
    <3> QED  BY <3>1, <3>2
  <2> QED  BY <1>1, <1>4, <2>1, <2>2 DEF Complete
<1> QED  BY <1>7, <1>8, <1>9, <1>10 DEF ReadPage

LEMMA CompleteStep == Typed /\ Complete /\ [WNext]_wvars => Complete'
<1> SUFFICES ASSUME Typed, Complete, [WNext]_wvars PROVE Complete'
  OBVIOUS
<1>1. ASSUME NEW now \in Clock, NEW range \in Ranges, NEW of \in Asked, Ask(now, range, of)
      PROVE  Complete'
  <2>1. query'.table = "raw" /\ query'.before = query'.end /\ query'.cursor = {}
    BY <1>1, AskFields
  <2>2. \A r : InRange(r)' => ~Passed(r)'
    BY <2>1 DEF InRange, Passed, BehindCursor
  <2> QED  BY <2>1, <2>2 DEF Complete
<1>2. ASSUME NEW P \in SUBSET Eligible, ReadPage(P) PROVE Complete'
  BY <1>2, CompletePage
<1>3. CASE TablesChange \/ UNCHANGED wvars
  <2>1. UNCHANGED streamVars /\ stayed' \subseteq stayed
    BY <1>3, TypedChange DEF wvars
  <2>2. /\ Delivered' = Delivered
        /\ \A r : InRange(r)' = InRange(r) /\ Passed(r)' = Passed(r)
    BY <2>1 DEF streamVars, Long, Delivered, BehindCursor, InRange, Passed
  <2> QED  BY <2>1, <2>2 DEF Complete, streamVars
<1> QED  BY <1>1, <1>2, <1>3 DEF WNext, SomeAsk

\* A row in the range asked for that stays in its table while the query runs is delivered.
THEOREM NoneSkippedAlways == WSpec => []NoneSkipped
<1>1. WInit => Complete
  <2> SUFFICES ASSUME WInit PROVE Complete
    OBVIOUS
  <2>1. stayed = {}
    BY DEF WInit
  <2> QED  BY <2>1 DEF Complete
<1>2. Complete => NoneSkipped
  BY DEF Complete, NoneSkipped, Passed, Delivered
<1> QED  BY <1>1, <1>2, TypedAlways, CompleteStep, PTL DEF WSpec
----------------------------------------------------------------------------
(* The dashboard answer that the stream is read for. *)

\* dashboardResultsData reads the stream and gathers beside it: none of its steps does to
\* the tables and the query what the stream alone would not do.
THEOREM AnswerReadsStream == DSpec => WSpec
<1>1. DInit => WInit
  BY DEF DInit
<1>2. [DNext]_dvars => [WNext]_wvars
  <2>1. ASSUME NEW P \in SUBSET Eligible, DReadPage(P) PROVE WNext
    BY <2>1 DEF DReadPage, WNext
  <2>2. CASE DAsk \/ DChange
    BY <2>2 DEF DAsk, DChange, WNext
  <2>3. CASE Answer \/ UNCHANGED dvars
    BY <2>3 DEF Answer, dvars
  <2> QED  BY <2>1, <2>2, <2>3 DEF DNext
<1> QED  BY <1>1, <1>2, PTL DEF DSpec, WSpec

\* So an answer is made of the rows of its range, each once and newest first, and of all
\* that stayed in the tables while they were read.
THEOREM AnswerReadsAll == DSpec => [](WTypeOK /\ PagesDescend /\ NoneSkipped)
  BY AnswerReadsStream, TypeCorrect, PagesDescendAlways, NoneSkippedAlways, PTL
----------------------------------------------------------------------------
(* Numbers and recursive functions. *)

\* A set with 0 in it, and with every number's successor, has all numbers up to k.
LEMMA Climb ==
    ASSUME NEW k \in Nat, NEW S, 0 \in S, \A i \in 0 .. k - 1 : i \in S => i + 1 \in S
    PROVE  \A i \in 0 .. k : i \in S
<1> DEFINE Missing == {i \in 0 .. k : i \notin S}
<1> SUFFICES ASSUME Missing # {} PROVE FALSE
  OBVIOUS
<1>1. PICK m \in Missing : \A n \in Missing : m <= n
  <2>1. Missing \subseteq Nat
    OBVIOUS
  <2> HIDE DEF Missing
  <2> QED  BY <2>1, LeastNumber
<1>2. m # 0 /\ m \in 1 .. k /\ m - 1 \in 0 .. k - 1 /\ m - 1 \notin Missing /\ (m - 1) + 1 = m
  BY <1>1
<1> QED  BY <1>1, <1>2

\* The functions that a recursion over 0 .. k defines, from c by the functions step[i].
Solutions(T, k, c, step) ==
    {f \in [0 .. k -> T] : f[0] = c /\ \A i \in 1 .. k : f[i] = step[i][f[i - 1]]}

\* A recursive definition over 0 .. k has a solution.
LEMMA Recursion ==
    ASSUME NEW T, NEW k \in Nat, NEW c \in T, NEW step \in [1 .. k -> [T -> T]]
    PROVE  Solutions(T, k, c, step) # {}
<1> DEFINE Solved(m, f) == f[0] = c /\ \A i \in 1 .. m : f[i] = step[i][f[i - 1]]
           S == {m \in 0 .. k : \E f \in [0 .. m -> T] : Solved(m, f)}
<1>1. 0 \in S
  <2> DEFINE g == [i \in 0 .. 0 |-> c]
  <2>1. g \in [0 .. 0 -> T] /\ g[0] = c
    OBVIOUS
  <2> HIDE DEF g
  <2>2. \A i \in 1 .. 0 : g[i] = step[i][g[i - 1]]
    OBVIOUS
  <2>3. \E f \in [0 .. 0 -> T] : Solved(0, f)
    BY <2>1, <2>2
  <2> QED  BY <2>3
<1>2. ASSUME NEW m \in 0 .. k - 1, m \in S PROVE m + 1 \in S
  <2>1. PICK f \in [0 .. m -> T] : Solved(m, f)
    BY <1>2
  <2> DEFINE g == [i \in 0 .. m + 1 |-> IF i <= m THEN f[i] ELSE step[m + 1][f[m]]]
  <2>2. step[m + 1][f[m]] \in T
    OBVIOUS
  <2>3. g \in [0 .. m + 1 -> T]
    BY <2>2
  <2>4. g[0] = c /\ g[m + 1] = step[m + 1][g[m]]
    <3>1. f[0] = c /\ 0 <= m /\ ~(m + 1 <= m) /\ m + 1 \in 0 .. m + 1 /\ m \in 0 .. m + 1
      BY <2>1
    <3> QED  BY <3>1
  <2>5. ASSUME NEW i \in 1 .. m PROVE g[i] = step[i][g[i - 1]]
    BY <2>1
  <2>6. Solved(m + 1, g)
    <3>1. ASSUME NEW i \in 1 .. m + 1 PROVE g[i] = step[i][g[i - 1]]
      <4>1. CASE i \in 1 .. m
        BY <2>5, <4>1
      <4>2. CASE i = m + 1
        <5>1. i - 1 = m
          BY <4>2
        <5> QED  BY <2>4, <4>2, <5>1
      <4> QED  BY <4>1, <4>2
    <3> QED  BY <2>4, <3>1
  <2> HIDE DEF g, Solved
  <2> QED  BY <2>3, <2>6
<1>3. k \in S
  <2> HIDE DEF S
  <2>1. \A i \in 0 .. k : i \in S
    BY <1>1, <1>2, Climb
  <2> QED  BY <2>1
<1> QED  BY <1>3 DEF Solutions

----------------------------------------------------------------------------
\* The reservation of a list of sizes.

\* At least one point is kept.
LEMMA MaxPointsIs == MaxPoints \in Nat /\ MaxPoints >= 1
BY ChartAssumption DEF ChartAssumption

\* One or two points are reserved for a series, within MaxPoints if that has room for all.
LEMMA MinimumIs ==
    ASSUME NEW k \in Nat
    PROVE  /\ Minimum(k) \in {1, 2} /\ MaxPoints \in Nat /\ MaxPoints >= 1
           /\ k <= MaxPoints => Minimum(k) * k <= MaxPoints
BY ChartAssumption DEF ChartAssumption, Minimum

\* Reserved is the table its recursive definition describes.
LEMMA ReservedEquation ==
    ASSUME NEW size, size \in Seq(Nat)
    PROVE  Reserved(size) =
             [i \in 0 .. Len(size) |->
                IF i = 0 THEN 0
                ELSE Reserved(size)[i - 1] + Lesser(Lesser(Minimum(Len(size)), size[i]),
                                                    MaxPoints - Reserved(size)[i - 1])]
<1> DEFINE k == Len(size)
           add(t, i) == t + Lesser(Lesser(Minimum(k), size[i]), MaxPoints - t)
           step == [i \in 1 .. k |-> [t \in Int |-> add(t, i)]]
<1>1. k \in Nat /\ MaxPoints \in Int /\ Minimum(k) \in Int
  BY MinimumIs
<1>2. \A t \in Int, i \in 1 .. k : add(t, i) \in Int
  BY <1>1 DEF Lesser
<1>3. step \in [1 .. k -> [Int -> Int]]
  BY <1>2
<1>4. \A t \in Int, i \in 1 .. k : step[i][t] = add(t, i)
  OBVIOUS
<1> HIDE DEF step
<1>5. Solutions(Int, k, 0, step) # {}
  <2>1. k \in Nat /\ 0 \in Int
    BY <1>1
  <2> HIDE DEF k
  <2> QED  BY <2>1, <1>3, Recursion
<1>6. PICK f : f = [i \in 0 .. k |-> IF i = 0 THEN 0 ELSE add(f[i - 1], i)]
  <2> HIDE DEF k, add
  <2>1. PICK f \in [0 .. k -> Int] : f[0] = 0 /\ \A i \in 1 .. k : f[i] = step[i][f[i - 1]]
    BY <1>5 DEF Solutions
  <2>2. ASSUME NEW i \in 1 .. k PROVE f[i - 1] \in Int /\ f[i] = add(f[i - 1], i)
    <3>1. i - 1 \in 0 .. k
      BY <1>1
    <3> QED  BY <2>1, <3>1, <1>4
  <2>3. f = [i \in 0 .. k |-> IF i = 0 THEN 0 ELSE add(f[i - 1], i)]
    BY <1>1, <2>1, <2>2
  <2> QED  BY <2>3
<1> QED  BY <1>6, Zenon DEF Reserved

\* What is reserved: in turn, within MaxPoints, and for every series its minimum if there
\* are points for all.
LEMMA ReservedIs ==
    ASSUME NEW size, size \in Seq(Nat)
    PROVE  /\ Reserved(size) \in [0 .. Len(size) -> 0 .. MaxPoints]
           /\ Reserved(size)[0] = 0
           /\ \A i \in 1 .. Len(size) :
                /\ Reserved(size)[i - 1] <= Reserved(size)[i]
                /\ Reserved(size)[i] - Reserved(size)[i - 1] <= size[i]
                /\ Len(size) <= MaxPoints =>
                     Reserved(size)[i] - Reserved(size)[i - 1] = Lesser(Minimum(Len(size)), size[i])
<1> DEFINE k == Len(size)
           t(i) == Reserved(size)[i]
           min == Minimum(k)
<1>1. /\ k \in Nat /\ MaxPoints \in Nat /\ min \in {1, 2} /\ (k <= MaxPoints
             => min * k <= MaxPoints)
      /\ \A i \in 1 .. k : size[i] \in Nat
  BY MinimumIs
<1>2. /\ DOMAIN Reserved(size) = 0 .. k /\ t(0) = 0
      /\ \A i \in 1 .. k : t(i) = t(i - 1) + Lesser(Lesser(min, size[i]), MaxPoints - t(i - 1))
      /\ Reserved(size) = [i \in 0 .. k |-> t(i)]
  <2>1. 0 \in 0 .. k /\ \A i \in 1 .. k : i \in 0 .. k /\ i # 0
    BY <1>1
  <2>2. Reserved(size) = [i \in 0 .. k |->
                IF i = 0 THEN 0 ELSE t(i - 1) + Lesser(Lesser(min, size[i]), MaxPoints - t(i - 1))]
    BY ReservedEquation, Zenon
  <2> HIDE DEF k, min
  <2> QED  BY <2>1, <2>2
<1> HIDE DEF k, t, min
<1> DEFINE S == {i \in 0 .. k : t(i) \in 0 .. MaxPoints /\ (k <= MaxPoints => t(i) <= min * i)}
<1>3. ASSUME NEW i \in 1 .. k, t(i - 1) \in 0 .. MaxPoints,
             k <= MaxPoints => t(i - 1) <= min * (i - 1)
      PROVE  /\ t(i) \in 0 .. MaxPoints /\ t(i - 1) <= t(i) /\ t(i) - t(i - 1) <= size[i]
             /\ k <= MaxPoints => t(i) <= min * i /\ t(i) - t(i - 1) = Lesser(min, size[i])
  <2>1. t(i) = t(i - 1) + Lesser(Lesser(min, size[i]), MaxPoints - t(i - 1)) /\ size[i] \in Nat
    BY <1>1, <1>2
  <2>2. PICK l \in Int : l = Lesser(min, size[i]) /\ 0 <= l /\ l <= min /\ l <= size[i]
    BY <1>1, <2>1 DEF Lesser
  <2>3. PICK c \in Int : c = t(i - 1) /\ 0 <= c /\ c <= MaxPoints
    BY <1>1, <1>3
  <2>4. PICK d \in Int : /\ d = Lesser(l, MaxPoints - c) /\ 0 <= d /\ d <= l
                         /\ d <= MaxPoints - c
                         /\ l <= MaxPoints - c => d = l
    <3>1. MaxPoints - c \in Int /\ 0 <= MaxPoints - c
      BY <1>1, <2>3
    <3> QED  BY <2>2, <3>1 DEF Lesser
  <2>5. t(i) = c + d
    BY <2>1, <2>2, <2>3, <2>4
  <2>6. c + d \in 0 .. MaxPoints /\ c <= c + d /\ (c + d) - c <= size[i]
    <3>1. MaxPoints \in Int /\ size[i] \in Int /\ d <= size[i]
      BY <1>1, <2>1, <2>2, <2>4
    <3>2. d <= MaxPoints - c /\ 0 <= d /\ 0 <= c
      BY <2>3, <2>4
    <3> HIDE DEF S
    <3> QED  BY <3>1, <3>2
  <2>7. t(i) \in 0 .. MaxPoints /\ t(i - 1) <= t(i) /\ t(i) - t(i - 1) <= size[i]
    BY <2>3, <2>5, <2>6
  <2>8. ASSUME k <= MaxPoints PROVE t(i) <= min * i /\ t(i) - t(i - 1) = Lesser(min, size[i])
    <3>1. PICK p \in Int : p = min * i /\ min * (i - 1) = p - min /\ p <= MaxPoints
      <4>1. min * i \in Int /\ min * (i - 1) = min * i - min /\ min * i <= min * k
        BY <1>1
      <4> QED  BY <1>1, <2>8, <4>1
    <3>2. c <= p - min
      BY <1>3, <2>3, <2>8, <3>1
    <3>3. d = l
      BY <1>1, <2>2, <2>3, <2>4, <3>1, <3>2
    <3>4. c + d <= p /\ (c + d) - c = l
      BY <1>1, <2>2, <2>3, <2>4, <3>1, <3>2, <3>3
    <3> QED  BY <2>2, <2>3, <2>5, <3>1, <3>4
  <2> QED  BY <2>7, <2>8
<1>4. \A i \in 0 .. k : i \in S
  <2>1. 0 \in S
    BY <1>1, <1>2
  <2>2. ASSUME NEW i \in 0 .. k - 1, i \in S PROVE i + 1 \in S
    <3>1. i + 1 \in 1 .. k /\ (i + 1) - 1 = i /\ i + 1 \in 0 .. k
      BY <1>1
    <3> QED  BY <1>3, <2>2, <3>1
  <2> HIDE DEF S
  <2> QED  BY <1>1, <2>1, <2>2, Climb
<1>5. \A i \in 1 .. k : i - 1 \in 0 .. k
  BY <1>1
<1>6. \A i \in 1 .. k : /\ t(i - 1) <= t(i) /\ t(i) - t(i - 1) <= size[i]
                        /\ k <= MaxPoints => t(i) - t(i - 1) = Lesser(min, size[i])
  BY <1>3, <1>4, <1>5
<1>7. Reserved(size) \in [0 .. k -> 0 .. MaxPoints]
  BY <1>2, <1>4
<1> QED  BY <1>2, <1>6, <1>7 DEF k, t, min
----------------------------------------------------------------------------
(* Tallies. *)

Units(f) == UNION {{i} \X (1 .. f[i]) : i \in DOMAIN f}

\* The units of a table are its numbers, counted out.
LEMMA UnitsAre ==
    ASSUME NEW f
    PROVE  /\ Tally(f) = Cardinality(Units(f))
           /\ \A i, c : <<i, c>> \in Units(f) <=> i \in DOMAIN f /\ c \in 1 .. f[i]
           /\ \A u \in Units(f) : \E i \in DOMAIN f : \E c \in 1 .. f[i] : u = <<i, c>>
BY DEF Tally, Units

\* What is counted in parts that share nothing is counted in the whole.
LEMMA TallyParts ==
    ASSUME NEW f, NEW g, NEW W, IsFiniteSet(Units(f)),
           \A b \in DOMAIN g : W[b] \subseteq DOMAIN f /\ g[b] = Tally([a \in W[b] |-> f[a]]),
           \A a \in DOMAIN f : \E b \in DOMAIN g : a \in W[b],
           \A b, c \in DOMAIN g : b # c => W[b] \cap W[c] = {}
    PROVE  IsFiniteSet(Units(g)) /\ Tally(g) = Tally(f)
<1> DEFINE part(b) == [a \in W[b] |-> f[a]]
           number(b) == CHOOSE h : h \in Bijection(1 .. g[b], Units(part(b)))
           H == [u \in Units(g) |-> number(u[1])[u[2]]]
<1>1. ASSUME NEW b \in DOMAIN g
      PROVE  /\ g[b] \in Nat /\ Units(part(b)) \subseteq Units(f)
             /\ \A a, c : <<a, c>> \in Units(part(b)) <=> a \in W[b] /\ <<a, c>> \in Units(f)
             /\ number(b) \in Bijection(1 .. g[b], Units(part(b)))
  <2>1. DOMAIN part(b) = W[b] /\ \A a \in W[b] : part(b)[a] = f[a]
    OBVIOUS
  <2>2. \A a, c : <<a, c>> \in Units(part(b)) <=> a \in W[b] /\ <<a, c>> \in Units(f)
    BY <2>1, UnitsAre
  <2>3. Units(part(b)) \subseteq Units(f)
    BY <2>2, UnitsAre
  <2>4. IsFiniteSet(Units(part(b))) /\ g[b] = Cardinality(Units(part(b)))
    BY <2>3, FS_Subset, UnitsAre
  <2>5. g[b] \in Nat /\ ExistsBijection(1 .. g[b], Units(part(b)))
    BY <2>4, FS_CardinalityType
  <2>6. number(b) \in Bijection(1 .. g[b], Units(part(b)))
    BY <2>5 DEF ExistsBijection
  <2> QED  BY <2>2, <2>3, <2>5, <2>6
<1> HIDE DEF part, number
<1>2. \A b \in DOMAIN g : \A c \in 1 .. g[b] : H[<<b, c>>] = number(b)[c]
          /\ number(b)[c] \in Units(part(b))
  <2> SUFFICES ASSUME NEW b \in DOMAIN g, NEW c \in 1 .. g[b]
               PROVE  H[<<b, c>>] = number(b)[c] /\ number(b)[c] \in Units(part(b))
    OBVIOUS
  <2>1. <<b, c>> \in Units(g) /\ <<b, c>>[1] = b /\ <<b, c>>[2] = c
    BY UnitsAre
  <2>2. number(b)[c] \in Units(part(b))
    BY <1>1 DEF Bijection, Injection
  <2> QED  BY <2>1, <2>2
<1> HIDE DEF H
<1>3. ASSUME NEW u \in Units(g) PROVE H[u] \in Units(f)
  BY <1>1, <1>2, UnitsAre
<1>4. ASSUME NEW u \in Units(g), NEW v \in Units(g), H[u] = H[v] PROVE u = v
  <2>1. PICK b \in DOMAIN g : \E c \in 1 .. g[b] : u = <<b, c>>
    BY UnitsAre
  <2>2. PICK d \in DOMAIN g : \E e \in 1 .. g[d] : v = <<d, e>>
    BY UnitsAre
  <2> PICK c \in 1 .. g[b] : u = <<b, c>>
    BY <2>1
  <2> PICK e \in 1 .. g[d] : v = <<d, e>>
    BY <2>2
  <2>3. number(b)[c] \in Units(part(b)) /\ number(b)[c] \in Units(part(d))
            /\ number(b)[c] = number(d)[e]
    BY <1>2, <1>4
  <2>4. PICK i, q : number(b)[c] = <<i, q>>
    BY <2>3, UnitsAre
  <2>5. i \in W[b] /\ i \in W[d]
    BY <1>1, <2>3, <2>4
  <2>6. b = d
    BY <2>5
  <2>7. c = e
    BY <1>1, <2>3, <2>6 DEF Bijection, Injection, IsInjective
  <2> QED  BY <2>6, <2>7
<1>5. ASSUME NEW v \in Units(f) PROVE \E u \in Units(g) : H[u] = v
  <2>1. PICK i \in DOMAIN f : \E q \in 1 .. f[i] : v = <<i, q>>
    BY UnitsAre
  <2>2. PICK b \in DOMAIN g : i \in W[b]
    OBVIOUS
  <2>3. v \in Units(part(b))
    BY <1>1, <2>1, <2>2
  <2>4. PICK c \in 1 .. g[b] : number(b)[c] = v
    BY <1>1, <2>3 DEF Bijection, Surjection
  <2>5. <<b, c>> \in Units(g) /\ H[<<b, c>>] = v
    BY <1>2, <2>4, UnitsAre
  <2> QED  BY <2>5
<1>6. H \in Bijection(Units(g), Units(f))
  <2>1. H \in [Units(g) -> Units(f)]
    BY <1>3 DEF H
  <2> QED  BY <1>4, <1>5, <2>1 DEF Bijection, Injection, Surjection, IsInjective
<1>7. IsFiniteSet(Units(g)) /\ Cardinality(Units(g)) = Cardinality(Units(f))
  BY <1>6, FS_Injection, FS_Surjection DEF Bijection
<1> QED  BY <1>7, UnitsAre

\* A table of numbers with a finite domain has finitely many units.
LEMMA UnitsFinite ==
    ASSUME NEW f, IsFiniteSet(DOMAIN f), \A i \in DOMAIN f : f[i] \in Nat
    PROVE  IsFiniteSet(Units(f)) /\ Tally(f) \in Nat
<1> DEFINE G == [i \in DOMAIN f |-> {i} \X (1 .. f[i])]
           T == {{i} \X (1 .. f[i]) : i \in DOMAIN f}
<1>1. G \in Surjection(DOMAIN f, T)
  BY DEF Surjection
<1>2. IsFiniteSet(T)
  <2> HIDE DEF G, T
  <2> QED  BY <1>1, FS_Surjection
<1>3. ASSUME NEW U \in T PROVE IsFiniteSet(U)
  <2>1. PICK i \in DOMAIN f : U = {i} \X (1 .. f[i])
    OBVIOUS
  <2>2. IsFiniteSet({i})
    BY FS_Singleton
  <2>3. IsFiniteSet(1 .. f[i])
    BY FS_Interval
  <2> QED  BY <2>1, <2>2, <2>3, FS_Product
<1>4. IsFiniteSet(UNION T)
  <2> HIDE DEF T
  <2> QED  BY <1>2, <1>3, FS_UNION
<1>5. IsFiniteSet(Units(f))
  BY <1>4, Zenon DEF Units
<1> QED  BY <1>5, FS_CardinalityType, UnitsAre

\* Counting no more of each counts no more.
LEMMA TallyLess ==
    ASSUME NEW f, NEW g, IsFiniteSet(Units(g)), DOMAIN f \subseteq DOMAIN g,
           \A i \in DOMAIN f : f[i] \in Nat /\ g[i] \in Nat /\ f[i] <= g[i]
    PROVE  IsFiniteSet(Units(f)) /\ Tally(f) <= Tally(g)
<1>1. Units(f) \subseteq Units(g)
  <2> SUFFICES ASSUME NEW u \in Units(f) PROVE u \in Units(g)
    OBVIOUS
  <2>1. PICK i \in DOMAIN f : \E c \in 1 .. f[i] : u = <<i, c>>
    BY UnitsAre
  <2>2. PICK c \in 1 .. f[i] : u = <<i, c>>
    BY <2>1
  <2>3. c \in 1 .. g[i]
    OBVIOUS
  <2> QED  BY <2>2, <2>3, UnitsAre
<1> QED  BY <1>1, FS_Subset, UnitsAre

\* g has one more of q at most.
AtMostOneMore(f, g, q) ==
    /\ DOMAIN f = DOMAIN g
    /\ \A i \in DOMAIN f : f[i] \in Nat /\ (g[i] = f[i] \/ (i = q /\ g[i] = f[i] + 1))

\* One more in one place is at most one more in the sum.
LEMMA TallyOneMore ==
    ASSUME NEW f, NEW g, NEW q, IsFiniteSet(Units(f)), AtMostOneMore(f, g, q)
    PROVE  IsFiniteSet(Units(g)) /\ Tally(g) <= Tally(f) + 1
<1> DEFINE x == <<q, f[q] + 1>>
<1>1. Units(g) \subseteq Units(f) \cup {x}
  <2> SUFFICES ASSUME NEW u \in Units(g), u # x PROVE u \in Units(f)
    OBVIOUS
  <2>1. PICK i \in DOMAIN g : \E c \in 1 .. g[i] : u = <<i, c>>
    BY UnitsAre
  <2>2. PICK c \in 1 .. g[i] : u = <<i, c>>
    BY <2>1
  <2>3. i \in DOMAIN f /\ c \in 1 .. f[i]
    BY <2>2 DEF AtMostOneMore
  <2> QED  BY <2>2, <2>3, UnitsAre
<1> HIDE DEF x
<1>2. IsFiniteSet(Units(f) \cup {x}) /\ Cardinality(Units(f) \cup {x}) <= Cardinality(Units(f)) + 1
  <2>1. Cardinality(Units(f)) \in Nat
    BY FS_CardinalityType
  <2>2. /\ IsFiniteSet(Units(f) \cup {x})
        /\ Cardinality(Units(f) \cup {x}) = IF x \in Units(f) THEN Cardinality(Units(f))
                                             ELSE Cardinality(Units(f)) + 1
    BY FS_AddElement
  <2> QED  BY <2>1, <2>2
<1>3. IsFiniteSet(Units(g)) /\ Cardinality(Units(g)) <= Cardinality(Units(f) \cup {x})
  BY <1>1, <1>2, FS_Subset
<1>4. Cardinality(Units(g)) \in Nat /\ Cardinality(Units(f)) \in Nat
          /\ Cardinality(Units(f) \cup {x}) \in Nat
  BY <1>2, <1>3, FS_CardinalityType
<1> QED  BY <1>2, <1>3, <1>4, UnitsAre
----------------------------------------------------------------------------
(* Budgets. *)

ReserveOf(size) == [i \in DOMAIN size |-> Reserved(size)[i] - Reserved(size)[i - 1]]

\* The reserved points add up to no more than Reserved counts.
LEMMA ReserveTally ==
    ASSUME NEW size, size \in Seq(Nat)
    PROVE  /\ ReserveOf(size) \in [DOMAIN size -> Nat]
           /\ IsFiniteSet(Units(ReserveOf(size)))
           /\ Tally(ReserveOf(size)) <= Reserved(size)[Len(size)]
<1> DEFINE k == Len(size)
           t(i) == Reserved(size)[i]
           r == ReserveOf(size)
           part(i) == [j \in 1 .. i |-> r[j]]
           S == {i \in 0 .. k : IsFiniteSet(Units(part(i))) /\ Tally(part(i)) <= t(i)}
<1>1. k \in Nat /\ DOMAIN size = 1 .. k
  OBVIOUS
<1>2. /\ \A i \in 0 .. k : t(i) \in Nat
      /\ t(0) = 0 /\ \A i \in 1 .. k : t(i - 1) <= t(i) /\ t(i - 1) \in Nat
  <2>1. \A i \in 1 .. k : i - 1 \in 0 .. k
    BY <1>1
  <2>2. 0 .. MaxPoints \subseteq Nat
    BY MaxPointsIs
  <2> QED  BY <2>1, <2>2, ReservedIs
<1>3. \A i \in 1 .. k : r[i] = t(i) - t(i - 1) /\ r[i] \in Nat
  BY <1>1, <1>2 DEF ReserveOf
<1>4. r \in [1 .. k -> Nat]
  BY <1>1, <1>3 DEF ReserveOf
<1> HIDE DEF k, t, r
<1>5. 0 \in S
  <2>1. Units(part(0)) = {}
    BY DEF Units
  <2>2. IsFiniteSet(Units(part(0))) /\ Tally(part(0)) = 0
    BY <2>1, FS_EmptySet, UnitsAre
  <2> HIDE DEF part
  <2> QED  BY <1>1, <1>2, <2>2
<1>6. ASSUME NEW i \in 0 .. k - 1, i \in S PROVE i + 1 \in S
  <2> DEFINE U == {i + 1} \X (1 .. r[i + 1])
             V == Units(part(i))
  <2>1. i + 1 \in 1 .. k /\ i + 1 \in 0 .. k /\ (i + 1) - 1 = i /\ i \in 0 .. k
    BY <1>1
  <2>2. r[i + 1] \in Nat /\ r[i + 1] = t(i + 1) - t(i)
    BY <1>3, <2>1
  <2>3. IsFiniteSet(U) /\ Cardinality(U) = r[i + 1]
    <3>1. /\ IsFiniteSet({i + 1}) /\ Cardinality({i + 1}) = 1
      BY FS_Singleton
    <3>2. IsFiniteSet(1 .. r[i + 1]) /\ Cardinality(1 .. r[i + 1]) = r[i + 1]
      BY <2>2, FS_Interval
    <3>3. IsFiniteSet(U) /\ Cardinality(U) = 1 * r[i + 1]
      BY <3>1, <3>2, FS_Product
    <3> QED  BY <2>2, <3>3
  <2>4. Units(part(i + 1)) = V \cup U
    <3>1. \A j : j \in 1 .. i + 1 <=> j \in 1 .. i \/ j = i + 1
      BY <1>1
    <3> QED  BY <3>1 DEF Units
  <2>5. IsFiniteSet(V) /\ Cardinality(V) <= t(i)
    BY <1>6, UnitsAre
  <2> HIDE DEF U, V
  <2>6. /\ IsFiniteSet(V \cup U)
        /\ Cardinality(V \cup U) = Cardinality(V) + Cardinality(U) - Cardinality(V \cap U)
    BY <2>3, <2>5, FS_Union, ZenonT(30)
  <2>7. Cardinality(V \cap U) \in Nat /\ Cardinality(V) \in Nat
    <3>1. V \cap U \subseteq V
      OBVIOUS
    <3> QED  BY <2>5, <3>1, FS_Subset, FS_CardinalityType
  <2>8. Cardinality(V \cup U) <= t(i + 1)
    BY <1>2, <2>1, <2>2, <2>3, <2>5, <2>6, <2>7
  <2>9. Tally(part(i + 1)) = Cardinality(V \cup U)
    BY <2>4, UnitsAre
  <2> HIDE DEF part
  <2> QED  BY <2>1, <2>4, <2>6, <2>8, <2>9
<1>7. k \in S
  <2>1. \A i \in 0 .. k : i \in S
    <3> HIDE DEF S
    <3> QED  BY <1>1, <1>5, <1>6, Climb
  <2> QED  BY <1>1, <2>1
<1>8. part(k) = r
  BY <1>4
<1> QED  BY <1>1, <1>4, <1>7, <1>8 DEF k, t, r

\* At most one series gets the next point.
LEMMA NeediestIsOne ==
    ASSUME NEW size, size \in Seq(Nat), NEW budget \in [DOMAIN size -> Nat],
           NEW i \in Neediest(size, budget), NEW j \in Neediest(size, budget)
    PROVE  i = j
<1>1. /\ i \in DOMAIN size /\ j \in DOMAIN size /\ i \in Int /\ j \in Int
      /\ budget[i] < size[i] /\ budget[j] < size[j]
  BY DEF Neediest
<1> DEFINE x == size[i] * (budget[j] + 1)
           y == size[j] * (budget[i] + 1)
<1>2. x \in Int /\ y \in Int
  BY <1>1
<1>3. x > y \/ (x = y /\ i <= j)
  BY <1>1 DEF Neediest
<1>4. y > x \/ (y = x /\ j <= i)
  BY <1>1 DEF Neediest
<1> HIDE DEF x, y
<1> QED  BY <1>1, <1>2, <1>3, <1>4

Grant(size, b) == [i \in DOMAIN size |-> b[i] + IF i \in Neediest(size, b) THEN 1 ELSE 0]

\* A point goes to one series, to one with rows of which it has no point yet.
LEMMA GrantIs ==
    ASSUME NEW size, size \in Seq(Nat), NEW b \in [DOMAIN size -> Nat],
           \A i \in DOMAIN size : b[i] <= size[i]
    PROVE  /\ Grant(size, b) \in [DOMAIN size -> Nat]
           /\ \A i \in DOMAIN size : b[i] <= Grant(size, b)[i] /\ Grant(size, b)[i] <= size[i]
           /\ IsFiniteSet(Units(b)) =>
                IsFiniteSet(Units(Grant(size, b))) /\ Tally(Grant(size, b)) <= Tally(b) + 1
<1> DEFINE g == Grant(size, b)
<1>1. g \in [DOMAIN size -> Nat]
  BY DEF Grant
<1>2. \A i \in DOMAIN size : b[i] <= g[i] /\ g[i] <= size[i]
  <2> SUFFICES ASSUME NEW i \in DOMAIN size PROVE b[i] <= g[i] /\ g[i] <= size[i]
    OBVIOUS
  <2>1. b[i] \in Nat /\ size[i] \in Nat /\ b[i] <= size[i]
    OBVIOUS
  <2>2. g[i] = b[i] + (IF i \in Neediest(size, b) THEN 1 ELSE 0)
    BY DEF Grant
  <2>3. i \in Neediest(size, b) => b[i] < size[i]
    BY DEF Neediest
  <2> HIDE DEF g
  <2> QED  BY <2>1, <2>2, <2>3
<1>3. PICK q : \A i \in Neediest(size, b) : i = q
  <2>1. \A i, j \in Neediest(size, b) : i = j
    BY NeediestIsOne
  <2>2. CASE Neediest(size, b) = {}
    <3>1. \A i \in Neediest(size, b) : i = 0
      BY <2>2
    <3> QED  BY <3>1, Zenon
  <2>3. CASE Neediest(size, b) # {}
    <3>1. PICK q \in Neediest(size, b) : TRUE
      BY <2>3
    <3>2. \A i \in Neediest(size, b) : i = q
      BY <2>1
    <3> QED  BY <3>2, Zenon
  <2> QED  BY <2>2, <2>3
<1>4. \A i \in DOMAIN size : b[i] \in Nat /\ (g[i] = b[i] \/ (i = q /\ g[i] = b[i] + 1))
  BY <1>3 DEF Grant
<1>5. AtMostOneMore(b, g, q)
  BY <1>1, <1>4 DEF AtMostOneMore
<1> HIDE DEF g
<1>6. IsFiniteSet(Units(b)) => IsFiniteSet(Units(g)) /\ Tally(g) <= Tally(b) + 1
  BY <1>5, TallyOneMore
<1> QED  BY <1>1, <1>2, <1>6 DEF g

\* Granted is the table its recursive definition describes.
LEMMA GrantedEquation ==
    ASSUME NEW size, size \in Seq(Nat)
    PROVE  Granted(size) =
             [m \in 0 .. MaxPoints - Reserved(size)[Len(size)] |->
                IF m = 0 THEN ReserveOf(size) ELSE Grant(size, Granted(size)[m - 1])]
<1> DEFINE k == MaxPoints - Reserved(size)[Len(size)]
           T == [DOMAIN size -> Nat]
           c == ReserveOf(size)
           step == [m \in 1 .. k |-> [b \in T |-> Grant(size, b)]]
<1>1. k \in Nat /\ c \in T
  <2>1. Len(size) \in 0 .. Len(size)
    OBVIOUS
  <2>2. Reserved(size)[Len(size)] \in 0 .. MaxPoints
    BY <2>1, ReservedIs
  <2> QED  BY <2>2, ReserveTally, MaxPointsIs
<1>2. \A b \in T : Grant(size, b) \in T
  BY DEF Grant
<1>3. step \in [1 .. k -> [T -> T]]
  BY <1>2
<1>4. \A b \in T, m \in 1 .. k : step[m][b] = Grant(size, b)
  OBVIOUS
<1> HIDE DEF step
<1>5. Solutions(T, k, c, step) # {}
  <2> HIDE DEF k, T, c
  <2> QED  BY <1>1, <1>3, Recursion
<1>6. PICK f : f = [m \in 0 .. k |-> IF m = 0 THEN c ELSE Grant(size, f[m - 1])]
  <2> HIDE DEF k, T, c
  <2>1. PICK f \in [0 .. k -> T] : f[0] = c /\ \A m \in 1 .. k : f[m] = step[m][f[m - 1]]
    BY <1>5 DEF Solutions
  <2>2. ASSUME NEW m \in 1 .. k PROVE f[m - 1] \in T /\ f[m] = Grant(size, f[m - 1])
    <3>1. m - 1 \in 0 .. k
      BY <1>1
    <3> QED  BY <2>1, <3>1, <1>4
  <2>3. f = [m \in 0 .. k |-> IF m = 0 THEN c ELSE Grant(size, f[m - 1])]
    BY <1>1, <2>1, <2>2
  <2> QED  BY <2>3
<1> QED  BY <1>6, Zenon DEF Granted, Grant, ReserveOf

\* The budgets share no more than MaxPoints, give no series more than it has rows and, if
\* there are points for all, none less than its minimum.
LEMMA BudgetsAre ==
    ASSUME NEW size, size \in Seq(Nat)
    PROVE  /\ Budgets(size) \in [DOMAIN size -> Nat]
           /\ IsFiniteSet(Units(Budgets(size))) /\ Tally(Budgets(size)) <= MaxPoints
           /\ \A i \in DOMAIN size :
                /\ Budgets(size)[i] <= size[i]
                /\ Len(size) <= MaxPoints =>
                     Lesser(Minimum(Len(size)), size[i]) <= Budgets(size)[i]
<1> DEFINE used == Reserved(size)[Len(size)]
           k == MaxPoints - used
           g(m) == Granted(size)[m]
           c == ReserveOf(size)
           Good(m, b) == /\ b \in [DOMAIN size -> Nat]
                         /\ \A i \in DOMAIN size : c[i] <= b[i] /\ b[i] <= size[i]
                         /\ IsFiniteSet(Units(b)) /\ Tally(b) <= used + m
           S == {m \in 0 .. k : Good(m, g(m))}
<1>1. used \in Nat /\ MaxPoints \in Nat /\ k \in Nat
  <2>1. Len(size) \in 0 .. Len(size)
    OBVIOUS
  <2>2. Reserved(size)[Len(size)] \in 0 .. MaxPoints
    BY <2>1, ReservedIs
  <2> QED  BY <2>2, MaxPointsIs
<1>2. g(0) = c /\ \A m \in 1 .. k : g(m) = Grant(size, g(m - 1))
  <2>1. Granted(size) = [m \in 0 .. k |-> IF m = 0 THEN c ELSE Grant(size, g(m - 1))]
    BY GrantedEquation, Zenon
  <2> HIDE DEF k, c
  <2> QED  BY <1>1, <2>1
<1>3. /\ c \in [DOMAIN size -> Nat] /\ IsFiniteSet(Units(c)) /\ Tally(c) <= used
      /\ Tally(c) \in Nat
      /\ \A i \in DOMAIN size : /\ c[i] <= size[i]
                                /\ Len(size) <= MaxPoints
                                       => c[i] = Lesser(Minimum(Len(size)), size[i])
  <2>1. Tally(c) \in Nat
    BY ReserveTally, UnitsAre, FS_CardinalityType
  <2>2. \A i \in DOMAIN size : /\ c[i] <= size[i]
                               /\ Len(size) <= MaxPoints
                                      => c[i] = Lesser(Minimum(Len(size)), size[i])
    BY ReservedIs DEF ReserveOf
  <2> QED  BY <2>1, <2>2, ReserveTally
<1> HIDE DEF used, c
<1>4. 0 \in S
  <2>1. Good(0, c)
    BY <1>1, <1>3
  <2> QED  BY <1>1, <1>2, <2>1
<1>5. ASSUME NEW m \in 0 .. k - 1, m \in S PROVE m + 1 \in S
  <2>1. m + 1 \in 1 .. k /\ m + 1 \in 0 .. k /\ (m + 1) - 1 = m /\ m \in Nat
    BY <1>1
  <2> DEFINE b == g(m)
             d == Grant(size, b)
  <2>2. g(m + 1) = d
    BY <1>2, <2>1
  <2>3. Good(m, b)
    BY <1>5
  <2> HIDE DEF b, g
  <2>4. /\ d \in [DOMAIN size -> Nat]
        /\ \A i \in DOMAIN size : b[i] <= d[i] /\ d[i] <= size[i]
        /\ IsFiniteSet(Units(d)) /\ Tally(d) <= Tally(b) + 1
    BY <2>3, GrantIs
  <2>5. Tally(b) \in Nat /\ Tally(d) \in Nat
    BY <2>3, <2>4, UnitsAre, FS_CardinalityType
  <2> HIDE DEF d
  <2>6. \A i \in DOMAIN size : c[i] <= d[i]
    BY <1>3, <2>3, <2>4
  <2>7. Tally(d) <= used + (m + 1)
    BY <1>1, <2>1, <2>3, <2>4, <2>5
  <2>8. Good(m + 1, d)
    BY <2>4, <2>6, <2>7
  <2> HIDE DEF Good
  <2> QED  BY <2>1, <2>2, <2>8
<1>6. k \in S
  <2>1. \A m \in 0 .. k : m \in S
    <3> HIDE DEF S, k
    <3> QED  BY <1>1, <1>4, <1>5, Climb
  <2> QED  BY <1>1, <2>1
<1>7. Good(k, g(k)) /\ used + k = MaxPoints
  BY <1>1, <1>6
<1>8. Budgets(size) = g(k)
  BY DEF Budgets, used
<1> HIDE DEF k, g
<1> QED  BY <1>3, <1>7, <1>8
----------------------------------------------------------------------------
(* Listings. *)

StrictOrder(S, R) ==
    /\ \A x \in S : <<x, x>> \notin R
    /\ \A x, y \in S : x # y => <<x, y>> \in R \/ <<y, x>> \in R
    /\ \A x, y, z \in S : <<x, y>> \in R /\ <<y, z>> \in R => <<x, z>> \in R

\* list names every member of S once, in the order R.
Lists(list, S, R) ==
    /\ list \in [1 .. Cardinality(S) -> S] /\ Cardinality(S) \in Nat
    /\ \A x \in S : \E i \in 1 .. Cardinality(S) : list[i] = x
    /\ \A i, j \in 1 .. Cardinality(S) : i < j => <<list[i], list[j]>> \in R
    /\ \A i, j \in 1 .. Cardinality(S) : list[i] = list[j] => i = j

\* The members of a finite set can be listed, in any strict order of them.
LEMMA ListingIs ==
    ASSUME NEW S, NEW R, IsFiniteSet(S), StrictOrder(S, R)
    PROVE  Lists(Listing(S, R), S, R)
<1> DEFINE n == Cardinality(S)
           Before(x) == {y \in S : <<y, x>> \in R}
           rank == [x \in S |-> Cardinality(Before(x)) + 1]
           list == Listing(S, R)
<1>1. n \in Nat
  BY FS_CardinalityType
<1>2. ASSUME NEW x \in S
      PROVE  IsFiniteSet(Before(x)) /\ Cardinality(Before(x)) \in Nat /\ rank[x] \in 1 .. n
  <2>1. Before(x) \subseteq S \ {x}
    BY DEF StrictOrder
  <2>2. IsFiniteSet(S \ {x}) /\ Cardinality(S \ {x}) = n - 1
    BY FS_RemoveElement
  <2>3. IsFiniteSet(Before(x)) /\ Cardinality(Before(x)) <= n - 1
    <3> DEFINE T == S \ {x}
               U == Before(x)
    <3>1. IsFiniteSet(T) /\ U \subseteq T /\ Cardinality(T) = n - 1
      BY <2>1, <2>2
    <3> HIDE DEF T, U
    <3>2. IsFiniteSet(U) /\ Cardinality(U) <= n - 1
      BY <3>1, FS_Subset
    <3> QED  BY <3>2 DEF U
  <2>4. Cardinality(Before(x)) \in Nat
    BY <2>3, FS_CardinalityType
  <2> HIDE DEF Before
  <2> QED  BY <1>1, <2>3, <2>4
<1>3. ASSUME NEW x \in S, NEW y \in S, <<x, y>> \in R PROVE rank[x] < rank[y]
  <2> DEFINE B == Before(x)
  <2>1. x \notin B /\ B \cup {x} \subseteq Before(y)
    BY <1>3 DEF StrictOrder
  <2>2. IsFiniteSet(B) /\ Cardinality(B) \in Nat /\ IsFiniteSet(Before(y))
    BY <1>2
  <2> HIDE DEF B
  <2>3. IsFiniteSet(B \cup {x}) /\ Cardinality(B \cup {x}) = Cardinality(B) + 1
    BY <2>1, <2>2, FS_AddElement
  <2>4. Cardinality(B \cup {x}) <= Cardinality(Before(y))
    BY <2>1, <2>2, FS_Subset
  <2>5. rank[x] = Cardinality(B) + 1 /\ rank[y] = Cardinality(Before(y)) + 1
    BY DEF B
  <2>6. Cardinality(Before(y)) \in Nat
    BY <1>2
  <2> HIDE DEF Before, rank
  <2> QED  BY <2>2, <2>3, <2>4, <2>5, <2>6
<1>4. \A x \in S : list[rank[x]] = x
  <2> SUFFICES ASSUME NEW x \in S PROVE list[rank[x]] = x
    OBVIOUS
  <2>1. rank[x] \in 1 .. n /\ Cardinality(Before(x)) \in Nat /\ rank[x] = Cardinality(Before(x)) + 1
    BY <1>2
  <2>2. list[rank[x]] = CHOOSE y \in S : Cardinality(Before(y)) = rank[x] - 1
    BY <2>1 DEF Listing
  <2>3. Cardinality(Before(x)) = rank[x] - 1
    BY <2>1
  <2>4. ASSUME NEW y \in S, Cardinality(Before(y)) = rank[x] - 1 PROVE y = x
    <3>1. rank[y] = rank[x]
      BY <2>1, <2>4
    <3>2. <<x, y>> \notin R /\ <<y, x>> \notin R
      BY <1>2, <1>3, <3>1
    <3> QED  BY <3>2 DEF StrictOrder
  <2> HIDE DEF Before, rank, list
  <2> QED  BY <2>2, <2>3, <2>4
<1>5. rank \in [S -> 1 .. n] /\ IsFiniteSet(1 .. n) /\ Cardinality(1 .. n) = n
  <2>1. rank \in [S -> 1 .. n]
    BY <1>2
  <2> HIDE DEF n
  <2> QED  BY <2>1, <1>1, FS_Interval
<1>6. rank \in Injection(S, 1 .. n)
  <2>1. \A x, y \in S : rank[x] = rank[y] => x = y
    BY <1>4
  <2> HIDE DEF rank, n
  <2> QED  BY <1>5, <2>1 DEF Injection, IsInjective
<1>7. rank \in Surjection(S, 1 .. n)
  <2> HIDE DEF rank
  <2> QED  BY <1>5, <1>6, FS_Injection
<1>8. \A i \in 1 .. n : \E x \in S : rank[x] = i
  BY <1>7 DEF Surjection
<1>9. \A i \in 1 .. n : list[i] \in S /\ rank[list[i]] = i
  BY <1>4, <1>8
<1>10. list \in [1 .. n -> S]
  <2> DEFINE nth(m) == CHOOSE x \in S : Cardinality({y \in S : <<y, x>> \in R}) = m - 1
  <2>1. list = [m \in 1 .. n |-> nth(m)]
    BY DEF Listing
  <2> HIDE DEF list, nth, n
  <2> QED  BY <1>9, <2>1
<1>11. \A x \in S : rank[x] \in 1 .. n /\ list[rank[x]] = x
  BY <1>2, <1>4
<1>12. ASSUME NEW i \in 1 .. n, NEW j \in 1 .. n, i < j PROVE <<list[i], list[j]>> \in R
  <2>1. rank[list[i]] = i /\ rank[list[j]] = j /\ list[i] \in S /\ list[j] \in S
    BY <1>9
  <2> HIDE DEF list, rank
  <2>2. i \in Int /\ j \in Int /\ ~(rank[list[j]] < rank[list[i]]) /\ list[i] # list[j]
    BY <1>12, <2>1
  <2>3. <<list[j], list[i]>> \notin R
    BY <1>3, <2>1, <2>2
  <2> QED  BY <2>1, <2>2, <2>3 DEF StrictOrder
<1> HIDE DEF list, rank
<1> QED  BY <1>1, <1>9, <1>10, <1>11, <1>12 DEF Lists, list

LEMMA AscendingIs ==
    ASSUME NEW S, S \subseteq Int, IsFiniteSet(S)
    PROVE  /\ Ascending(S) \in [1 .. Cardinality(S) -> S] /\ Cardinality(S) \in Nat
           /\ \A x \in S : \E i \in 1 .. Cardinality(S) : Ascending(S)[i] = x
           /\ \A i, j \in 1 .. Cardinality(S) : i < j => Ascending(S)[i] < Ascending(S)[j]
           /\ \A i, j \in 1 .. Cardinality(S) : Ascending(S)[i] = Ascending(S)[j] => i = j
<1> DEFINE R == {p \in S \X S : p[1] < p[2]}
<1>1. \A x, y : <<x, y>> \in R <=> x \in S /\ y \in S /\ x < y
  OBVIOUS
<1> HIDE DEF R
<1>2. StrictOrder(S, R)
  BY <1>1 DEF StrictOrder
<1>3. Lists(Listing(S, R), S, R)
  BY <1>2, ListingIs
<1>4. Ascending(S) = Listing(S, R)
  BY DEF Ascending, R
<1>5. Lists(Ascending(S), S, R)
  BY <1>3, <1>4
<1> QED  BY <1>1, <1>5 DEF Lists
----------------------------------------------------------------------------
(* The rows of one series. *)

Charted == [at : Int, series : Series, n : Nat]

Falling(list) == \A i, j \in DOMAIN list : i < j => list[i].at >= list[j].at

\* What the rows of a list are.
LEMMA RecordsAre ==
    ASSUME NEW list, list \in Seq(Charted)
    PROVE  /\ Len(list) \in Nat /\ DOMAIN list = 1 .. Len(list)
           /\ \A i \in 1 .. Len(list) : /\ list[i] \in Charted /\ list[i].at \in Int
                                        /\ list[i].series \in Series /\ list[i].n \in Nat
<1>1. \A i \in 1 .. Len(list) : list[i] \in Charted
  OBVIOUS
<1> QED  BY <1>1 DEF Charted

\* The places of a series in a list, and the rows they hold.
LEMMA PositionsAre ==
    ASSUME NEW list, list \in Seq(Charted), NEW s
    PROVE  /\ Positions(s, list) \subseteq 1 .. Len(list) /\ Positions(s, list) \subseteq Int
           /\ IsFiniteSet(Positions(s, list))
           /\ Cardinality(Positions(s, list)) \in Nat
<1>1. Positions(s, list) \subseteq 1 .. Len(list) /\ Len(list) \in Nat
  BY DEF Positions
<1>2. IsFiniteSet(1 .. Len(list))
  BY <1>1, FS_Interval
<1>3. IsFiniteSet(Positions(s, list))
  BY <1>1, <1>2, FS_Subset
<1> QED  BY <1>1, <1>3, FS_CardinalityType

\* The i-th row of a series is that at the i-th of its positions.
LEMMA RowsOfIs ==
    ASSUME NEW list, list \in Seq(Charted), NEW s
    PROVE  LET P == Positions(s, list)
               m == Cardinality(P)
               place == Ascending(P)
               mine == RowsOf(s, list)
           IN  /\ mine \in Seq(Charted) /\ Len(mine) = m /\ DOMAIN mine = 1 .. m
               /\ place \in [1 .. m -> P]
               /\ \A i \in 1 .. m : mine[i] = list[place[i]] /\ mine[i].series = s
               /\ \A x \in P : \E i \in 1 .. m : place[i] = x
               /\ \A i, j \in 1 .. m : i < j => place[i] < place[j]
               /\ \A i, j \in 1 .. m : place[i] = place[j] => i = j
<1> DEFINE P == Positions(s, list)
           m == Cardinality(P)
           place == Ascending(P)
           mine == RowsOf(s, list)
<1>1. /\ place \in [1 .. m -> P] /\ m \in Nat
      /\ \A x \in P : \E i \in 1 .. m : place[i] = x
      /\ \A i, j \in 1 .. m : i < j => place[i] < place[j]
      /\ \A i, j \in 1 .. m : place[i] = place[j] => i = j
  BY PositionsAre, AscendingIs
<1>2. mine = [i \in 1 .. m |-> list[place[i]]]
  BY <1>1, Zenon DEF RowsOf
<1>3. \A x \in P : x \in DOMAIN list /\ list[x] \in Charted /\ list[x].series = s
  BY DEF Positions
<1> HIDE DEF place, mine, P, m
<1>4. mine \in [1 .. m -> Charted] /\ \A i \in 1 .. m : mine[i] = list[place[i]]
          /\ mine[i].series = s
  BY <1>1, <1>2, <1>3
<1>5. mine \in Seq(Charted) /\ Len(mine) = m /\ DOMAIN mine = 1 .. m
  BY <1>1, <1>4
<1> QED  BY <1>1, <1>4, <1>5 DEF place, mine, P, m

\* The first place from which no row is younger than a bound.
LEMMA UpToIs ==
    ASSUME NEW list, list \in Seq(Charted), NEW i \in 1 .. Len(list) + 1, NEW t \in Int
    PROVE  /\ UpTo(list, i, t) \in i .. Len(list) + 1
           /\ UpTo(list, i, t) <= Len(list) => list[UpTo(list, i, t)].at <= t
           /\ \A h \in i .. UpTo(list, i, t) - 1 : list[h].at > t
<1> DEFINE n == Len(list)
           S == {j \in i .. n + 1 : j <= n => list[j].at <= t}
<1>1. n \in Nat /\ \A h \in 1 .. n : list[h].at \in Int
  BY RecordsAre
<1>2. PICK j \in S : \A h \in S : j <= h
  <2>1. n + 1 \in S /\ S \subseteq Nat
    BY <1>1
  <2> HIDE DEF S
  <2> QED  BY <2>1, LeastNumber
<1>3. \A h \in i .. j - 1 : list[h].at > t
  <2> SUFFICES ASSUME NEW h \in i .. j - 1 PROVE list[h].at > t
    OBVIOUS
  <2>1. h \notin S /\ h \in 1 .. n /\ h \in i .. n + 1
    BY <1>1, <1>2
  <2> QED  BY <1>1, <2>1
<1>4. \E x \in i .. Len(list) + 1 :
        /\ x <= Len(list) => list[x].at <= t
        /\ \A h \in i .. x - 1 : list[h].at > t
  BY <1>2, <1>3
<1> QED  BY <1>4, Zenon DEF UpTo

TheWidth(list, k) == Width(list[1].at - list[Len(list)].at + 1, k)

\* Bucket b, from the one before it.
Bucket(list, k, before, b) ==
    LET first == UpTo(list, before.next, list[1].at - (b - 1) * TheWidth(list, k))
    IN  [first |-> first, next |-> UpTo(list, first, list[1].at - b * TheWidth(list, k))]

\* The bounds of the buckets are numbers.
LEMMA TimesAre ==
    ASSUME NEW list, list \in Seq(Charted), Len(list) >= 1, NEW k \in Nat, k # 0
    PROVE  /\ \A i \in 1 .. Len(list) : list[i].at \in Int
           /\ TheWidth(list, k) \in Int
           /\ \A b \in Int : list[1].at - b * TheWidth(list, k) \in Int
<1>1. \A i \in 1 .. Len(list) : list[i].at \in Int
  BY RecordsAre
<1>2. list[1].at \in Int /\ list[Len(list)].at \in Int
  BY <1>1
<1>3. TheWidth(list, k) \in Int
  BY <1>2 DEF TheWidth, Width
<1> QED  BY <1>1, <1>2, <1>3

\* A bucket starts and ends within the list, or right behind it.
LEMMA BucketIs ==
    ASSUME NEW list, list \in Seq(Charted), Len(list) >= 1, NEW k \in Nat, k # 0,
           NEW before \in [first : 1 .. Len(list) + 1, next : 1 .. Len(list) + 1], NEW b \in 1 .. k
    PROVE  /\ Bucket(list, k, before, b) \in [first : 1 .. Len(list) + 1, next : 1 .. Len(list) + 1]
           /\ before.next <= Bucket(list, k, before, b).first
           /\ Bucket(list, k, before, b).first <= Bucket(list, k, before, b).next
<1> DEFINE n == Len(list)
           first == UpTo(list, before.next, list[1].at - (b - 1) * TheWidth(list, k))
           next == UpTo(list, first, list[1].at - b * TheWidth(list, k))
<1>1. n \in Nat /\ before.next \in 1 .. n + 1
  OBVIOUS
<1>2. list[1].at - (b - 1) * TheWidth(list, k) \in Int /\ list[1].at - b * TheWidth(list, k) \in Int
  <2>1. b \in Int /\ b - 1 \in Int
    OBVIOUS
  <2> QED  BY <2>1, TimesAre
<1>3. first \in before.next .. n + 1
  BY <1>1, <1>2, UpToIs
<1>4. first \in 1 .. n + 1
  BY <1>1, <1>3
<1> HIDE DEF first
<1>5. next \in first .. n + 1
  BY <1>1, <1>2, <1>4, UpToIs
<1>6. Bucket(list, k, before, b) = [first |-> first, next |-> next]
  BY DEF Bucket, first
<1> HIDE DEF next
<1> QED  BY <1>1, <1>3, <1>4, <1>5, <1>6

\* Buckets is the table its recursive definition describes.
LEMMA BucketsEquation ==
    ASSUME NEW list, list \in Seq(Charted), Len(list) >= 1, NEW k \in Nat, k # 0
    PROVE  /\ Buckets(list, k) \in [0 .. k -> [first : 1 .. Len(list) + 1, next : 1 .. Len(list) + 1]]
           /\ Buckets(list, k)[0] = [first |-> 1, next |-> 1]
           /\ \A b \in 1 .. k : Buckets(list, k)[b] = Bucket(list, k, Buckets(list, k)[b - 1], b)
<1> DEFINE T == [first : 1 .. Len(list) + 1, next : 1 .. Len(list) + 1]
           c == [first |-> 1, next |-> 1]
           step == [b \in 1 .. k |-> [x \in T |-> Bucket(list, k, x, b)]]
           range == Buckets(list, k)
<1>1. c \in T
  OBVIOUS
<1>2. \A x \in T, b \in 1 .. k : Bucket(list, k, x, b) \in T
  BY BucketIs
<1>3. step \in [1 .. k -> [T -> T]]
  BY <1>2
<1>4. \A x \in T, b \in 1 .. k : step[b][x] = Bucket(list, k, x, b)
  OBVIOUS
<1> HIDE DEF step, T, c
<1>5. Solutions(T, k, c, step) # {}
  BY <1>1, <1>3, Recursion
<1>6. PICK f : f = [b \in 0 .. k |-> IF b = 0 THEN c ELSE Bucket(list, k, f[b - 1], b)]
  <2>1. PICK f \in [0 .. k -> T] : f[0] = c /\ \A b \in 1 .. k : f[b] = step[b][f[b - 1]]
    BY <1>5 DEF Solutions
  <2>2. ASSUME NEW b \in 1 .. k PROVE f[b - 1] \in T /\ f[b] = Bucket(list, k, f[b - 1], b)
    <3>1. b - 1 \in 0 .. k
      OBVIOUS
    <3> QED  BY <2>1, <3>1, <1>4
  <2>3. \A b \in 0 .. k : f[b] = IF b = 0 THEN c ELSE Bucket(list, k, f[b - 1], b)
    <3> TAKE b \in 0 .. k
    <3>1. b = 0 \/ b \in 1 .. k
      OBVIOUS
    <3> QED  BY <2>1, <2>2, <3>1
  <2> DEFINE g == [b \in 0 .. k |-> IF b = 0 THEN c ELSE Bucket(list, k, f[b - 1], b)]
  <2>4. \A b \in 0 .. k : g[b] = IF b = 0 THEN c ELSE Bucket(list, k, f[b - 1], b)
    OBVIOUS
  <2>5. DOMAIN g = 0 .. k /\ g = [b \in 0 .. k |-> g[b]]
    OBVIOUS
  <2> HIDE DEF g
  <2>6. f = g
    BY <2>1, <2>3, <2>4, <2>5
  <2> QED  BY <2>6 DEF g
<1>7. range = [b \in 0 .. k |-> IF b = 0 THEN c ELSE Bucket(list, k, range[b - 1], b)]
  BY <1>6, Zenon DEF Buckets, Bucket, TheWidth, c
<1> HIDE DEF range
<1>8. range[0] = c /\ \A b \in 1 .. k : range[b] = Bucket(list, k, range[b - 1], b)
  BY <1>7
<1> DEFINE S == {b \in 0 .. k : range[b] \in T}
<1>9. \A b \in 0 .. k : b \in S
  <2>1. 0 \in S
    BY <1>1, <1>8
  <2>2. ASSUME NEW b \in 0 .. k - 1, b \in S PROVE b + 1 \in S
    <3>1. b + 1 \in 1 .. k /\ (b + 1) - 1 = b /\ b + 1 \in 0 .. k
      OBVIOUS
    <3>2. range[b + 1] = Bucket(list, k, range[b], b + 1)
      BY <1>8, <3>1
    <3> QED  BY <1>2, <2>2, <3>1, <3>2
  <2> HIDE DEF S
  <2> QED  BY <2>1, <2>2, Climb
<1>10. range \in [0 .. k -> T]
  BY <1>7, <1>9
<1> QED  BY <1>8, <1>10 DEF range, T, c
----------------------------------------------------------------------------
(* One series. *)

\* The sum of a table with one entry.
LEMMA TallyOne ==
    ASSUME NEW x, NEW v \in Nat
    PROVE  Tally([a \in {x} |-> v]) = v /\ IsFiniteSet(Units([a \in {x} |-> v]))
<1> DEFINE f == [a \in {x} |-> v]
           S == {x}
           T == 1 .. v
<1>1. Units(f) = S \X T
  BY DEF Units
<1>2. IsFiniteSet(S) /\ Cardinality(S) = 1
  BY FS_Singleton
<1>3. IsFiniteSet(T) /\ Cardinality(T) = v
  BY FS_Interval
<1> HIDE DEF f, S, T
<1>4. IsFiniteSet(S \X T) /\ Cardinality(S \X T) = 1 * v
  BY <1>2, <1>3, FS_Product
<1>5. Tally(f) = v /\ IsFiniteSet(Units(f))
  BY <1>1, <1>4, UnitsAre
<1> QED  BY <1>5 DEF f

\* The probes of the rows at the positions in S.
ProbesAt(S, list) == Tally([i \in S |-> list[i].n])

\* The probes some rows stand for are finitely many.
LEMMA ProbesAtType ==
    ASSUME NEW list, list \in Seq(Charted), NEW S, S \subseteq 1 .. Len(list)
    PROVE  /\ IsFiniteSet(S) /\ IsFiniteSet(Units([i \in S |-> list[i].n]))
           /\ ProbesAt(S, list) \in Nat
<1>1. IsFiniteSet(S)
  <2>1. IsFiniteSet(1 .. Len(list))
    BY FS_Interval
  <2> QED  BY <2>1, FS_Subset
<1> DEFINE f == [i \in S |-> list[i].n]
<1>2. DOMAIN f = S /\ \A i \in DOMAIN f : f[i] \in Nat
  BY RecordsAre
<1> HIDE DEF f
<1>3. IsFiniteSet(Units(f)) /\ Tally(f) \in Nat
  BY <1>1, <1>2, UnitsFinite
<1> QED  BY <1>1, <1>3 DEF f, ProbesAt

\* Row out[q] stands for the rows of list at the positions in W[q]: rows of its series,
\* with as many probes, and none all before or all after it.
StandsFor(out, q, list, P) ==
    /\ P \subseteq DOMAIN list /\ P # {}
    /\ out[q].n = ProbesAt(P, list)
    /\ \A i \in P : list[i].series = out[q].series
    /\ \E i, j \in P : list[i].at <= out[q].at /\ out[q].at <= list[j].at

\* Every row of list is part of one of out.
Merges(out, list, W) ==
    /\ \A q \in DOMAIN out : StandsFor(out, q, list, W[q])
    /\ \A i \in DOMAIN list : \E q \in DOMAIN out : i \in W[q]
    /\ \A q, r \in DOMAIN out : q # r => W[q] \cap W[r] = {}

\* A list merges itself, row by row.
LEMMA MergesItself ==
    ASSUME NEW list, list \in Seq(Charted)
    PROVE  Merges(list, list, [i \in DOMAIN list |-> {i}])
<1>1. ASSUME NEW q \in DOMAIN list PROVE StandsFor(list, q, list, {q})
  <2>1. list[q].at \in Int /\ list[q].n \in Nat
    BY RecordsAre
  <2>2. [i \in {q} |-> list[i].n] = [i \in {q} |-> list[q].n]
    OBVIOUS
  <2>3. ProbesAt({q}, list) = list[q].n
    BY <2>1, <2>2, TallyOne DEF ProbesAt
  <2> QED  BY <2>1, <2>3 DEF StandsFor
<1> QED  BY <1>1 DEF Merges

\* The rows of bucket b.
RowsIn(list, k, b) == Buckets(list, k)[b].first .. Buckets(list, k)[b].next - 1

Filled(list, k) == {b \in 1 .. k : Buckets(list, k)[b].first < Buckets(list, k)[b].next}

Untouched(list, since, k) ==
    Len(list) <= k \/ list[1].at <= since \/ list[1].at < list[Len(list)].at

Merged(list, k) ==
    [i \in 1 .. Cardinality(Filled(list, k)) |->
        Point(list, Buckets(list, k)[Ascending(Filled(list, k))[i]])]

\* The buckets that have rows, in their order.
LEMMA FilledAre ==
    ASSUME NEW list, list \in Seq(Charted), Len(list) >= 1, NEW k \in Nat, k # 0
    PROVE  LET F == Filled(list, k)
               m == Cardinality(F)
           IN  /\ F \subseteq 1 .. k /\ m \in Nat /\ m <= k
               /\ Ascending(F) \in [1 .. m -> F]
               /\ \A b \in F : \E i \in 1 .. m : Ascending(F)[i] = b
               /\ \A i, j \in 1 .. m : Ascending(F)[i] = Ascending(F)[j] => i = j
<1> DEFINE F == Filled(list, k)
<1>1. F \subseteq 1 .. k /\ F \subseteq Int
  BY DEF Filled
<1>2. IsFiniteSet(1 .. k) /\ Cardinality(1 .. k) = k
  BY FS_Interval
<1> HIDE DEF F
<1>3. IsFiniteSet(F) /\ Cardinality(F) <= k
  BY <1>1, <1>2, FS_Subset
<1>4. /\ Ascending(F) \in [1 .. Cardinality(F) -> F] /\ Cardinality(F) \in Nat
      /\ \A b \in F : \E i \in 1 .. Cardinality(F) : Ascending(F)[i] = b
      /\ \A i, j \in 1 .. Cardinality(F) : Ascending(F)[i] = Ascending(F)[j] => i = j
  BY <1>1, <1>3, AscendingIs
<1> QED  BY <1>1, <1>3, <1>4 DEF F

\* One point is drawn for each bucket that has rows, unless the list fits as it is.
LEMMA AggregateIs ==
    ASSUME NEW list, list \in Seq(Charted), Len(list) >= 1, NEW k \in Nat, k # 0, NEW since
    PROVE  Aggregate(list, since, k) = IF Untouched(list, since, k) THEN list ELSE Merged(list, k)
<1> DEFINE f == Ascending(Filled(list, k))
<1>1. DOMAIN f = 1 .. Cardinality(Filled(list, k))
  BY FilledAre
<1> QED  BY <1>1, Zenon DEF Aggregate, Untouched, Merged, Filled

\* The point of a bucket is a row as the chart has them.
LEMMA PointIs ==
    ASSUME NEW list, list \in Seq(Charted),
               NEW x \in [first : 1 .. Len(list) + 1, next : 1 .. Len(list) + 1],
           x.first < x.next
    PROVE  /\ Point(list, x) \in Charted
           /\ x.first .. x.next - 1 \subseteq DOMAIN list
           /\ x.first \in x.first .. x.next - 1 /\ x.next - 1 \in x.first .. x.next - 1
           /\ Point(list, x).n = ProbesAt(x.first .. x.next - 1, list)
           /\ Point(list, x).series = list[x.first].series
           /\ list[x.next - 1].at <= list[x.first].at =>
                /\ list[x.next - 1].at <= Point(list, x).at
                /\ Point(list, x).at <= list[x.first].at
<1>1. /\ x.first \in 1 .. Len(list) /\ x.next - 1 \in 1 .. Len(list)
      /\ x.first .. x.next - 1 \subseteq 1 .. Len(list)
      /\ x.first \in x.first .. x.next - 1 /\ x.next - 1 \in x.first .. x.next - 1
  BY RecordsAre
<1> DEFINE a == list[x.first].at
           z == list[x.next - 1].at
           p == Point(list, x)
<1>2. a \in Int /\ z \in Int /\ list[x.first].series \in Series
  BY <1>1, RecordsAre
<1>3. ProbesAt(x.first .. x.next - 1, list) \in Nat
  BY <1>1, ProbesAtType
<1>4. p = [at |-> z + Half(a - z), series |-> list[x.first].series,
           n |-> ProbesAt(x.first .. x.next - 1, list)]
  BY DEF Point, ProbesAt
<1> HIDE DEF a, z, p
<1>5. z + Half(a - z) \in Int /\ (z <= a => z <= z + Half(a - z) /\ z + Half(a - z) <= a)
  BY <1>2 DEF Half
<1> QED  BY <1>1, <1>2, <1>3, <1>4, <1>5, RecordsAre DEF Charted, a, z, p

\* The points of a series are rows as the chart has them, at most as many as its budget.
LEMMA AggregateTyped ==
    ASSUME NEW list, list \in Seq(Charted), Len(list) >= 1, NEW k \in Nat, k # 0, NEW since
    PROVE  Aggregate(list, since, k) \in Seq(Charted)
<1> DEFINE F == Filled(list, k)
           m == Cardinality(F)
<1>1. ASSUME NEW i \in 1 .. m PROVE Point(list, Buckets(list, k)[Ascending(F)[i]]) \in Charted
  <2>1. Ascending(F)[i] \in F /\ F \subseteq 1 .. k
    BY FilledAre
  <2>2. PICK b \in F : b = Ascending(F)[i]
    BY <2>1
  <2>3. /\ Buckets(list, k)[b] \in [first : 1 .. Len(list) + 1, next : 1 .. Len(list) + 1]
        /\ Buckets(list, k)[b].first < Buckets(list, k)[b].next
    <3>1. b \in 0 .. k
      BY <2>1
    <3>2. Buckets(list, k)[b] \in [first : 1 .. Len(list) + 1, next : 1 .. Len(list) + 1]
      BY <3>1, BucketsEquation
    <3>3. Buckets(list, k)[b].first < Buckets(list, k)[b].next
      BY DEF Filled
    <3> QED  BY <3>2, <3>3
  <2>4. Point(list, Buckets(list, k)[b]) \in Charted
    BY <2>3, PointIs
  <2> QED  BY <2>2, <2>4
<1>2. m \in Nat
  BY FilledAre
<1>3. Merged(list, k) \in [1 .. m -> Charted]
  <2> HIDE DEF F
  <2> QED  BY <1>1 DEF Merged, F
<1>4. Merged(list, k) \in Seq(Charted)
  BY <1>2, <1>3
<1> QED  BY <1>4, AggregateIs
----------------------------------------------------------------------------
(* The buckets of one series, newest first. *)

\* The buckets are wide enough together, and none is as wide as the span of two instants.
LEMMA WidthIs ==
    ASSUME NEW span \in Nat, span >= 1, NEW k \in Nat, k >= 1
    PROVE  /\ Width(span, k) \in Nat /\ Width(span, k) >= 1
           /\ k * Width(span, k) >= span
           /\ k >= 2 /\ span >= 2 => Width(span, k) < span
<1> DEFINE a == span + k - 1
           w == Width(span, k)
           r == a % k
<1>1. a \in Nat /\ w = a \div k
  BY DEF Width
<1> HIDE DEF a, w, r
<1>2. w \in Int /\ r \in 0 .. k - 1 /\ a = k * w + r
  BY <1>1 DEF r
<1>3. k * w >= span
  BY <1>2 DEF a
<1>4. w >= 1
  <2>1. CASE w <= 0
    <3>1. k * w <= 0
      BY <1>2, <2>1
    <3> QED  BY <1>2, <1>3, <3>1
  <2> QED  BY <1>2, <2>1
<1>5. ASSUME k >= 2, span >= 2, w >= span PROVE FALSE
  <2>1. k * w >= k * span
    BY <1>2, <1>5
  <2>2. k * span >= span + k
    <3>1. (k - 1) * (span - 1) >= 1
      <4> DEFINE x == k - 1
                 y == span - 1
      <4>1. x \in Nat /\ y \in Nat /\ x >= 1 /\ y >= 1
        BY <1>5
      <4> HIDE DEF x, y
      <4>2. x * y >= 1
        BY <4>1
      <4> QED  BY <4>2 DEF x, y
    <3>2. (k - 1) * (span - 1) = k * span - k - span + 1
      OBVIOUS
    <3> QED  BY <3>1, <3>2
  <2>3. a = span + k - 1
    BY DEF a
  <2> HIDE DEF a
  <2> QED  BY <1>2, <2>1, <2>2, <2>3
<1> QED  BY <1>2, <1>3, <1>4, <1>5 DEF w

\* The rows in front of what follows bucket b are those later than its lower end.
InFront(list, k, b) ==
    \A h \in 1 .. Len(list) :
        h < Buckets(list, k)[b].next <=> list[h].at > list[1].at - b * TheWidth(list, k)

\* The same, for the span of a list.
LEMMA SpanIs ==
    ASSUME NEW list, list \in Seq(Charted), Len(list) >= 1, Falling(list), NEW k \in Nat, k # 0
    PROVE  LET span == list[1].at - list[Len(list)].at + 1
               w == TheWidth(list, k)
           IN  /\ span \in Nat /\ span >= 1 /\ w \in Nat /\ w >= 1 /\ k * w >= span
               /\ k >= 2 /\ span >= 2 => w < span
<1>1. list[1].at \in Int /\ list[Len(list)].at \in Int
  BY TimesAre
<1>2. list[1].at >= list[Len(list)].at
  <2>1. CASE Len(list) = 1
    BY <1>1, <2>1
  <2>2. CASE Len(list) # 1
    BY <2>2, RecordsAre DEF Falling
  <2> QED  BY <2>1, <2>2
<1> DEFINE span == list[1].at - list[Len(list)].at + 1
<1>3. span \in Nat /\ span >= 1
  BY <1>1, <1>2
<1> HIDE DEF span
<1>4. /\ Width(span, k) \in Nat /\ Width(span, k) >= 1 /\ k * Width(span, k) >= span
      /\ k >= 2 /\ span >= 2 => Width(span, k) < span
  <2>1. k >= 1
    OBVIOUS
  <2> QED  BY <1>3, <2>1, WidthIs
<1> QED  BY <1>3, <1>4 DEF span, TheWidth

\* Behind every bucket are the rows that are no younger than its end.
LEMMA BucketTimes ==
    ASSUME NEW list, list \in Seq(Charted), Len(list) >= 1, Falling(list), NEW k \in Nat, k # 0
    PROVE  /\ \A b \in 0 .. k : InFront(list, k, b)
           /\ \A b \in 1 .. k : Buckets(list, k)[b].first = Buckets(list, k)[b - 1].next
<1> DEFINE n == Len(list)
           w == TheWidth(list, k)
           N(b) == Buckets(list, k)[b].next
           F(b) == Buckets(list, k)[b].first
           low(b) == list[1].at - b * w
           at(h) == list[h].at
           S == {b \in 0 .. k : InFront(list, k, b)}
<1>1. /\ n \in Nat /\ n >= 1 /\ w \in Int /\ w >= 1 /\ at(1) \in Int
      /\ \A h \in 1 .. n : at(h) \in Int
      /\ \A b \in 0 .. k : N(b) \in 1 .. n + 1
  <2>1. w \in Nat /\ w >= 1
    BY SpanIs
  <2>2. \A h \in 1 .. n : at(h) \in Int
    BY TimesAre
  <2>3. ASSUME NEW b \in 0 .. k PROVE N(b) \in 1 .. n + 1
    <3>1. Buckets(list, k)[b] \in [first : 1 .. n + 1, next : 1 .. n + 1]
      BY BucketsEquation
    <3> QED  BY <3>1
  <2>4. n \in Nat /\ n >= 1 /\ 1 \in 1 .. n
    OBVIOUS
  <2> HIDE DEF w, at, N, n
  <2>5. at(1) \in Int
    BY <2>2, <2>4
  <2>6. w \in Int
    BY <2>1
  <2> QED  BY <2>1, <2>2, <2>3, <2>4, <2>5, <2>6
<1>2. \A h, i \in 1 .. n : h <= i => at(h) >= at(i)
  <2>1. \A h, i \in 1 .. n : h < i => at(h) >= at(i)
    BY RecordsAre DEF Falling
  <2> HIDE DEF n, at, w, N
  <2>2. ASSUME NEW h \in 1 .. n, NEW i \in 1 .. n, h <= i PROVE at(h) >= at(i)
    <3>1. h < i \/ h = i
      BY <1>1, <2>2
    <3>2. at(h) \in Int /\ at(i) \in Int
      BY <1>1
    <3> QED  BY <2>1, <3>1, <3>2
  <2> QED  BY <2>2
<1>3. \A b \in 1 .. k : F(b) = UpTo(list, N(b - 1), low(b - 1)) /\ N(b) = UpTo(list, F(b), low(b))
  <2> SUFFICES ASSUME NEW b \in 1 .. k
               PROVE  F(b) = UpTo(list, N(b - 1), low(b - 1)) /\ N(b) = UpTo(list, F(b), low(b))
    OBVIOUS
  <2>1. Buckets(list, k)[b] = Bucket(list, k, Buckets(list, k)[b - 1], b)
    BY BucketsEquation
  <2> QED  BY <2>1 DEF Bucket
<1>4. \A b \in 0 .. k : InFront(list, k, b) <=> \A h \in 1 .. n : h < N(b) <=> at(h) > low(b)
  BY DEF InFront
<1>5. InFront(list, k, 0)
  <2>1. N(0) = 1 /\ low(0) = at(1) /\ 0 \in 0 .. k
    <3>1. Buckets(list, k)[0] = [first |-> 1, next |-> 1]
      BY BucketsEquation
    <3>2. list[1].at - 0 * w = list[1].at
      BY <1>1
    <3> QED  BY <3>1, <3>2
  <2> HIDE DEF N, low, at, n
  <2>2. \A h \in 1 .. n : ~(h < 1) /\ ~(at(h) > at(1))
    BY <1>1, <1>2
  <2> QED  BY <1>4, <2>1, <2>2
<1>6. \A b \in 0 .. k : low(b) \in Int
  BY <1>1
<1>7. \A b \in 1 .. k : low(b) <= low(b - 1)
  <2> SUFFICES ASSUME NEW b \in 1 .. k PROVE low(b) <= low(b - 1)
    OBVIOUS
  <2>1. (b - 1) * w = b * w - w /\ b * w \in Int
    BY <1>1
  <2> QED  BY <1>1, <2>1
<1> HIDE DEF N, F, low, at, n, w
<1>8. ASSUME NEW b \in 1 .. k, InFront(list, k, b - 1)
      PROVE  F(b) = N(b - 1) /\ InFront(list, k, b)
  <2>1. /\ b - 1 \in 0 .. k /\ b \in 0 .. k /\ N(b - 1) \in 1 .. n + 1 /\ low(b - 1) \in Int
        /\ low(b) \in Int /\ low(b) <= low(b - 1)
    BY <1>1, <1>6, <1>7
  <2>2. \A h \in 1 .. n : h < N(b - 1) <=> at(h) > low(b - 1)
    BY <1>4, <1>8, <2>1
  <2>3. F(b) \in N(b - 1) .. n + 1 /\ \A h \in N(b - 1) .. F(b) - 1 : at(h) > low(b - 1)
    BY <1>3, <2>1, UpToIs DEF n, at
  <2>4. F(b) = N(b - 1)
    <3>1. CASE F(b) > N(b - 1)
      <4>1. N(b - 1) \in 1 .. n /\ N(b - 1) \in N(b - 1) .. F(b) - 1
        BY <1>1, <2>1, <2>3, <3>1
      <4> QED  BY <2>2, <2>3, <4>1
    <3> QED  BY <1>1, <2>1, <2>3, <3>1
  <2>5. /\ N(b) \in N(b - 1) .. n + 1 /\ (N(b) <= n => at(N(b)) <= low(b))
        /\ \A h \in N(b - 1) .. N(b) - 1 : at(h) > low(b)
    BY <1>3, <2>1, <2>4, UpToIs DEF n, at
  <2>6. ASSUME NEW h \in 1 .. n PROVE h < N(b) <=> at(h) > low(b)
    <3>1. CASE h < N(b - 1)
      BY <1>1, <2>1, <2>2, <2>5, <3>1
    <3>2. CASE h >= N(b - 1) /\ h < N(b)
      BY <1>1, <2>1, <2>5, <3>2
    <3>3. CASE h >= N(b)
      <4>1. N(b) \in 1 .. n /\ N(b) <= h
        BY <1>1, <2>1, <2>5, <3>3
      <4>2. at(h) <= at(N(b)) /\ at(N(b)) <= low(b)
        BY <1>2, <2>5, <4>1
      <4> QED  BY <1>1, <2>1, <4>1, <4>2
    <3> QED  BY <1>1, <2>1, <2>5, <3>1, <3>2, <3>3
  <2> QED  BY <1>4, <2>1, <2>4, <2>6
<1>9. \A b \in 0 .. k : b \in S
  <2>1. 0 \in S
    BY <1>5
  <2>2. ASSUME NEW b \in 0 .. k - 1, b \in S PROVE b + 1 \in S
    <3>1. b + 1 \in 1 .. k /\ (b + 1) - 1 = b /\ b + 1 \in 0 .. k
      OBVIOUS
    <3>2. InFront(list, k, b + 1)
      BY <1>8, <2>2, <3>1
    <3> QED  BY <3>1, <3>2
  <2> HIDE DEF S
  <2> QED  BY <2>1, <2>2, Climb
<1>10. \A b \in 1 .. k : b - 1 \in 0 .. k
  OBVIOUS
<1>11. \A b \in 1 .. k : F(b) = N(b - 1)
  BY <1>8, <1>9, <1>10
<1> QED  BY <1>9, <1>11 DEF F, N

\* Row h is in bucket b if its time is in the bucket's interval.
LEMMA RowsInIs ==
    ASSUME NEW list, list \in Seq(Charted), Len(list) >= 1, Falling(list), NEW k \in Nat, k # 0,
           NEW b \in 1 .. k, NEW h \in 1 .. Len(list)
    PROVE  h \in RowsIn(list, k, b) <=>
             /\ list[h].at > list[1].at - b * TheWidth(list, k)
             /\ list[h].at <= list[1].at - (b - 1) * TheWidth(list, k)
<1> DEFINE N(c) == Buckets(list, k)[c].next
           low(c) == list[1].at - c * TheWidth(list, k)
<1>1. b \in 0 .. k /\ b - 1 \in 0 .. k /\ b \in Int /\ b - 1 \in Int
  OBVIOUS
<1>2. /\ h < N(b) <=> list[h].at > low(b)
      /\ h < N(b - 1) <=> list[h].at > low(b - 1)
  BY <1>1, BucketTimes DEF InFront
<1>3. Buckets(list, k)[b].first = N(b - 1)
  BY BucketTimes
<1>4. N(b) \in Int /\ N(b - 1) \in Int
  <2>1. /\ Buckets(list, k)[b] \in [first : 1 .. Len(list) + 1, next : 1 .. Len(list) + 1]
        /\ Buckets(list, k)[b - 1] \in [first : 1 .. Len(list) + 1, next : 1 .. Len(list) + 1]
    BY <1>1, BucketsEquation
  <2>2. Len(list) \in Nat
    OBVIOUS
  <2> QED  BY <2>1, <2>2
<1>5. h \in RowsIn(list, k, b) <=> N(b - 1) <= h /\ h < N(b)
  BY <1>3, <1>4 DEF RowsIn
<1>6. low(b - 1) \in Int /\ list[h].at \in Int
  BY <1>1, TimesAre
<1> HIDE DEF N, low
<1>7. h \in RowsIn(list, k, b) <=> list[h].at > low(b) /\ list[h].at <= low(b - 1)
  BY <1>2, <1>4, <1>5, <1>6
<1> QED  BY <1>7 DEF low

\* Every row is in one bucket.
LEMMA BucketsCover ==
    ASSUME NEW list, list \in Seq(Charted), Len(list) >= 1, Falling(list), NEW k \in Nat, k # 0,
           NEW h \in 1 .. Len(list)
    PROVE  /\ \E b \in 1 .. k : h \in RowsIn(list, k, b)
           /\ \A b, c \in 1 .. k : h \in RowsIn(list, k, b) /\ h \in RowsIn(list, k, c) => b = c
<1> DEFINE low(b) == list[1].at - b * TheWidth(list, k)
<1>1. PICK first \in Int, last \in Int, at \in Int, w \in Nat :
        /\ first = list[1].at /\ last = list[Len(list)].at /\ at = list[h].at
        /\ w = TheWidth(list, k)
  <2>1. 1 \in 1 .. Len(list) /\ Len(list) \in 1 .. Len(list)
    OBVIOUS
  <2>2. list[1].at \in Int /\ list[Len(list)].at \in Int /\ list[h].at \in Int
    BY <2>1, TimesAre
  <2>3. TheWidth(list, k) \in Nat
    BY SpanIs
  <2> QED  BY <2>2, <2>3
<1>2. k * w >= first - last + 1 /\ w >= 1
  BY <1>1, SpanIs
<1>3. at >= last /\ at <= first
  <2>1. h = Len(list) \/ list[h].at >= list[Len(list)].at
    BY RecordsAre DEF Falling
  <2>2. h = 1 \/ list[1].at >= list[h].at
    BY RecordsAre DEF Falling
  <2> QED  BY <1>1, <2>1, <2>2
<1>4. \A b \in 0 .. k : low(b) = first - b * w /\ low(b) \in Int
  BY <1>1
<1>5. low(0) = first /\ at > low(k)
  <2>1. low(0) = first - 0 * w /\ low(k) = first - k * w
    BY <1>4
  <2>2. PICK x \in Int : x = k * w
    OBVIOUS
  <2>3. low(0) = first
    BY <2>1
  <2>4. low(k) = first - x /\ x >= first - last + 1
    BY <1>2, <2>1, <2>2
  <2> HIDE DEF low
  <2>5. at > first - x
    BY <1>3, <2>4
  <2>6. at > low(k)
    BY <2>4, <2>5
  <2> QED  BY <2>3, <2>6
<1>6. \A b \in 1 .. k : h \in RowsIn(list, k, b) <=> at > low(b) /\ at <= low(b - 1)
  BY <1>1, RowsInIs
<1> HIDE DEF low
<1> DEFINE S == {b \in 0 .. k : at > low(b)}
<1>7. PICK b \in S : \A c \in S : b <= c
  <2>1. k \in S
    BY <1>5
  <2>2. S \subseteq Nat
    OBVIOUS
  <2> HIDE DEF S
  <2> QED  BY <2>1, <2>2, LeastNumber
<1>8. b \in 1 .. k
  <2>1. b \in 0 .. k /\ at > low(b)
    BY <1>7
  <2>2. b # 0
    BY <1>3, <1>5, <2>1
  <2> QED  BY <2>1, <2>2
<1>9. b - 1 \in 0 .. k /\ ~(at > low(b - 1))
  <2>1. b - 1 \in 0 .. k /\ ~(b <= b - 1)
    BY <1>8
  <2>2. b - 1 \notin S
    BY <1>7, <2>1
  <2> QED  BY <2>1, <2>2
<1>10. h \in RowsIn(list, k, b)
  <2>1. at > low(b)
    BY <1>7
  <2>2. at <= low(b - 1)
    BY <1>4, <1>9
  <2> QED  BY <1>6, <1>8, <2>1, <2>2
<1>11. ASSUME NEW c \in 1 .. k, NEW d \in 1 .. k, c < d,
             h \in RowsIn(list, k, c), h \in RowsIn(list, k, d)
      PROVE  FALSE
  <2>1. at > low(c) /\ at <= low(d - 1)
    BY <1>6, <1>11
  <2>2. c \in 0 .. k /\ d - 1 \in 0 .. k
    BY <1>11
  <2>3. low(c) = first - c * w /\ low(d - 1) = first - (d - 1) * w
    BY <1>4, <2>2
  <2>4. PICK x \in Nat : d - 1 = c + x
    <3>1. d - 1 - c \in Nat /\ d - 1 = c + (d - 1 - c)
      BY <1>11
    <3> QED  BY <3>1
  <2>5. PICK y \in Int, z \in Nat : y = c * w /\ z = x * w
    <3>1. c * w \in Int /\ x * w \in Nat
      OBVIOUS
    <3> QED  BY <3>1
  <2>6. (d - 1) * w = y + z
    <3>1. (c + x) * w = c * w + x * w
      OBVIOUS
    <3> QED  BY <2>4, <2>5, <3>1
  <2>7. low(c) = first - y /\ low(d - 1) = first - (y + z)
    BY <2>3, <2>5, <2>6
  <2>8. at > first - y /\ at <= first - (y + z)
    BY <2>1, <2>7
  <2>9. ~(at > first - y /\ at <= first - (y + z))
    BY <2>5
  <2> QED  BY <2>8, <2>9
<1>12. ASSUME NEW c \in 1 .. k, NEW d \in 1 .. k, h \in RowsIn(list, k, c), h \in RowsIn(list, k, d)
       PROVE  c = d
  <2>1. ~(c < d) /\ ~(d < c)
    BY <1>11, <1>12
  <2> QED  BY <2>1
<1> QED  BY <1>8, <1>10, <1>12

OneSeries(list) == \A i, j \in DOMAIN list : list[i].series = list[j].series

\* The points of a series newest first merge its rows, no more of them than k, and those of
\* two instants in two points at least.
LEMMA MergedMerges ==
    ASSUME NEW list, list \in Seq(Charted), Len(list) >= 1, Falling(list), NEW k \in Nat, k # 0,
           OneSeries(list)
    PROVE  /\ Merged(list, k) \in Seq(Charted) /\ Len(Merged(list, k)) <= k
           /\ \E W : Merges(Merged(list, k), list, W)
           /\ k >= 2 /\ list[1].at # list[Len(list)].at =>
                \E q, r \in DOMAIN Merged(list, k) : Merged(list, k)[q].at # Merged(list, k)[r].at
<1> DEFINE F == Filled(list, k)
           m == Cardinality(F)
           f == Ascending(F)
           out == Merged(list, k)
           W == [i \in 1 .. m |-> RowsIn(list, k, f[i])]
           n == Len(list)
<1>1. /\ F \subseteq 1 .. k /\ m \in Nat /\ m <= k /\ f \in [1 .. m -> F]
      /\ \A b \in F : \E i \in 1 .. m : f[i] = b
      /\ \A i, j \in 1 .. m : f[i] = f[j] => i = j
  BY FilledAre
<1>2. out = [i \in 1 .. m |-> Point(list, Buckets(list, k)[f[i]])]
  BY DEF Merged
<1>3. ASSUME NEW b \in F
      PROVE  /\ Buckets(list, k)[b] \in [first : 1 .. n + 1, next : 1 .. n + 1]
             /\ Buckets(list, k)[b].first < Buckets(list, k)[b].next
  <2>1. b \in 0 .. k
    BY <1>1
  <2>2. Buckets(list, k)[b] \in [first : 1 .. n + 1, next : 1 .. n + 1]
    BY <2>1, BucketsEquation
  <2>3. Buckets(list, k)[b].first < Buckets(list, k)[b].next
    BY DEF Filled
  <2> QED  BY <2>2, <2>3
<1> DEFINE point(b) == Point(list, Buckets(list, k)[b])
           first(b) == Buckets(list, k)[b].first
           last(b) == Buckets(list, k)[b].next - 1
<1>4. ASSUME NEW b \in F
      PROVE  /\ point(b) \in Charted
             /\ RowsIn(list, k, b) \subseteq DOMAIN list
             /\ first(b) \in RowsIn(list, k, b) /\ last(b) \in RowsIn(list, k, b)
             /\ point(b).n = ProbesAt(RowsIn(list, k, b), list)
             /\ point(b).series = list[first(b)].series
             /\ list[last(b)].at <= point(b).at /\ point(b).at <= list[first(b)].at
  <2>1. /\ point(b) \in Charted
        /\ RowsIn(list, k, b) \subseteq DOMAIN list
        /\ first(b) \in RowsIn(list, k, b) /\ last(b) \in RowsIn(list, k, b)
        /\ point(b).n = ProbesAt(RowsIn(list, k, b), list)
        /\ point(b).series = list[first(b)].series
        /\ list[last(b)].at <= list[first(b)].at =>
             list[last(b)].at <= point(b).at /\ point(b).at <= list[first(b)].at
    BY <1>3, PointIs DEF RowsIn
  <2>2. list[last(b)].at <= list[first(b)].at
    <3>1. first(b) \in DOMAIN list /\ last(b) \in DOMAIN list /\ first(b) <= last(b)
      <4>1. first(b) \in DOMAIN list /\ last(b) \in DOMAIN list
        BY <2>1
      <4>2. Buckets(list, k)[b] \in [first : 1 .. n + 1, next : 1 .. n + 1]
            /\ Buckets(list, k)[b].first < Buckets(list, k)[b].next
        BY <1>3
      <4> QED  BY <4>1, <4>2
    <3> HIDE DEF first, last
    <3>2. first(b) = last(b) \/ first(b) < last(b)
      BY <3>1, RecordsAre
    <3>3. list[first(b)].at \in Int
      BY <3>1, RecordsAre
    <3> QED  BY <3>1, <3>2, <3>3 DEF Falling
  <2> QED  BY <2>1, <2>2
<1> HIDE DEF F, f, out, point, first, last
<1>5. out = [i \in 1 .. m |-> point(f[i])]
  BY <1>2 DEF point, out
<1>6. out \in [1 .. m -> Charted] /\ DOMAIN out = 1 .. m
  BY <1>1, <1>4, <1>5
<1>7. out \in Seq(Charted) /\ Len(out) <= k
  BY <1>1, <1>6
<1>8. ASSUME NEW b \in F
      PROVE  /\ RowsIn(list, k, b) # {} /\ point(b).n = ProbesAt(RowsIn(list, k, b), list)
             /\ \A i \in RowsIn(list, k, b) : list[i].series = point(b).series
             /\ \E i, j \in RowsIn(list, k, b) : list[i].at <= point(b).at
                    /\ point(b).at <= list[j].at
  <2>1. \A i \in RowsIn(list, k, b) : list[i].series = point(b).series
    BY <1>4 DEF OneSeries
  <2> QED  BY <1>4, <2>1
<1>9. ASSUME NEW q \in 1 .. m PROVE StandsFor(out, q, list, W[q])
  <2>1. f[q] \in F /\ out[q] = point(f[q]) /\ W[q] = RowsIn(list, k, f[q])
    BY <1>1, <1>5
  <2> QED  BY <1>4, <1>8, <2>1 DEF StandsFor
<1>10. ASSUME NEW h \in 1 .. n
       PROVE  \E q \in 1 .. m : h \in W[q]
  <2>1. PICK b \in 1 .. k : h \in RowsIn(list, k, b)
    BY BucketsCover
  <2>2. b \in F
    <3>1. Buckets(list, k)[b].first < Buckets(list, k)[b].next
      <4>1. b \in 0 .. k
        OBVIOUS
      <4>2. Buckets(list, k)[b] \in [first : 1 .. n + 1, next : 1 .. n + 1]
        BY <4>1, BucketsEquation
      <4> QED  BY <2>1, <4>2 DEF RowsIn
    <3> QED  BY <3>1 DEF F, Filled
  <2>3. PICK q \in 1 .. m : f[q] = b
    BY <1>1, <2>2
  <2> QED  BY <2>1, <2>3
<1>11. ASSUME NEW q \in 1 .. m, NEW r \in 1 .. m, q # r PROVE W[q] \cap W[r] = {}
  <2>1. f[q] \in 1 .. k /\ f[r] \in 1 .. k /\ f[q] # f[r]
    BY <1>1, <1>11
  <2>2. SUFFICES ASSUME NEW h, h \in RowsIn(list, k, f[q]), h \in RowsIn(list, k, f[r])
                 PROVE FALSE
    BY DEF W
  <2>3. h \in 1 .. n
    <3>1. f[q] \in F
      BY <1>1
    <3>2. RowsIn(list, k, f[q]) \subseteq DOMAIN list
      BY <1>4, <3>1
    <3> QED  BY <2>2, <3>2
  <2>4. \A b, c \in 1 .. k : h \in RowsIn(list, k, b) /\ h \in RowsIn(list, k, c) => b = c
    BY <2>3, BucketsCover
  <2> QED  BY <2>1, <2>2, <2>4
<1>12. Merges(out, list, W)
  <2>1. DOMAIN list = 1 .. n /\ DOMAIN out = 1 .. m
    BY <1>6, RecordsAre
  <2> HIDE DEF W, n, m
  <2> QED  BY <1>9, <1>10, <1>11, <2>1 DEF Merges
<1>13. ASSUME k >= 2, list[1].at # list[n].at
       PROVE  \E q, r \in DOMAIN out : out[q].at # out[r].at
  <2> DEFINE t == list[1].at
             w == TheWidth(list, k)
  <2>1. t \in Int /\ list[n].at \in Int /\ w \in Nat /\ w >= 1
    <3>1. 1 \in 1 .. n /\ n \in 1 .. n
      OBVIOUS
    <3>2. t \in Int /\ list[n].at \in Int
      BY <3>1, TimesAre
    <3> QED  BY <3>2, SpanIs
  <2>2. list[n].at < t
    <3>1. n = 1 \/ t >= list[n].at
      BY RecordsAre DEF Falling
    <3> HIDE DEF t
    <3> QED  BY <1>13, <2>1, <3>1 DEF t
  <2>3. w < t - list[n].at + 1
    <3>1. t - list[n].at + 1 >= 2
      BY <2>1, <2>2
    <3> QED  BY <1>13, <3>1, SpanIs
  <2>4. 1 \in 1 .. k /\ 1 \in 1 .. n /\ n \in 1 .. n
    BY <1>13
  <2>5. 1 \in RowsIn(list, k, 1)
    <3>1. t > t - 1 * w /\ t <= t - (1 - 1) * w
      BY <2>1
    <3> QED  BY <2>4, <3>1, RowsInIs
  <2>6. n \notin RowsIn(list, k, 1)
    <3>1. ~(list[n].at > t - 1 * w)
      <4> HIDE DEF t, w
      <4> QED  BY <2>1, <2>3
    <3> QED  BY <2>4, <3>1, RowsInIs
  <2>7. PICK q \in 1 .. m, r \in 1 .. m : 1 \in W[q] /\ n \in W[r]
    BY <1>10, <2>4
  <2>8. f[q] = 1 /\ f[r] # 1
    <3>1. f[q] \in 1 .. k /\ 1 \in RowsIn(list, k, f[q]) /\ n \in RowsIn(list, k, f[r])
      BY <1>1, <2>7
    <3>2. \A b, c \in 1 .. k : 1 \in RowsIn(list, k, b) /\ 1 \in RowsIn(list, k, c) => b = c
      BY <2>4, BucketsCover
    <3> QED  BY <2>4, <2>5, <2>6, <3>1, <3>2
  <2>9. f[q] \in F /\ f[r] \in F /\ out[q] = point(f[q]) /\ out[r] = point(f[r])
    BY <1>1, <1>5
  <2>10. out[q].at > t - w
    <3>1. list[last(f[q])].at <= out[q].at /\ last(f[q]) \in RowsIn(list, k, 1)
          /\ last(f[q]) \in 1 .. n
      BY <1>4, <2>8, <2>9
    <3>2. list[last(f[q])].at > t - 1 * w
      BY <2>4, <3>1, RowsInIs
    <3>3. list[last(f[q])].at \in Int /\ out[q].at \in Int
      BY <1>6, <3>1, TimesAre DEF Charted
    <3> QED  BY <2>1, <3>1, <3>2, <3>3
  <2>11. out[r].at <= t - w
    <3>1. /\ out[r].at <= list[first(f[r])].at /\ first(f[r]) \in RowsIn(list, k, f[r])
          /\ first(f[r]) \in 1 .. n /\ f[r] \in 1 .. k
      <4>1. f[r] \in F /\ f[r] \in 1 .. k /\ out[r] = point(f[r])
        BY <1>1, <2>9
      <4>2. /\ point(f[r]).at <= list[first(f[r])].at /\ first(f[r]) \in RowsIn(list, k, f[r])
            /\ RowsIn(list, k, f[r]) \subseteq DOMAIN list
        BY <1>4, <4>1
      <4>3. DOMAIN list = 1 .. n
        BY RecordsAre
      <4> QED  BY <4>1, <4>2, <4>3
    <3>2. list[first(f[r])].at <= t - (f[r] - 1) * w
      BY <3>1, RowsInIs
    <3>3. PICK x \in Nat : f[r] - 1 = 1 + x
      <4>1. f[r] - 2 \in Nat /\ f[r] - 1 = 1 + (f[r] - 2)
        BY <2>8, <3>1
      <4> QED  BY <4>1
    <3>4. (1 + x) * w = w + x * w /\ x * w \in Nat
      <4> HIDE DEF w
      <4> QED  BY <2>1
    <3>5. list[first(f[r])].at \in Int /\ out[r].at \in Int
      BY <1>6, <3>1, TimesAre DEF Charted
    <3> HIDE DEF t, w
    <3>6. list[first(f[r])].at <= t - (w + x * w)
      BY <3>2, <3>3, <3>4 DEF t, w
    <3>7. w + x * w >= w /\ x * w \in Int /\ t \in Int /\ w \in Int
      BY <2>1, <3>4
    <3>8. t - (w + x * w) <= t - w /\ t - (w + x * w) \in Int /\ t - w \in Int
      BY <3>7
    <3>9. out[r].at <= list[first(f[r])].at
      BY <3>1
    <3> HIDE DEF out, first
    <3> QED  BY <3>5, <3>6, <3>8, <3>9
  <2>12. out[q].at \in Int /\ out[r].at \in Int
    BY <1>6 DEF Charted
  <2>13. out[q].at # out[r].at
    <3> HIDE DEF t, w
    <3> QED  BY <2>1, <2>10, <2>11, <2>12 DEF t
  <2> QED  BY <1>6, <2>13
<1> QED  BY <1>7, <1>12, <1>13 DEF out

\* So does what the aggregation of one series returns.
LEMMA AggregateMerges ==
    ASSUME NEW list, list \in Seq(Charted), Len(list) >= 1, Falling(list), NEW k \in Nat, k # 0,
           OneSeries(list), NEW since \in Int, list[1].at > since
    PROVE  /\ Aggregate(list, since, k) \in Seq(Charted) /\ Len(Aggregate(list, since, k)) <= k
           /\ \E W : Merges(Aggregate(list, since, k), list, W)
           /\ k >= Lesser(2, Len(list)) /\ list[1].at # list[Len(list)].at =>
                \E q, r \in DOMAIN Aggregate(list, since, k) :
                    Aggregate(list, since, k)[q].at # Aggregate(list, since, k)[r].at
<1> DEFINE n == Len(list)
<1>1. 1 \in 1 .. n /\ n \in 1 .. n /\ DOMAIN list = 1 .. n /\ n \in Nat
  BY RecordsAre
<1>2. ~(list[1].at < list[n].at)
  <2>1. n = 1 \/ list[1].at >= list[n].at
    BY <1>1 DEF Falling
  <2>2. list[1].at \in Int /\ list[n].at \in Int
    BY <1>1, RecordsAre
  <2> QED  BY <2>1, <2>2
<1>3. ~(list[1].at <= since)
  BY <1>1, RecordsAre
<1>4. CASE n <= k
  <2>1. Aggregate(list, since, k) = list
    BY <1>4, AggregateIs DEF Untouched
  <2>2. \E W : Merges(list, list, W)
    BY MergesItself
  <2>3. list[1].at # list[n].at => \E q, r \in DOMAIN list : list[q].at # list[r].at
    BY <1>1
  <2> QED  BY <1>4, <2>1, <2>2, <2>3
<1>5. CASE ~(n <= k)
  <2>1. Aggregate(list, since, k) = Merged(list, k)
    BY <1>2, <1>3, <1>5, AggregateIs DEF Untouched
  <2>2. k >= Lesser(2, n) => k >= 2
    BY <1>1, <1>5 DEF Lesser
  <2>3. /\ Merged(list, k) \in Seq(Charted) /\ Len(Merged(list, k)) <= k
        /\ \E W : Merges(Merged(list, k), list, W)
        /\ k >= 2 /\ list[1].at # list[Len(list)].at =>
             \E q, r \in DOMAIN Merged(list, k) : Merged(list, k)[q].at # Merged(list, k)[r].at
    BY MergedMerges
  <2> QED  BY <2>1, <2>2, <2>3
<1> QED  BY <1>4, <1>5
----------------------------------------------------------------------------
(* All series. *)

\* Every series once.
LEMMA SeriesListIs ==
    ASSUME NEW list, list \in Seq(Charted)
    PROVE  LET sl == SeriesList(list)
               m == Cardinality(SeriesIn(list))
           IN  /\ m \in Nat /\ sl \in Seq(Series) /\ Len(sl) = m /\ DOMAIN sl = 1 .. m
               /\ \A i \in 1 .. m : sl[i] \in SeriesIn(list) /\ Positions(sl[i], list) # {}
               /\ \A s \in SeriesIn(list) : \E i \in 1 .. m : sl[i] = s
               /\ \A i, j \in 1 .. m : sl[i] = sl[j] => i = j
<1> DEFINE n == Len(list)
           F == {i \in DOMAIN list : \A h \in 1 .. i - 1 : list[h].series # list[i].series}
           c == Cardinality(F)
           f == Ascending(F)
           sl == SeriesList(list)
           A == SeriesIn(list)
<1>1. n \in Nat /\ DOMAIN list = 1 .. n /\ \A i \in 1 .. n : list[i].series \in Series
  BY RecordsAre
<1>2. F \subseteq 1 .. n /\ F \subseteq Int
  BY <1>1
<1>3. IsFiniteSet(F)
  <2>1. IsFiniteSet(1 .. n)
    BY <1>1, FS_Interval
  <2> HIDE DEF F
  <2> QED  BY <1>2, <2>1, FS_Subset
<1>4. /\ f \in [1 .. c -> F] /\ c \in Nat
      /\ \A x \in F : \E i \in 1 .. c : f[i] = x
      /\ \A i, j \in 1 .. c : f[i] = f[j] => i = j
  <2> HIDE DEF F
  <2> QED  BY <1>2, <1>3, AscendingIs
<1>5. sl = [i \in 1 .. c |-> list[f[i]].series]
  <2>1. DOMAIN f = 1 .. c
    BY <1>4
  <2>2. sl = [i \in DOMAIN f |-> list[f[i]].series]
    BY DEF SeriesList
  <2> HIDE DEF f, c, sl
  <2> QED  BY <2>1, <2>2
<1>6. ASSUME NEW i \in F, NEW j \in F, list[i].series = list[j].series
      PROVE  i = j
  <2>1. i \in 1 .. n /\ j \in 1 .. n
    BY <1>2
  <2>2. ~(i < j) /\ ~(j < i)
    <3>1. i < j => i \in 1 .. j - 1
      BY <2>1
    <3>2. j < i => j \in 1 .. i - 1
      BY <2>1
    <3> QED  BY <1>6, <3>1, <3>2
  <2> QED  BY <2>1, <2>2
<1>7. ASSUME NEW s \in A PROVE \E i \in F : list[i].series = s
  <2> DEFINE S == {i \in 1 .. n : list[i].series = s}
  <2>1. S \subseteq Nat /\ S # {}
    BY <1>1 DEF SeriesIn
  <2>2. PICK i \in S : \A h \in S : i <= h
    <3> HIDE DEF S
    <3> QED  BY <2>1, LeastNumber
  <2>3. i \in 1 .. n /\ list[i].series = s
    BY <2>2
  <2>4. \A h \in 1 .. i - 1 : h \notin S
    <3> TAKE h \in 1 .. i - 1
    <3>1. ~(i <= h)
      BY <2>3
    <3> QED  BY <2>2, <3>1
  <2>5. \A h \in 1 .. i - 1 : list[h].series # list[i].series
    <3> TAKE h \in 1 .. i - 1
    <3>1. h \in 1 .. n
      BY <2>3, <1>1
    <3> QED  BY <2>3, <2>4, <3>1
  <2> QED  BY <1>1, <2>3, <2>5
<1> HIDE DEF F, f, sl
<1>8. \A i \in 1 .. c : sl[i] = list[f[i]].series /\ f[i] \in F /\ f[i] \in 1 .. n
  BY <1>2, <1>4, <1>5
<1>9. DOMAIN sl = 1 .. c /\ Len(sl) = c /\ sl \in Seq(Series)
  <2>1. sl \in [1 .. c -> Series]
    BY <1>1, <1>5, <1>8
  <2> HIDE DEF c
  <2> QED  BY <1>4, <2>1
<1>10. \A i \in 1 .. c : sl[i] \in A /\ Positions(sl[i], list) # {}
  BY <1>1, <1>8 DEF SeriesIn, Positions
<1>11. \A s \in A : \E i \in 1 .. c : sl[i] = s
  <2> TAKE s \in A
  <2>1. PICK x \in F : list[x].series = s
    BY <1>7
  <2>2. PICK i \in 1 .. c : f[i] = x
    BY <1>4
  <2> QED  BY <1>8, <2>1, <2>2
<1>12. \A i, j \in 1 .. c : sl[i] = sl[j] => i = j
  BY <1>4, <1>6, <1>8
<1>13. Cardinality(A) = c
  <2> DEFINE S == 1 .. c
  <2>1. IsFiniteSet(S) /\ Cardinality(S) = c
    <3> HIDE DEF c
    <3> QED  BY <1>4, FS_Interval
  <2>2. sl \in Bijection(S, A)
    <3>1. sl \in [S -> A]
      BY <1>9, <1>5, <1>10
    <3> QED  BY <3>1, <1>11, <1>12 DEF Bijection, Injection, Surjection, IsInjective
  <2> HIDE DEF S, c, A
  <2>3. ExistsBijection(S, A)
    BY <2>2 DEF ExistsBijection
  <2> QED  BY <2>1, <2>3, FS_Bijection
<1> QED  BY <1>4, <1>9, <1>10, <1>11, <1>12, <1>13 DEF sl

\* How many rows each series has, and what it gets for them.
Sizes(list) == [i \in DOMAIN SeriesList(list) |-> Cardinality(Positions(SeriesList(list)[i], list))]

\* Every series has its curve, of at most as many points as its budget.
LEMMA CurvesAre ==
    ASSUME NEW list, list \in Seq(Charted), NEW since
    PROVE  LET sl == SeriesList(list)
               m == Cardinality(SeriesIn(list))
               b == Budgets(Sizes(list))
           IN  /\ Sizes(list) \in Seq(Nat) /\ DOMAIN Sizes(list) = 1 .. m /\ Len(Sizes(list)) = m
               /\ \A i \in 1 .. m : Sizes(list)[i] = Cardinality(Positions(sl[i], list))
                      /\ Sizes(list)[i] >= 1
               /\ DOMAIN Curves(list, since) = 1 .. m
               /\ \A i \in 1 .. m :
                    /\ Curves(list, since)[i] \in Seq(Charted)
                    /\ b[i] # 0 => Curves(list, since)[i] = Aggregate(RowsOf(sl[i], list), since, b[i])
<1> DEFINE sl == SeriesList(list)
           m == Cardinality(SeriesIn(list))
           size == Sizes(list)
           b == Budgets(size)
           C == Curves(list, since)
           curve(i) == IF b[i] = 0 THEN <<>> ELSE Aggregate(RowsOf(sl[i], list), since, b[i])
<1>1. /\ m \in Nat /\ DOMAIN sl = 1 .. m
      /\ \A i \in 1 .. m : Positions(sl[i], list) # {}
  BY SeriesListIs
<1>2. size = [i \in 1 .. m |-> Cardinality(Positions(sl[i], list))]
  BY <1>1 DEF Sizes
<1>3. \A i \in 1 .. m : /\ Cardinality(Positions(sl[i], list)) \in Nat
                        /\ Cardinality(Positions(sl[i], list)) >= 1
  <2> TAKE i \in 1 .. m
  <2>1. IsFiniteSet(Positions(sl[i], list)) /\ Cardinality(Positions(sl[i], list)) \in Nat
    BY PositionsAre
  <2>2. Cardinality(Positions(sl[i], list)) # 0
    BY <1>1, <2>1, FS_EmptySet
  <2> QED  BY <2>1, <2>2
<1>4. C = [i \in DOMAIN sl |-> curve(i)]
  BY DEF Curves, Sizes
<1> HIDE DEF size, sl, C
<1>5. size \in Seq(Nat) /\ DOMAIN size = 1 .. m /\ Len(size) = m
  <2> HIDE DEF m
  <2>1. size \in [1 .. m -> Nat]
    BY <1>2, <1>3
  <2> QED  BY <1>1, <2>1
<1>6. \A i \in 1 .. m : b[i] \in Nat
  BY <1>5, BudgetsAre
<1>7. ASSUME NEW i \in 1 .. m PROVE curve(i) \in Seq(Charted)
  <2>1. CASE b[i] = 0
    BY <2>1
  <2>2. CASE b[i] # 0
    <3> DEFINE mine == RowsOf(sl[i], list)
    <3>1. mine \in Seq(Charted) /\ Len(mine) >= 1
      BY <1>3, RowsOfIs
    <3>2. b[i] \in Nat
      BY <1>6
    <3> HIDE DEF mine, b
    <3>3. Aggregate(mine, since, b[i]) \in Seq(Charted)
      BY <2>2, <3>1, <3>2, AggregateTyped
    <3> QED  BY <2>2, <3>3 DEF mine
  <2> QED  BY <2>1, <2>2
<1>8. \A i \in 1 .. m : C[i] = curve(i)
  BY <1>1, <1>4
<1>9. DOMAIN C = 1 .. m
  BY <1>1, <1>4
<1>10. \A i \in 1 .. m : size[i] = Cardinality(Positions(sl[i], list)) /\ size[i] >= 1
  BY <1>2, <1>3
<1>11. \A i \in 1 .. m : C[i] \in Seq(Charted)
  BY <1>7, <1>8
<1>12. \A i \in 1 .. m : b[i] # 0 => C[i] = Aggregate(RowsOf(sl[i], list), since, b[i])
  BY <1>8
<1> QED  BY <1>5, <1>9, <1>10, <1>11, <1>12, Zenon DEF sl, size, C

Places(curves) == UNION {{i} \X DOMAIN curves[i] : i \in DOMAIN curves}

\* The places of all points are as many as the curves' points.
LEMMA PlacesAre ==
    ASSUME NEW curves, NEW m \in Nat, DOMAIN curves = 1 .. m,
           \A i \in 1 .. m : curves[i] \in Seq(Charted)
    PROVE  /\ IsFiniteSet(Places(curves)) /\ IsFiniteSet(Units([i \in 1 .. m |-> Len(curves[i])]))
           /\ Cardinality(Places(curves)) = Tally([i \in 1 .. m |-> Len(curves[i])])
           /\ Tally([i \in 1 .. m |-> Len(curves[i])]) \in Nat
           /\ \A i, j : <<i, j>> \in Places(curves) <=> i \in 1 .. m /\ j \in 1 .. Len(curves[i])
           /\ \A p \in Places(curves) : p = <<p[1], p[2]>> /\ p[1] \in 1 .. m
                  /\ p[2] \in 1 .. Len(curves[p[1]])
<1> DEFINE lens == [i \in 1 .. m |-> Len(curves[i])]
<1>1. DOMAIN lens = 1 .. m /\ \A i \in DOMAIN lens : lens[i] \in Nat
          /\ DOMAIN curves[i] = 1 .. lens[i]
  BY RecordsAre
<1>2. IsFiniteSet(DOMAIN lens)
  BY <1>1, FS_Interval
<1>3. \A i, j : <<i, j>> \in Places(curves) <=> i \in 1 .. m /\ j \in 1 .. Len(curves[i])
  BY <1>1 DEF Places
<1>4. \A p \in Places(curves) : \E i \in 1 .. m : \E j \in 1 .. Len(curves[i]) : p = <<i, j>>
  BY <1>1 DEF Places
<1>5. Places(curves) = Units(lens)
  <2>1. ASSUME NEW p \in Places(curves) PROVE p \in Units(lens)
    <3>1. PICK i \in 1 .. m : \E j \in 1 .. Len(curves[i]) : p = <<i, j>>
      BY <1>4
    <3>2. PICK j \in 1 .. Len(curves[i]) : p = <<i, j>>
      BY <3>1
    <3> QED  BY <3>2, UnitsAre
  <2>2. ASSUME NEW p \in Units(lens) PROVE p \in Places(curves)
    <3>1. PICK i \in DOMAIN lens : \E j \in 1 .. lens[i] : p = <<i, j>>
      BY UnitsAre
    <3>2. PICK j \in 1 .. lens[i] : p = <<i, j>>
      BY <3>1
    <3> QED  BY <1>3, <3>2
  <2> QED  BY <2>1, <2>2
<1> HIDE DEF lens
<1>6. IsFiniteSet(Units(lens)) /\ Tally(lens) \in Nat
  BY <1>1, <1>2, UnitsFinite
<1>7. Tally(lens) = Cardinality(Units(lens))
  BY UnitsAre
<1>8. \A p \in Places(curves) : p = <<p[1], p[2]>> /\ p[1] \in 1 .. m
          /\ p[2] \in 1 .. Len(curves[p[1]])
  <2> TAKE p \in Places(curves)
  <2>1. PICK i \in 1 .. m : \E j \in 1 .. Len(curves[i]) : p = <<i, j>>
    BY <1>4
  <2>2. PICK j \in 1 .. Len(curves[i]) : p = <<i, j>>
    BY <2>1
  <2> QED  BY <2>2
<1> QED  BY <1>3, <1>5, <1>6, <1>7, <1>8 DEF lens

\* out is the rows of the curves, each once.
Arranges(order, out, curves) ==
    /\ order \in [DOMAIN out -> Places(curves)]
    /\ \A p \in Places(curves) : \E q \in DOMAIN out : order[q] = p
    /\ \A q, r \in DOMAIN out : order[q] = order[r] => q = r
    /\ \A q \in DOMAIN out : out[q] = curves[order[q][1]][order[q][2]]

\* The points of all curves, each once, are sorted into one list.
LEMMA NewestFirstIs ==
    ASSUME NEW curves, NEW m \in Nat, DOMAIN curves = 1 .. m,
           \A i \in 1 .. m : curves[i] \in Seq(Charted)
    PROVE  /\ NewestFirst(curves) \in Seq(Charted)
           /\ Len(NewestFirst(curves)) = Tally([i \in 1 .. m |-> Len(curves[i])])
           /\ \E order : Arranges(order, NewestFirst(curves), curves)
<1> DEFINE P == Places(curves)
           at(p) == curves[p[1]][p[2]].at
           R == {p \in P \X P :
                    \/ at(p[1]) > at(p[2])
                    \/ /\ at(p[1]) = at(p[2])
                       /\ p[1][1] < p[2][1] \/ (p[1][1] = p[2][1] /\ p[1][2] < p[2][2])}
           order == Listing(P, R)
           c == Cardinality(P)
           out == NewestFirst(curves)
<1>1. /\ IsFiniteSet(P) /\ c = Tally([i \in 1 .. m |-> Len(curves[i])]) /\ c \in Nat
      /\ \A p \in P : p = <<p[1], p[2]>> /\ p[1] \in 1 .. m /\ p[2] \in 1 .. Len(curves[p[1]])
  BY PlacesAre
<1>2. \A p \in P : curves[p[1]][p[2]] \in Charted
  BY <1>1, RecordsAre
<1>3. \A p \in P : at(p) \in Int /\ p[1] \in Int /\ p[2] \in Int
  BY <1>1, <1>2 DEF Charted
<1>4. \A x, y : <<x, y>> \in R <=> /\ x \in P /\ y \in P
                                   /\ \/ at(x) > at(y)
                                      \/ /\ at(x) = at(y)
                                         /\ x[1] < y[1] \/ (x[1] = y[1] /\ x[2] < y[2])
  OBVIOUS
<1>5. out = [i \in DOMAIN order |-> curves[order[i][1]][order[i][2]]]
  BY DEF NewestFirst, Places
<1> HIDE DEF P, at, R, out
<1>6. StrictOrder(P, R)
  <2>1. \A x \in P : <<x, x>> \notin R
    BY <1>3, <1>4
  <2>2. ASSUME NEW x \in P, NEW y \in P, x # y PROVE <<x, y>> \in R \/ <<y, x>> \in R
    <3>1. x[1] # y[1] \/ x[2] # y[2]
      BY <1>1, <2>2, Zenon
    <3>2. /\ at(x) \in Int /\ at(y) \in Int
          /\ x[1] \in Int /\ x[2] \in Int /\ y[1] \in Int /\ y[2] \in Int
      BY <1>3
    <3>3. CASE at(x) # at(y)
      <4>1. at(x) > at(y) \/ at(y) > at(x)
        BY <3>2, <3>3
      <4> QED  BY <1>4, <4>1
    <3>4. CASE at(x) = at(y)
      <4>1. \/ x[1] < y[1] \/ (x[1] = y[1] /\ x[2] < y[2])
            \/ y[1] < x[1] \/ (y[1] = x[1] /\ y[2] < x[2])
        BY <3>1, <3>2
      <4> QED  BY <1>4, <3>4, <4>1
    <3> QED  BY <3>3, <3>4
  <2>3. ASSUME NEW x \in P, NEW y \in P, NEW z \in P, <<x, y>> \in R, <<y, z>> \in R
        PROVE  <<x, z>> \in R
    <3>1. at(x) \in Int /\ at(y) \in Int /\ at(z) \in Int
      BY <1>3
    <3>2. /\ x[1] \in Int /\ y[1] \in Int /\ z[1] \in Int
          /\ x[2] \in Int /\ y[2] \in Int /\ z[2] \in Int
      BY <1>3
    <3>3. at(x) > at(y) \/ (at(x) = at(y) /\ (x[1] < y[1] \/ (x[1] = y[1] /\ x[2] < y[2])))
      BY <1>4, <2>3
    <3>4. at(y) > at(z) \/ (at(y) = at(z) /\ (y[1] < z[1] \/ (y[1] = z[1] /\ y[2] < z[2])))
      BY <1>4, <2>3
    <3>5. at(x) > at(z) \/ (at(x) = at(z) /\ (x[1] < z[1] \/ (x[1] = z[1] /\ x[2] < z[2])))
      BY <3>1, <3>2, <3>3, <3>4
    <3> QED  BY <1>4, <3>5
  <2> QED  BY <2>1, <2>2, <2>3 DEF StrictOrder
<1>7. Lists(order, P, R)
  BY <1>1, <1>6, ListingIs
<1>8. /\ order \in [1 .. c -> P]
      /\ \A x \in P : \E i \in 1 .. c : order[i] = x
      /\ \A i, j \in 1 .. c : order[i] = order[j] => i = j
  BY <1>7 DEF Lists
<1> HIDE DEF order
<1>9. DOMAIN out = 1 .. c /\ \A i \in 1 .. c : out[i] = curves[order[i][1]][order[i][2]]
  BY <1>5, <1>8
<1>10. \A i \in 1 .. c : out[i] \in Charted
  BY <1>2, <1>8, <1>9
<1>11. out \in Seq(Charted) /\ Len(out) = c
  <2>1. out = [i \in 1 .. c |-> out[i]]
    BY <1>5, <1>9
  <2>2. out \in [1 .. c -> Charted]
    BY <1>10, <2>1
  <2>3. c \in Nat /\ DOMAIN out = 1 .. c
    BY <1>1, <1>9
  <2> HIDE DEF c
  <2>4. out \in Seq(Charted)
    BY <2>2, <2>3
  <2> QED  BY <2>3, <2>4
<1>12. Arranges(order, out, curves)
  BY <1>8, <1>9 DEF Arranges, P
<1> QED  BY <1>1, <1>11, <1>12 DEF out

\* The cut keeps at most MaxPoints points, and a list that short as it is.
LEMMA CutIs ==
    ASSUME NEW list, list \in Seq(Charted)
    PROVE  /\ Cut(list) \in Seq(Charted) /\ Len(Cut(list)) <= MaxPoints
           /\ Len(list) <= MaxPoints => Cut(list) = list
<1>1. Len(list) \in Nat /\ MaxPoints \in Nat
  BY MaxPointsIs, RecordsAre
<1> DEFINE c == Lesser(Len(list), MaxPoints)
<1>2. c \in Nat /\ c <= Len(list) /\ c <= MaxPoints /\ (Len(list) <= MaxPoints => c = Len(list))
  BY <1>1 DEF Lesser
<1>3. Cut(list) = SubSeq(list, 1, c)
  BY DEF Cut
<1> HIDE DEF c
<1>4. SubSeq(list, 1, c) \in Seq(Charted) /\ Len(SubSeq(list, 1, c)) = c
  BY <1>1, <1>2
<1>5. Len(list) <= MaxPoints => SubSeq(list, 1, c) = list
  BY <1>1, <1>2
<1> QED  BY <1>2, <1>3, <1>4, <1>5

\* However the rows are, at most MaxPoints points remain of them.
LEMMA AggregateRowsTyped ==
    ASSUME NEW list, list \in Seq(Charted), NEW since
    PROVE  /\ AggregateRows(list, since) \in Seq(Charted)
           /\ Len(AggregateRows(list, since)) <= MaxPoints
<1>1. CASE Len(list) <= MaxPoints
  BY <1>1 DEF AggregateRows
<1>2. CASE ~(Len(list) <= MaxPoints)
  <2> DEFINE C == Curves(list, since)
             m == Cardinality(SeriesIn(list))
  <2>1. m \in Nat /\ DOMAIN C = 1 .. m /\ \A i \in 1 .. m : C[i] \in Seq(Charted)
    BY SeriesListIs, CurvesAre
  <2> HIDE DEF C, m
  <2>2. NewestFirst(C) \in Seq(Charted)
    BY <2>1, NewestFirstIs
  <2>3. AggregateRows(list, since) = Cut(NewestFirst(C))
    BY <1>2 DEF AggregateRows, C
  <2> QED  BY <2>2, <2>3, CutIs
<1> QED  BY <1>1, <1>2
----------------------------------------------------------------------------
(* The memory of the answer. *)

\* What the callback receives for row p.
Received(p) == [at |-> p.at, series |-> p.series, n |-> 1]

\* The rows of a page, one after the other.
InOrder(P) == Listing(P, {p \in P \X P : Precedes(p[1], p[2])})

\* A page's rows are fetched in the query's order, each once.
LEMMA FetchedIs ==
    ASSUME Typed, NEW P \in SUBSET Eligible
    PROVE  /\ IsFiniteSet(P) /\ Cardinality(P) \in Nat /\ P \subseteq Row
           /\ InOrder(P) \in [1 .. Cardinality(P) -> P]
           /\ \A p \in P : \E i \in 1 .. Cardinality(P) : InOrder(P)[i] = p
           /\ \A i, j \in 1 .. Cardinality(P) : InOrder(P)[i] = InOrder(P)[j] => i = j
           /\ Fetched(P) \in Seq(Charted) /\ Len(Fetched(P)) = Cardinality(P)
           /\ \A i \in 1 .. Cardinality(P) : Fetched(P)[i] = Received(InOrder(P)[i])
<1> DEFINE R == {p \in P \X P : Precedes(p[1], p[2])}
           list == InOrder(P)
           n == Cardinality(P)
<1>1. IsFiniteSet(P) /\ P \subseteq rows /\ P \subseteq Row
  <2>1. P \subseteq rows /\ rows \subseteq Row /\ IsFiniteSet(rows)
    BY DEF Eligible, Typed, TableType
  <2> QED  BY <2>1, FS_Subset
<1>2. \A p \in P, q \in P : p.at = q.at /\ p.id = q.id => p = q
  <2>1. \A p \in P : p \in rows /\ p.table = query.table
    BY DEF Eligible
  <2> QED  BY <2>1 DEF Typed, TableType
<1>3. \A x, y : <<x, y>> \in R <=> x \in P /\ y \in P /\ Precedes(x, y)
  OBVIOUS
<1> HIDE DEF R
<1>4. StrictOrder(P, R)
  <2>1. \A x \in P : <<x, x>> \notin R
    BY <1>1, <1>3, PrecedesOrder
  <2>2. ASSUME NEW x \in P, NEW y \in P, x # y PROVE <<x, y>> \in R \/ <<y, x>> \in R
    BY <1>1, <1>2, <1>3, <2>2, PrecedesOrder
  <2>3. ASSUME NEW x \in P, NEW y \in P, NEW z \in P, <<x, y>> \in R, <<y, z>> \in R
        PROVE  <<x, z>> \in R
    <3>1. x \in Row /\ y \in Row /\ z \in Row /\ Precedes(x, y) /\ Precedes(y, z)
      BY <1>1, <1>3, <2>3
    <3>2. Precedes(x, z)
      BY <3>1, PrecedesOrder
    <3> QED  BY <1>3, <3>2
  <2> QED  BY <2>1, <2>2, <2>3 DEF StrictOrder
<1>5. Lists(list, P, R)
  <2>1. Lists(Listing(P, R), P, R)
    BY <1>1, <1>4, ListingIs
  <2> QED  BY <2>1 DEF InOrder, R
<1>6. /\ list \in [1 .. n -> P] /\ n \in Nat
      /\ \A x \in P : \E i \in 1 .. n : list[i] = x
      /\ \A i, j \in 1 .. n : list[i] = list[j] => i = j
  BY <1>5 DEF Lists
<1>7. Fetched(P) = [i \in DOMAIN list |-> [at |-> list[i].at, series |-> list[i].series, n |-> 1]]
  BY DEF Fetched, InOrder
<1> HIDE DEF list
<1>8. Fetched(P) = [i \in 1 .. n |-> Received(list[i])]
  BY <1>6, <1>7 DEF Received
<1>9. \A p \in P : Received(p) \in Charted
  BY <1>1 DEF Received, Charted, Row
<1>10. Fetched(P) \in Seq(Charted) /\ Len(Fetched(P)) = n
  <2>1. Fetched(P) \in [1 .. n -> Charted]
    BY <1>6, <1>8, <1>9
  <2>2. n \in Nat /\ DOMAIN Fetched(P) = 1 .. n
    BY <1>6, <1>8
  <2> HIDE DEF n
  <2>3. Fetched(P) \in Seq(Charted)
    BY <2>1, <2>2
  <2> QED  BY <2>2, <2>3
<1>11. \A i \in 1 .. n : Fetched(P)[i] = Received(list[i])
  BY <1>8
<1> QED  BY <1>1, <1>6, <1>10, <1>11 DEF list

\* One row more.
LEMMA GatherIs ==
    ASSUME NEW list, list \in Seq(Charted), NEW r \in Charted
    PROVE  /\ Gather(list, r) \in Seq(Charted) /\ Len(Gather(list, r)) < 2 * MaxPoints
           /\ Append(list, r) \in Seq(Charted)
<1> DEFINE more == Append(list, r)
<1>1. more \in Seq(Charted) /\ Len(more) \in Nat /\ MaxPoints \in Nat /\ MaxPoints >= 1
  BY MaxPointsIs
<1> HIDE DEF more
<1>2. CASE Len(more) >= 2 * MaxPoints
  <2>1. Gather(list, r) = AggregateRows(more, query.since)
    BY <1>2 DEF Gather, more
  <2>2. /\ AggregateRows(more, query.since) \in Seq(Charted)
        /\ Len(AggregateRows(more, query.since)) <= MaxPoints
    BY <1>1, AggregateRowsTyped
  <2>3. Len(AggregateRows(more, query.since)) \in Nat
    BY <2>2
  <2> QED  BY <1>1, <2>1, <2>2, <2>3 DEF more
<1>3. CASE ~(Len(more) >= 2 * MaxPoints)
  <2>1. Gather(list, r) = more
    BY <1>3 DEF Gather, more
  <2> QED  BY <1>1, <1>3, <2>1 DEF more
<1> QED  BY <1>2, <1>3

\* Gathering a page keeps the memory below its bound.
LEMMA GatheredIs ==
    ASSUME memory \in Seq(Charted), NEW list, list \in Seq(Charted)
    PROVE  /\ Gathered(list)[0] = memory
           /\ \A i \in 1 .. Len(list) : Gathered(list)[i] = Gather(Gathered(list)[i - 1], list[i])
           /\ \A i \in 0 .. Len(list) : Gathered(list)[i] \in Seq(Charted)
<1> DEFINE T == Seq(Charted)
           k == Len(list)
           step == [i \in 1 .. k |-> [x \in T |-> Gather(x, list[i])]]
           after == Gathered(list)
<1>1. memory \in T /\ k \in Nat
  OBVIOUS
<1>2. \A i \in 1 .. k : list[i] \in Charted
  BY RecordsAre
<1>3. \A x \in T, i \in 1 .. k : Gather(x, list[i]) \in T
  BY <1>2, GatherIs
<1>4. step \in [1 .. k -> [T -> T]]
  BY <1>3
<1>5. \A x \in T, i \in 1 .. k : step[i][x] = Gather(x, list[i])
  OBVIOUS
<1> HIDE DEF step, T, k
<1>6. Solutions(T, k, memory, step) # {}
  BY <1>1, <1>4, Recursion
<1>7. PICK f : f = [i \in 0 .. k |-> IF i = 0 THEN memory ELSE Gather(f[i - 1], list[i])]
  <2>1. PICK f \in [0 .. k -> T] : f[0] = memory /\ \A i \in 1 .. k : f[i] = step[i][f[i - 1]]
    BY <1>6 DEF Solutions
  <2>2. ASSUME NEW i \in 1 .. k PROVE f[i] = Gather(f[i - 1], list[i])
    <3>1. i - 1 \in 0 .. k
      BY <1>1
    <3> QED  BY <2>1, <3>1, <1>5
  <2>3. f = [i \in 0 .. k |-> IF i = 0 THEN memory ELSE Gather(f[i - 1], list[i])]
    BY <1>1, <2>1, <2>2
  <2> QED  BY <2>3
<1>8. after = [i \in 0 .. k |-> IF i = 0 THEN memory ELSE Gather(after[i - 1], list[i])]
  BY <1>7, Zenon DEF Gathered, k
<1> HIDE DEF after
<1>9. after[0] = memory /\ \A i \in 1 .. k : after[i] = Gather(after[i - 1], list[i])
  BY <1>1, <1>8
<1> DEFINE S == {i \in 0 .. k : after[i] \in T}
<1>10. \A i \in 0 .. k : i \in S
  <2>1. 0 \in S
    BY <1>1, <1>9
  <2>2. ASSUME NEW i \in 0 .. k - 1, i \in S PROVE i + 1 \in S
    <3>1. i + 1 \in 1 .. k /\ (i + 1) - 1 = i /\ i + 1 \in 0 .. k
      BY <1>1
    <3>2. after[i + 1] = Gather(after[i], list[i + 1])
      BY <1>9, <3>1
    <3> QED  BY <1>3, <2>2, <3>1, <3>2
  <2> HIDE DEF S
  <2> QED  BY <1>1, <2>1, <2>2, Climb
<1> QED  BY <1>9, <1>10 DEF after, T, k

\* The variables of the answer keep their types and the memory its bounds; once the answer
\* is written the stream stands still.
Held ==
    /\ memory \in Seq(Charted) /\ fed \in [Series -> Nat]
    /\ answered \in BOOLEAN /\ disturbed \in BOOLEAN
    /\ Len(memory) < 2 * MaxPoints
    /\ answered => Len(memory) <= MaxPoints /\ query.table = "done"

\* A page that is read and gathered keeps the bound.
LEMMA HeldPage ==
    ASSUME Typed, Held, NEW P \in SUBSET Eligible, DReadPage(P)
    PROVE  Held'
<1> DEFINE list == Fetched(P)
           n == Cardinality(P)
<1>1. /\ list \in Seq(Charted) /\ Len(list) = n /\ n \in Nat
  BY FetchedIs
<1>2. query.table # "done" /\ ~answered /\ ReadPage(P)
  BY DEF DReadPage, ReadPage, Held
<1>3. memory' = Gathered(list)[n] /\ answered' = answered
  BY DEF DReadPage
<1> HIDE DEF list, n
<1>4. /\ Gathered(list)[0] = memory
      /\ \A i \in 1 .. n : Gathered(list)[i] = Gather(Gathered(list)[i - 1], list[i])
      /\ \A i \in 0 .. n : Gathered(list)[i] \in Seq(Charted)
  BY <1>1, GatheredIs DEF Held
<1>5. memory' \in Seq(Charted)
  BY <1>1, <1>3, <1>4
<1>6. Len(memory') < 2 * MaxPoints
  <2>1. CASE n = 0
    BY <1>3, <1>4, <2>1 DEF Held
  <2>2. CASE n # 0
    <3>1. n \in 1 .. n /\ n - 1 \in 0 .. n
      BY <1>1, <2>2
    <3>2. list[n] \in Charted
      BY <1>1, <3>1, RecordsAre
    <3>3. memory' = Gather(Gathered(list)[n - 1], list[n]) /\ Gathered(list)[n - 1] \in Seq(Charted)
      BY <1>3, <1>4, <3>1
    <3> QED  BY <3>2, <3>3, GatherIs
  <2> QED  BY <2>1, <2>2
<1>7. fed' \in [Series -> Nat]
  <2>1. \A s \in Series : Cardinality({p \in P : p.series = s}) \in Nat
    <3> TAKE s \in Series
    <3>1. IsFiniteSet(P)
      BY FetchedIs
    <3>2. IsFiniteSet({p \in P : p.series = s})
      BY <3>1, FS_Subset
    <3> QED  BY <3>2, FS_CardinalityType
  <2>2. fed' = [s \in Series |-> fed[s] + Cardinality({p \in P : p.series = s})]
    BY DEF DReadPage
  <2> QED  BY <2>1, <2>2 DEF Held
<1>8. disturbed' \in BOOLEAN
  BY DEF DReadPage, Held
<1> QED  BY <1>2, <1>3, <1>5, <1>6, <1>7, <1>8 DEF Held

\* Every step keeps the bound.
LEMMA HeldStep == Typed /\ Held /\ [DNext]_dvars => Held'
<1> SUFFICES ASSUME Typed, Held, [DNext]_dvars PROVE Held'
  OBVIOUS
<1>1. CASE DAsk
  <2>1. query.table = "none" /\ UNCHANGED chartVars
    BY <1>1, AskFields DEF DAsk, SomeAsk
  <2> QED  BY <2>1 DEF Held, chartVars
<1>2. CASE Answer
  <2>1. /\ AggregateRows(memory, query.since) \in Seq(Charted)
        /\ Len(AggregateRows(memory, query.since)) <= MaxPoints
    BY AggregateRowsTyped DEF Held
  <2>2. Len(memory') \in Nat /\ MaxPoints \in Nat /\ MaxPoints >= 1
    BY <1>2, <2>1, MaxPointsIs DEF Answer
  <2>3. memory' \in Seq(Charted) /\ Len(memory') <= MaxPoints
    BY <1>2, <2>1 DEF Answer
  <2>4. Len(memory') < 2 * MaxPoints
    BY <2>2, <2>3
  <2>5. query' = query /\ query.table = "done" /\ answered' = TRUE /\ fed' = fed
    BY <1>2 DEF Answer, wvars, streamVars
  <2>6. disturbed' \in BOOLEAN
    BY <1>2 DEF Answer, Held
  <2> QED  BY <2>3, <2>4, <2>5, <2>6 DEF Held
<1>3. CASE DChange
  <2>1. query' = query /\ UNCHANGED chartVars
    BY <1>3, TypedChange DEF DChange, streamVars
  <2> QED  BY <2>1 DEF Held, chartVars
<1>4. ASSUME NEW P \in SUBSET Eligible, DReadPage(P) PROVE Held'
  BY <1>4, HeldPage
<1>5. CASE UNCHANGED dvars
  <2>1. query' = query /\ UNCHANGED chartVars
    BY <1>5 DEF dvars, wvars, streamVars
  <2> QED  BY <2>1 DEF Held, chartVars
<1> QED  BY <1>1, <1>2, <1>3, <1>4, <1>5 DEF DNext

\* The bound holds before a dashboard asks.
LEMMA HeldInit == DInit => Held
<1> SUFFICES ASSUME DInit PROVE Held
  OBVIOUS
<1>1. memory = <<>> /\ memory \in Seq(Charted) /\ Len(memory) = 0 /\ 0 < 2 * MaxPoints
  BY MaxPointsIs DEF DInit
<1>2. fed \in [Series -> Nat] /\ answered = FALSE /\ disturbed = FALSE
  BY DEF DInit
<1> QED  BY <1>1, <1>2 DEF Held

LEMMA HeldAlways == DSpec => [](Typed /\ Held)
<1>1. DSpec => []Typed
  BY AnswerReadsStream, TypedAlways, PTL
<1> QED  BY <1>1, HeldInit, HeldStep, PTL DEF DSpec

\* However many rows are streamed, the memory holds fewer than twice MaxPoints of them,
\* and the answer has at most MaxPoints points.
THEOREM BoundedAlways == DSpec => []Bounded
<1>1. Held => Bounded
  BY DEF Held, Bounded
<1> QED  BY <1>1, HeldAlways, PTL
----------------------------------------------------------------------------
(* What the memory says of every series. *)

\* The rows of a at P are those of b at Q, in another order.
Moves(move, P, a, Q, b) ==
    /\ move \in [P -> Q]
    /\ \A x \in P : a[x].n = b[move[x]].n
    /\ \A y \in Q : \E x \in P : move[x] = y
    /\ \A x, z \in P : move[x] = move[z] => x = z

\* Such rows of two lists of charted rows.
Moved(move, P, a, Q, b) ==
    /\ a \in Seq(Charted) /\ b \in Seq(Charted) /\ Q \subseteq 1 .. Len(b)
    /\ Moves(move, P, a, Q, b)

\* Rows in another order stand for as many probes.
LEMMA ProbesMoved ==
    ASSUME NEW a, NEW b, NEW P, NEW Q, NEW move, Moved(move, P, a, Q, b)
    PROVE  ProbesAt(P, a) = ProbesAt(Q, b)
<1>0. /\ a \in Seq(Charted) /\ b \in Seq(Charted) /\ Q \subseteq 1 .. Len(b)
      /\ Moves(move, P, a, Q, b)
  BY DEF Moved
<1> USE <1>0
<1> DEFINE f == [y \in Q |-> b[y].n]
           g == [x \in P |-> a[x].n]
           W == [x \in P |-> {move[x]}]
<1>1. IsFiniteSet(Units(f)) /\ \A y \in Q : b[y].n \in Nat
  BY ProbesAtType, RecordsAre
<1>2. ASSUME NEW x \in DOMAIN g
      PROVE  W[x] \subseteq DOMAIN f /\ g[x] = Tally([y \in W[x] |-> f[y]])
  <2>1. move[x] \in Q /\ W[x] = {move[x]} /\ g[x] = b[move[x]].n
    BY DEF Moves
  <2>2. [y \in {move[x]} |-> f[y]] = [y \in {move[x]} |-> b[move[x]].n]
    BY <2>1
  <2>3. Tally([y \in {move[x]} |-> b[move[x]].n]) = b[move[x]].n
    BY <1>1, <2>1, TallyOne
  <2> QED  BY <2>1, <2>2, <2>3
<1>3. \A y \in DOMAIN f : \E x \in DOMAIN g : y \in W[x]
  BY DEF Moves
<1>4. \A x, z \in DOMAIN g : x # z => W[x] \cap W[z] = {}
  BY DEF Moves
<1>5. Tally(g) = Tally(f)
  <2> HIDE DEF f, g, W
  <2> QED  BY <1>1, <1>2, <1>3, <1>4, TallyParts
<1> QED  BY <1>5 DEF ProbesAt

\* Rows that are merged stand for as many probes together as before.
LEMMA MergesKeep ==
    ASSUME NEW out, out \in Seq(Charted), NEW list, list \in Seq(Charted),
               NEW W, Merges(out, list, W)
    PROVE  ProbesAt(DOMAIN out, out) = ProbesAt(DOMAIN list, list)
<1> DEFINE f == [y \in DOMAIN list |-> list[y].n]
           g == [x \in DOMAIN out |-> out[x].n]
<1>1. IsFiniteSet(Units(f))
  BY ProbesAtType, RecordsAre
<1>2. ASSUME NEW x \in DOMAIN g
      PROVE  W[x] \subseteq DOMAIN f /\ g[x] = Tally([y \in W[x] |-> f[y]])
  <2>1. W[x] \subseteq DOMAIN list /\ out[x].n = ProbesAt(W[x], list)
    BY DEF Merges, StandsFor
  <2>2. [y \in W[x] |-> f[y]] = [y \in W[x] |-> list[y].n]
    BY <2>1
  <2> QED  BY <2>1, <2>2 DEF ProbesAt
<1>3. \A y \in DOMAIN f : \E x \in DOMAIN g : y \in W[x]
  BY DEF Merges
<1>4. \A x, z \in DOMAIN g : x # z => W[x] \cap W[z] = {}
  BY DEF Merges
<1>5. Tally(g) = Tally(f)
  <2> HIDE DEF f, g
  <2> QED  BY <1>1, <1>2, <1>3, <1>4, TallyParts
<1> QED  BY <1>5 DEF ProbesAt

\* A series' rows alone stand for as many probes as within the list.
LEMMA RowsOfKeeps ==
    ASSUME NEW list, list \in Seq(Charted), NEW s
    PROVE  ProbesAt(DOMAIN RowsOf(s, list), RowsOf(s, list)) = ProbesAt(Positions(s, list), list)
<1> DEFINE P == Positions(s, list)
           m == Cardinality(P)
           place == Ascending(P)
           mine == RowsOf(s, list)
<1>1. /\ mine \in Seq(Charted) /\ DOMAIN mine = 1 .. m
      /\ place \in [1 .. m -> P]
      /\ \A i \in 1 .. m : mine[i] = list[place[i]]
      /\ \A x \in P : \E i \in 1 .. m : place[i] = x
      /\ \A i, j \in 1 .. m : place[i] = place[j] => i = j
  BY RowsOfIs
<1>2. P \subseteq 1 .. Len(list)
  BY PositionsAre
<1> HIDE DEF P, m, place, mine
<1>3. Moves(place, DOMAIN mine, mine, P, list)
  BY <1>1 DEF Moves
<1>4. ProbesAt(DOMAIN mine, mine) = ProbesAt(P, list)
  <2>1. mine \in Seq(Charted)
    BY <1>1
  <2> DEFINE D == DOMAIN mine
  <2>2. Moves(place, D, mine, P, list)
    BY <1>3
  <2>3. Moved(place, D, mine, P, list)
    BY <1>2, <2>1, <2>2 DEF Moved
  <2> HIDE DEF D
  <2>4. ProbesAt(D, mine) = ProbesAt(P, list)
    BY <2>3, ProbesMoved
  <2> QED  BY <2>4 DEF D
<1> QED  BY <1>4 DEF P, mine

\* What a list that is aggregated is expected to be.
RegularAt(list, since) ==
    /\ Cardinality(SeriesIn(list)) <= MaxPoints
    /\ \A i, j \in DOMAIN list :
         i < j /\ list[i].series = list[j].series => list[i].at >= list[j].at
    /\ \A s \in SeriesIn(list) : \E i \in Positions(s, list) : list[i].at > since

\* The rows of a series of such a list.
LEMMA RegularRows ==
    ASSUME NEW list, list \in Seq(Charted), NEW since \in Int, RegularAt(list, since),
           NEW s \in SeriesIn(list)
    PROVE  /\ RowsOf(s, list) \in Seq(Charted) /\ Len(RowsOf(s, list)) >= 1
           /\ Falling(RowsOf(s, list)) /\ OneSeries(RowsOf(s, list))
           /\ RowsOf(s, list)[1].at > since
<1> DEFINE P == Positions(s, list)
           m == Cardinality(P)
           place == Ascending(P)
           mine == RowsOf(s, list)
<1>1. /\ mine \in Seq(Charted) /\ DOMAIN mine = 1 .. m /\ Len(mine) = m
      /\ place \in [1 .. m -> P]
      /\ \A i \in 1 .. m : mine[i] = list[place[i]] /\ mine[i].series = s
      /\ \A x \in P : \E i \in 1 .. m : place[i] = x
      /\ \A i, j \in 1 .. m : i < j => place[i] < place[j]
  BY RowsOfIs
<1>2. \A i \in P : i \in DOMAIN list /\ list[i].series = s
  BY DEF Positions
<1>3. PICK x \in P : list[x].at > since
  BY DEF RegularAt
<1> HIDE DEF P, m, place, mine
<1>4. PICK h \in 1 .. m : place[h] = x
  BY <1>1, <1>3
<1>5. m \in Nat /\ m >= 1 /\ 1 \in 1 .. m /\ h \in Int
  <2>1. m \in Nat
    BY PositionsAre DEF m, P
  <2> QED  BY <1>4, <2>1
<1>6. ASSUME NEW i \in 1 .. m, NEW j \in 1 .. m, i < j
      PROVE  mine[i].at >= mine[j].at
  <2>1. /\ place[i] \in P /\ place[j] \in P /\ place[i] < place[j]
        /\ mine[i] = list[place[i]] /\ mine[j] = list[place[j]]
    BY <1>1, <1>6
  <2>2. /\ place[i] \in DOMAIN list /\ place[j] \in DOMAIN list
        /\ list[place[i]].series = list[place[j]].series
    BY <1>2, <2>1
  <2> QED  BY <2>1, <2>2 DEF RegularAt
<1>7. Falling(mine)
  BY <1>1, <1>6 DEF Falling
<1>8. OneSeries(mine)
  BY <1>1 DEF OneSeries
<1>9. mine[1].at > since
  <2>1. mine[h].at > since
    BY <1>1, <1>3, <1>4
  <2>2. h = 1 \/ mine[1].at >= mine[h].at
    BY <1>5, <1>6
  <2>3. mine[1].at \in Int /\ mine[h].at \in Int
    BY <1>1, <1>5, RecordsAre
  <2> QED  BY <2>1, <2>2, <2>3
<1> QED  BY <1>1, <1>5, <1>7, <1>8, <1>9 DEF mine

\* Points of one series speak for the rows of the series in a list.
Speaks(curve, s, list) ==
    /\ curve \in Seq(Charted) /\ \A q \in DOMAIN curve : curve[q].series = s
    /\ ProbesAt(DOMAIN curve, curve) = ProbesAt(Positions(s, list), list)
    /\ DOMAIN curve # {}
    /\ \A q \in DOMAIN curve : \E i, j \in Positions(s, list) :
         list[i].at <= curve[q].at /\ curve[q].at <= list[j].at

TwoInstants(P, list) == \E i, j \in P : list[i].at # list[j].at

\* The curve of a series says of it what its rows said.
LEMMA CurveSpeaks ==
    ASSUME NEW list, list \in Seq(Charted), NEW since \in Int, RegularAt(list, since),
           NEW s \in SeriesIn(list), NEW k \in Nat, k # 0
    PROVE  LET curve == Aggregate(RowsOf(s, list), since, k)
           IN  /\ Speaks(curve, s, list) /\ Len(curve) <= k
               /\ k >= Lesser(2, Cardinality(Positions(s, list)))
                      /\ TwoInstants(Positions(s, list), list)
                    => TwoInstants(DOMAIN curve, curve)
<1> DEFINE P == Positions(s, list)
           m == Cardinality(P)
           place == Ascending(P)
           mine == RowsOf(s, list)
           curve == Aggregate(mine, since, k)
<1>1. /\ mine \in Seq(Charted) /\ Len(mine) >= 1 /\ Falling(mine) /\ OneSeries(mine)
      /\ mine[1].at > since
  BY RegularRows
<1>2. /\ DOMAIN mine = 1 .. m /\ Len(mine) = m /\ m \in Nat
      /\ place \in [1 .. m -> P]
      /\ \A i \in 1 .. m : mine[i] = list[place[i]] /\ mine[i].series = s
      /\ \A x \in P : \E i \in 1 .. m : place[i] = x
  BY RowsOfIs, PositionsAre
<1>3. ProbesAt(DOMAIN mine, mine) = ProbesAt(P, list)
  BY RowsOfKeeps
<1> HIDE DEF P, m, place, mine
<1>4. /\ curve \in Seq(Charted) /\ Len(curve) <= k
      /\ \E W : Merges(curve, mine, W)
      /\ k >= Lesser(2, Len(mine)) /\ mine[1].at # mine[Len(mine)].at =>
           \E q, r \in DOMAIN curve : curve[q].at # curve[r].at
  BY <1>1, AggregateMerges
<1> HIDE DEF curve
<1>5. PICK W : Merges(curve, mine, W)
  BY <1>4
<1>6. ProbesAt(DOMAIN curve, curve) = ProbesAt(P, list)
  BY <1>1, <1>3, <1>4, <1>5, MergesKeep
<1>7. ASSUME NEW q \in DOMAIN curve
      PROVE  /\ curve[q].series = s
             /\ \E i, j \in P : list[i].at <= curve[q].at /\ curve[q].at <= list[j].at
  <2>1. StandsFor(curve, q, mine, W[q])
    BY <1>5 DEF Merges
  <2>2. PICK i \in W[q], j \in W[q] : mine[i].at <= curve[q].at /\ curve[q].at <= mine[j].at
    BY <2>1 DEF StandsFor
  <2>3. i \in 1 .. m /\ j \in 1 .. m /\ mine[i].series = curve[q].series
    BY <1>2, <2>1, <2>2 DEF StandsFor
  <2>4. place[i] \in P /\ place[j] \in P /\ mine[i] = list[place[i]] /\ mine[j] = list[place[j]]
    BY <1>2, <2>3
  <2>5. curve[q].series = s
    BY <1>2, <2>3
  <2>6. list[place[i]].at <= curve[q].at /\ curve[q].at <= list[place[j]].at
    BY <2>2, <2>4
  <2> QED  BY <2>4, <2>5, <2>6
<1>8. DOMAIN curve # {}
  <2>1. 1 \in DOMAIN mine
    BY <1>1, <1>2
  <2> QED  BY <1>5, <2>1 DEF Merges
<1>9. Speaks(curve, s, list)
  BY <1>4, <1>6, <1>7, <1>8 DEF Speaks, P
<1>10. ASSUME k >= Lesser(2, m), TwoInstants(P, list)
       PROVE  TwoInstants(DOMAIN curve, curve)
  <2>1. PICK x \in P, y \in P : list[x].at # list[y].at
    BY <1>10 DEF TwoInstants
  <2>2. PICK i \in 1 .. m, j \in 1 .. m : place[i] = x /\ place[j] = y
    BY <1>2, <2>1
  <2>3. mine[i].at # mine[j].at
    BY <1>2, <2>1, <2>2
  <2>4. mine[1].at # mine[m].at
    <3>1. 1 \in DOMAIN mine /\ m \in DOMAIN mine /\ i \in DOMAIN mine /\ j \in DOMAIN mine
      BY <1>1, <1>2
    <3>2. ASSUME NEW h \in 1 .. m
          PROVE  (h = 1 \/ mine[1].at >= mine[h].at) /\ (h = m \/ mine[h].at >= mine[m].at)
      <4>1. h \in DOMAIN mine /\ h \in Int /\ (h = 1 \/ 1 < h) /\ (h = m \/ h < m)
        BY <1>2
      <4> QED  BY <1>1, <3>1, <4>1 DEF Falling
    <3>3. mine[1].at \in Int /\ mine[m].at \in Int /\ mine[i].at \in Int /\ mine[j].at \in Int
      BY <1>1, <1>2, <3>1, RecordsAre
    <3>4. /\ i = 1 \/ mine[1].at >= mine[i].at
          /\ i = m \/ mine[i].at >= mine[m].at
          /\ j = 1 \/ mine[1].at >= mine[j].at
          /\ j = m \/ mine[j].at >= mine[m].at
      BY <3>2
    <3> QED  BY <2>3, <3>3, <3>4
  <2> QED  BY <1>2, <1>4, <1>10, <2>4 DEF TwoInstants
<1> QED  BY <1>4, <1>9, <1>10 DEF curve, mine, m, P

\* Under the conditions the curves speak for every series, within MaxPoints points together.
LEMMA CurvesSpeak ==
    ASSUME NEW list, list \in Seq(Charted), NEW since \in Int, RegularAt(list, since)
    PROVE  LET sl == SeriesList(list)
               m == Cardinality(SeriesIn(list))
               C == Curves(list, since)
           IN  /\ \A i \in 1 .. m : Speaks(C[i], sl[i], list)
               /\ \A i \in 1 .. m :
                    2 * m <= MaxPoints /\ TwoInstants(Positions(sl[i], list), list) =>
                      TwoInstants(DOMAIN C[i], C[i])
               /\ Tally([i \in 1 .. m |-> Len(C[i])]) <= MaxPoints
<1> DEFINE sl == SeriesList(list)
           m == Cardinality(SeriesIn(list))
           C == Curves(list, since)
           size == Sizes(list)
           b == Budgets(size)
           lens == [i \in 1 .. m |-> Len(C[i])]
<1>1. m \in Nat /\ m <= MaxPoints /\ \A i \in 1 .. m : sl[i] \in SeriesIn(list)
  BY SeriesListIs DEF RegularAt
<1>2. /\ size \in Seq(Nat) /\ DOMAIN size = 1 .. m /\ Len(size) = m
      /\ \A i \in 1 .. m : size[i] = Cardinality(Positions(sl[i], list)) /\ size[i] >= 1
      /\ \A i \in 1 .. m : C[i] \in Seq(Charted)
      /\ \A i \in 1 .. m : b[i] # 0 => C[i] = Aggregate(RowsOf(sl[i], list), since, b[i])
  BY CurvesAre
<1> HIDE DEF sl, m, C, size
<1>3. /\ b \in [1 .. m -> Nat]
      /\ IsFiniteSet(Units(b)) /\ Tally(b) <= MaxPoints
      /\ \A i \in 1 .. m : Lesser(Minimum(m), size[i]) <= b[i]
  <2>1. /\ b \in [DOMAIN size -> Nat]
        /\ IsFiniteSet(Units(b)) /\ Tally(b) <= MaxPoints
        /\ \A i \in DOMAIN size : Len(size) <= MaxPoints
               => Lesser(Minimum(Len(size)), size[i]) <= b[i]
    BY <1>2, BudgetsAre
  <2> QED  BY <1>1, <1>2, <2>1
<1>4. \A i \in 1 .. m : size[i] \in Nat
  BY <1>2
<1> HIDE DEF b
<1>5. \A i \in 1 .. m : b[i] \in Nat /\ b[i] >= 1 /\ (2 * m <= MaxPoints
          => b[i] >= Lesser(2, size[i]))
  <2> TAKE i \in 1 .. m
  <2>1. b[i] \in Nat /\ Lesser(Minimum(m), size[i]) <= b[i] /\ size[i] \in Nat /\ size[i] >= 1
    BY <1>2, <1>3, <1>4
  <2>2. Minimum(m) \in {1, 2} /\ (2 * m <= MaxPoints => Minimum(m) = 2)
    BY DEF Minimum
  <2> QED  BY <2>1, <2>2 DEF Lesser
<1>6. ASSUME NEW i \in 1 .. m
      PROVE  /\ Speaks(C[i], sl[i], list) /\ Len(C[i]) <= b[i]
             /\ 2 * m <= MaxPoints /\ TwoInstants(Positions(sl[i], list), list) =>
                  TwoInstants(DOMAIN C[i], C[i])
  <2> DEFINE s == sl[i]
             k == b[i]
             curve == Aggregate(RowsOf(s, list), since, k)
  <2>1. s \in SeriesIn(list) /\ k \in Nat /\ k # 0 /\ C[i] = curve
    BY <1>1, <1>2, <1>5
  <2> HIDE DEF s, k
  <2>2. /\ Speaks(curve, s, list) /\ Len(curve) <= k
        /\ k >= Lesser(2, Cardinality(Positions(s, list))) /\ TwoInstants(Positions(s, list), list)
             => TwoInstants(DOMAIN curve, curve)
    BY <2>1, CurveSpeaks
  <2>3. 2 * m <= MaxPoints => k >= Lesser(2, Cardinality(Positions(s, list)))
    BY <1>2, <1>5 DEF k, s
  <2> QED  BY <2>1, <2>2, <2>3 DEF s, k
<1>7. Tally(lens) <= Tally(b)
  <2>1. \A i \in 1 .. m : lens[i] \in Nat /\ lens[i] <= b[i]
    <3> TAKE i \in 1 .. m
    <3>1. Len(C[i]) \in Nat
      BY <1>2, RecordsAre
    <3> QED  BY <1>6, <3>1
  <2>2. \A i \in DOMAIN lens : lens[i] \in Nat /\ b[i] \in Nat /\ lens[i] <= b[i]
    BY <1>5, <2>1
  <2>3. DOMAIN lens \subseteq DOMAIN b
    BY <1>3
  <2> HIDE DEF lens
  <2> QED  BY <1>3, <2>2, <2>3, TallyLess
<1>8. Tally(lens) <= MaxPoints
  <2>1. Tally(lens) \in Nat
    <3>1. IsFiniteSet(DOMAIN lens)
      BY <1>1, FS_Interval
    <3>2. \A i \in DOMAIN lens : lens[i] \in Nat
      BY <1>2, RecordsAre
    <3> HIDE DEF lens
    <3> QED  BY <3>1, <3>2, UnitsFinite
  <2>2. Tally(b) \in Nat
    <3>1. Tally(b) = Cardinality(Units(b))
      BY UnitsAre
    <3> QED  BY <1>3, <3>1, FS_CardinalityType
  <2> HIDE DEF lens
  <2> QED  BY <1>3, <1>7, <2>1, <2>2, MaxPointsIs
<1> QED  BY <1>6, <1>8 DEF sl, m, C, lens

\* Curve i is of series sl[i], and no two are of the same.
OfSeries(C, m, sl) ==
    /\ DOMAIN C = 1 .. m /\ m \in Nat
    /\ \A i \in 1 .. m : C[i] \in Seq(Charted)
    /\ \A i \in 1 .. m : \A j \in DOMAIN C[i] : C[i][j].series = sl[i]
    /\ \A i, j \in 1 .. m : sl[i] = sl[j] => i = j

\* The rows of such a curve are those of its series in the whole.
LEMMA ArrangedRows ==
    ASSUME NEW C, NEW m, NEW sl, OfSeries(C, m, sl), NEW out, out \in Seq(Charted),
           NEW order, Arranges(order, out, C), NEW i \in 1 .. m
    PROVE  \E move : /\ Moves(move, Positions(sl[i], out), out, DOMAIN C[i], C[i])
                     /\ \A q \in Positions(sl[i], out) : out[q] = C[i][move[q]]
<1> DEFINE P == Positions(sl[i], out)
           move == [q \in P |-> order[q][2]]
<1>1. /\ DOMAIN C = 1 .. m /\ m \in Nat
      /\ \A x \in 1 .. m : C[x] \in Seq(Charted) /\ DOMAIN C[x] = 1 .. Len(C[x])
      /\ \A x \in 1 .. m : \A y \in DOMAIN C[x] : C[x][y].series = sl[x]
      /\ \A x, y \in 1 .. m : sl[x] = sl[y] => x = y
  BY RecordsAre DEF OfSeries
<1>2. /\ \A x, y : <<x, y>> \in Places(C) <=> x \in 1 .. m /\ y \in 1 .. Len(C[x])
      /\ \A p \in Places(C) : p = <<p[1], p[2]>> /\ p[1] \in 1 .. m /\ p[2] \in 1 .. Len(C[p[1]])
  BY <1>1, PlacesAre
<1>3. /\ \A q \in DOMAIN out : order[q] \in Places(C)
      /\ \A p \in Places(C) : \E q \in DOMAIN out : order[q] = p
      /\ \A q, r \in DOMAIN out : order[q] = order[r] => q = r
      /\ \A q \in DOMAIN out : out[q] = C[order[q][1]][order[q][2]]
  BY DEF Arranges
<1>4. ASSUME NEW q \in DOMAIN out
      PROVE  /\ order[q][1] \in 1 .. m /\ order[q][2] \in DOMAIN C[order[q][1]]
             /\ order[q] = <<order[q][1], order[q][2]>>
             /\ out[q] = C[order[q][1]][order[q][2]]
             /\ out[q].series = sl[order[q][1]]
  <2>1. order[q] \in Places(C) /\ out[q] = C[order[q][1]][order[q][2]]
    BY <1>3
  <2>2. order[q] = <<order[q][1], order[q][2]>> /\ order[q][1] \in 1 .. m
        /\ order[q][2] \in 1 .. Len(C[order[q][1]])
    BY <1>2, <2>1
  <2> QED  BY <1>1, <2>1, <2>2
<1>5. \A q \in P : q \in DOMAIN out /\ out[q].series = sl[i]
  BY DEF Positions
<1>6. ASSUME NEW q \in P
      PROVE  /\ order[q] = <<i, move[q]>> /\ move[q] \in DOMAIN C[i] /\ out[q] = C[i][move[q]]
  <2>1. q \in DOMAIN out /\ out[q].series = sl[i]
    BY <1>5
  <2>2. order[q][1] = i
    BY <1>1, <1>4, <2>1
  <2> QED  BY <1>4, <2>1, <2>2
<1>7. ASSUME NEW j \in DOMAIN C[i] PROVE \E q \in P : move[q] = j
  <2>1. <<i, j>> \in Places(C)
    BY <1>1, <1>2
  <2>2. PICK q \in DOMAIN out : order[q] = <<i, j>>
    BY <1>3, <2>1
  <2>3. order[q][1] = i /\ order[q][2] = j
    BY <2>2
  <2>4. out[q].series = sl[i]
    BY <1>4, <2>3
  <2>5. q \in P
    BY <2>4 DEF Positions
  <2> QED  BY <2>3, <2>5
<1>8. \A q, r \in P : move[q] = move[r] => q = r
  <2> TAKE q, r \in P
  <2>1. q \in DOMAIN out /\ r \in DOMAIN out /\ order[q] = <<i, move[q]>>
            /\ order[r] = <<i, move[r]>>
    BY <1>5, <1>6
  <2> HIDE DEF move
  <2> QED  BY <1>3, <2>1
<1>9. move \in [P -> DOMAIN C[i]]
  BY <1>6
<1>10. \A q \in P : out[q].n = C[i][move[q]].n
  BY <1>6
<1> HIDE DEF P, move
<1>11. Moves(move, P, out, DOMAIN C[i], C[i])
  BY <1>7, <1>8, <1>9, <1>10 DEF Moves
<1>12. \A q \in P : out[q] = C[i][move[q]]
  BY <1>6
<1>13. \E f : Moves(f, P, out, DOMAIN C[i], C[i]) /\ \A q \in P : out[q] = C[i][f[q]]
  BY <1>11, <1>12, Zenon
<1> QED  BY <1>13 DEF P

\* out says of series s what list says.
KeepsSeries(out, list, s) ==
    /\ ProbesAt(Positions(s, out), out) = ProbesAt(Positions(s, list), list)
    /\ Positions(s, list) # {} => Positions(s, out) # {}
    /\ \A q \in Positions(s, out) : \E i, j \in Positions(s, list) :
         list[i].at <= out[q].at /\ out[q].at <= list[j].at
    /\ 2 * Cardinality(SeriesIn(list)) <= MaxPoints /\ TwoInstants(Positions(s, list), list) =>
         TwoInstants(Positions(s, out), out)

\* The aggregation keeps what is known of every series.
LEMMA AggregateRowsKeeps ==
    ASSUME NEW list, list \in Seq(Charted), NEW since \in Int,
           Len(list) > MaxPoints => RegularAt(list, since), NEW s \in Series
    PROVE  KeepsSeries(AggregateRows(list, since), list, s)
<1>1. CASE Len(list) <= MaxPoints
  <2>1. AggregateRows(list, since) = list
    BY <1>1 DEF AggregateRows
  <2>2. \A q \in Positions(s, list) : list[q].at <= list[q].at
    BY RecordsAre, PositionsAre
  <2> QED  BY <2>1, <2>2 DEF KeepsSeries
<1>2. CASE ~(Len(list) <= MaxPoints)
  <2> DEFINE sl == SeriesList(list)
             m == Cardinality(SeriesIn(list))
             C == Curves(list, since)
             out == NewestFirst(C)
             lens == [i \in 1 .. m |-> Len(C[i])]
  <2>1. RegularAt(list, since)
    <3>1. Len(list) > MaxPoints
      BY <1>2, MaxPointsIs, RecordsAre
    <3> QED  BY <3>1
  <2>2. /\ \A i \in 1 .. m : Speaks(C[i], sl[i], list)
        /\ \A i \in 1 .. m :
             2 * m <= MaxPoints /\ TwoInstants(Positions(sl[i], list), list) =>
               TwoInstants(DOMAIN C[i], C[i])
        /\ Tally(lens) <= MaxPoints
    BY <2>1, CurvesSpeak
  <2>3. DOMAIN C = 1 .. m /\ \A i \in 1 .. m : C[i] \in Seq(Charted)
    BY CurvesAre
  <2>4. /\ m \in Nat
        /\ \A i \in 1 .. m : sl[i] \in SeriesIn(list)
        /\ \A x \in SeriesIn(list) : \E i \in 1 .. m : sl[i] = x
        /\ \A i, j \in 1 .. m : sl[i] = sl[j] => i = j
    BY SeriesListIs
  <2> HIDE DEF sl, m, C
  <2>5. out \in Seq(Charted) /\ Len(out) = Tally(lens) /\ \E order : Arranges(order, out, C)
    BY <2>3, <2>4, NewestFirstIs
  <2>6. AggregateRows(list, since) = out
    <3>1. AggregateRows(list, since) = Cut(out)
      BY <1>2 DEF AggregateRows, C
    <3>2. Len(out) <= MaxPoints
      BY <2>2, <2>5
    <3> HIDE DEF out
    <3> QED  BY <2>5, <3>1, <3>2, CutIs
  <2> HIDE DEF out, lens
  <2>7. PICK order : Arranges(order, out, C)
    BY <2>5
  <2>8. OfSeries(C, m, sl)
    BY <2>2, <2>3, <2>4 DEF OfSeries, Speaks
  <2>9. CASE s \notin SeriesIn(list)
    <3>1. Positions(s, list) = {}
      BY <2>9 DEF Positions, SeriesIn
    <3>2. Positions(s, out) = {}
      <4> SUFFICES ASSUME NEW q \in DOMAIN out, out[q].series = s PROVE FALSE
        BY DEF Positions
      <4>1. order[q] \in Places(C) /\ out[q] = C[order[q][1]][order[q][2]]
        BY <2>7 DEF Arranges
      <4>2. order[q][1] \in 1 .. m /\ order[q][2] \in 1 .. Len(C[order[q][1]])
        BY <2>3, <2>4, <4>1, PlacesAre
      <4>3. order[q][2] \in DOMAIN C[order[q][1]]
        BY <2>3, <4>2, RecordsAre
      <4>4. out[q].series = sl[order[q][1]]
        BY <2>8, <4>1, <4>2, <4>3 DEF OfSeries
      <4> QED  BY <2>4, <2>9, <4>2, <4>4
    <3>3. [x \in {} |-> out[x].n] = [x \in {} |-> list[x].n]
      OBVIOUS
    <3>4. ~TwoInstants(Positions(s, list), list)
      BY <3>1 DEF TwoInstants
    <3> QED  BY <2>6, <3>1, <3>2, <3>3, <3>4 DEF KeepsSeries, ProbesAt
  <2>10. CASE s \in SeriesIn(list)
    <3>1. PICK i \in 1 .. m : sl[i] = s
      BY <2>4, <2>10
    <3> DEFINE P == Positions(s, out)
               c == C[i]
               D == DOMAIN c
    <3>2. PICK move : Moves(move, P, out, D, c) /\ \A q \in P : out[q] = c[move[q]]
      BY <2>5, <2>7, <2>8, <3>1, ArrangedRows
    <3>3. Speaks(c, s, list) /\ (2 * m <= MaxPoints /\ TwoInstants(Positions(s, list), list) =>
                                   TwoInstants(D, c))
      BY <2>2, <3>1
    <3>4. c \in Seq(Charted) /\ D \subseteq 1 .. Len(c)
      BY <2>3, RecordsAre
    <3> HIDE DEF P, c, D
    <3>5. ProbesAt(P, out) = ProbesAt(D, c)
      <4>1. out \in Seq(Charted) /\ Moves(move, P, out, D, c)
        BY <2>5, <3>2
      <4>2. Moved(move, P, out, D, c)
        BY <3>4, <4>1 DEF Moved
      <4> QED  BY <4>2, ProbesMoved
    <3>6. ProbesAt(D, c) = ProbesAt(Positions(s, list), list)
      BY <3>3 DEF Speaks, D
    <3>7. P # {}
      BY <3>2, <3>3 DEF Speaks, Moves, D
    <3>8. ASSUME NEW q \in P
          PROVE  \E x, y \in Positions(s, list) : list[x].at <= out[q].at /\ out[q].at <= list[y].at
      <4>1. move[q] \in D /\ out[q] = c[move[q]]
        BY <3>2 DEF Moves
      <4> QED  BY <3>3, <4>1 DEF Speaks, D
    <3>9. ASSUME TwoInstants(D, c) PROVE TwoInstants(P, out)
      <4>1. PICK x \in D, y \in D : c[x].at # c[y].at
        BY <3>9 DEF TwoInstants
      <4>2. PICK q \in P, r \in P : move[q] = x /\ move[r] = y
        BY <3>2 DEF Moves
      <4>3. out[q] = c[x] /\ out[r] = c[y]
        BY <3>2, <4>2
      <4> QED  BY <4>1, <4>3 DEF TwoInstants
    <3> QED  BY <2>6, <3>3, <3>5, <3>6, <3>7, <3>8, <3>9 DEF KeepsSeries, P, m
  <2> QED  BY <2>9, <2>10
<1> QED  BY <1>1, <1>2

\* The rows of series s in list, sum of them delivered at the given times: no probe is lost,
\* the series keeps a row, its rows lie between the times and, if there is room, at two
\* instants.
KnownOf(list, s, sum, times, room) ==
    /\ ProbesAt(Positions(s, list), list) = sum
    /\ times # {} => Positions(s, list) # {}
    /\ \A q \in Positions(s, list) : \E t, u \in times : t <= list[q].at /\ list[q].at <= u
    /\ room /\ (\E t, u \in times : t # u) => TwoInstants(Positions(s, list), list)

\* A list with one row more.
LEMMA AppendIs ==
    ASSUME NEW list, list \in Seq(Charted), NEW r \in Charted
    PROVE  LET n == Len(list)
               more == Append(list, r)
           IN  /\ n \in Nat /\ more \in Seq(Charted) /\ Len(more) = n + 1
               /\ \A i \in 1 .. n : more[i] = list[i]
               /\ more[n + 1] = r /\ DOMAIN more = 1 .. n + 1 /\ DOMAIN list = 1 .. n
OBVIOUS

\* A row more is a probe more, of its series.
LEMMA ProbesAppended ==
    ASSUME NEW list, list \in Seq(Charted), NEW r \in Charted, r.n = 1, NEW s
    PROVE  /\ Positions(s, Append(list, r)) =
                Positions(s, list) \cup (IF r.series = s THEN {Len(list) + 1} ELSE {})
           /\ ProbesAt(Positions(s, Append(list, r)), Append(list, r)) =
                ProbesAt(Positions(s, list), list) + IF r.series = s THEN 1 ELSE 0
<1> DEFINE n == Len(list)
           more == Append(list, r)
           P == Positions(s, list)
           Q == Positions(s, more)
           f == [i \in P |-> list[i].n]
           g == [i \in Q |-> more[i].n]
<1>1. /\ n \in Nat /\ more \in Seq(Charted) /\ Len(more) = n + 1
      /\ \A i \in 1 .. n : more[i] = list[i]
      /\ more[n + 1] = r /\ DOMAIN more = 1 .. n + 1 /\ DOMAIN list = 1 .. n
  BY AppendIs
<1> HIDE DEF n, more
<1>2. Q = P \cup (IF r.series = s THEN {n + 1} ELSE {})
  <2>1. 1 .. n + 1 = (1 .. n) \cup {n + 1}
    BY <1>1
  <2>2. P = {i \in 1 .. n : list[i].series = s} /\ Q = {i \in 1 .. n + 1 : more[i].series = s}
    BY <1>1 DEF Positions
  <2>3. \A i \in 1 .. n : i \in Q <=> i \in P
    BY <1>1, <2>1, <2>2
  <2>4. n + 1 \in Q <=> r.series = s
    BY <1>1, <2>1, <2>2
  <2>5. P \subseteq 1 .. n /\ Q \subseteq (1 .. n) \cup {n + 1} /\ n + 1 \notin 1 .. n
    BY <1>1, <2>1, <2>2
  <2> HIDE DEF P, Q
  <2> QED  BY <2>3, <2>4, <2>5
<1>3. P \subseteq 1 .. n /\ n + 1 \notin P
  BY <1>1, PositionsAre DEF n
<1>4. IsFiniteSet(Units(f)) /\ ProbesAt(P, list) \in Nat /\ ProbesAt(P, list) = Tally(f)
  BY PositionsAre, ProbesAtType DEF ProbesAt
<1>5. ProbesAt(Q, more) = Tally(g)
  BY DEF ProbesAt
<1>6. CASE r.series # s
  <2>1. Q = P
    BY <1>2, <1>6
  <2>2. g = f
    BY <1>1, <1>3, <2>1
  <2> HIDE DEF f, g, P, Q
  <2> QED  BY <1>2, <1>4, <1>5, <1>6, <2>2 DEF P, Q, n, more
<1>7. CASE r.series = s
  <2> DEFINE u == <<n + 1, 1>>
  <2>1. Q = P \cup {n + 1}
    BY <1>2, <1>7
  <2>2. DOMAIN f = P /\ DOMAIN g = P \cup {n + 1}
    BY <2>1
  <2>3. (\A i \in P : g[i] = f[i]) /\ g[n + 1] = 1
    BY <1>1, <1>3, <2>1
  <2> HIDE DEF f, g, P, Q
  <2>4. Units(g) = Units(f) \cup {u}
    <3>1. ASSUME NEW x \in Units(g) PROVE x \in Units(f) \cup {u}
      <4>1. PICK i \in DOMAIN g : \E c \in 1 .. g[i] : x = <<i, c>>
        BY UnitsAre
      <4>2. PICK c \in 1 .. g[i] : x = <<i, c>>
        BY <4>1
      <4>3. CASE i \in P
        <5>1. <<i, c>> \in Units(f)
          BY <2>2, <2>3, <4>2, <4>3, UnitsAre
        <5> QED  BY <4>2, <5>1
      <4>4. CASE i = n + 1
        <5>1. c = 1
          BY <2>3, <4>2, <4>4
        <5> QED  BY <4>2, <4>4, <5>1
      <4> QED  BY <2>2, <4>3, <4>4
    <3>2. ASSUME NEW x \in Units(f) PROVE x \in Units(g)
      <4>1. PICK i \in DOMAIN f : \E c \in 1 .. f[i] : x = <<i, c>>
        BY UnitsAre
      <4>2. PICK c \in 1 .. f[i] : x = <<i, c>>
        BY <4>1
      <4>3. <<i, c>> \in Units(g)
        BY <2>2, <2>3, <4>2, UnitsAre
      <4> QED  BY <4>2, <4>3
    <3>3. u \in Units(g)
      <4>1. n + 1 \in DOMAIN g /\ 1 \in 1 .. g[n + 1]
        BY <2>2, <2>3
      <4> QED  BY <4>1, UnitsAre
    <3> QED  BY <3>1, <3>2, <3>3
  <2>5. u \notin Units(f)
    <3> SUFFICES ASSUME u \in Units(f) PROVE FALSE
      OBVIOUS
    <3>1. n + 1 \in DOMAIN f
      BY UnitsAre
    <3> QED  BY <1>3, <2>2, <3>1
  <2> HIDE DEF u
  <2>6. Cardinality(Units(g)) = Cardinality(Units(f)) + 1
    BY <1>4, <2>4, <2>5, FS_AddElement
  <2>7. Tally(g) = Cardinality(Units(g)) /\ Tally(f) = Cardinality(Units(f))
    BY UnitsAre
  <2>8. ProbesAt(Q, more) = ProbesAt(P, list) + 1
    BY <1>4, <1>5, <2>6, <2>7
  <2> QED  BY <1>2, <1>7, <2>8 DEF P, Q, n, more
<1> QED  BY <1>6, <1>7

\* What the memory knows of a series stays right when a row of it, or another, is added.
LEMMA AppendKnown ==
    ASSUME NEW list, list \in Seq(Charted), NEW r \in Charted, r.n = 1, NEW s,
           NEW sum \in Nat, NEW times, times \subseteq Int, NEW room \in BOOLEAN,
           KnownOf(list, s, sum, times, room)
    PROVE  IF r.series = s
           THEN KnownOf(Append(list, r), s, sum + 1, times \cup {r.at}, room)
           ELSE KnownOf(Append(list, r), s, sum, times, room)
<1> DEFINE n == Len(list)
           more == Append(list, r)
           P == Positions(s, list)
           Q == Positions(s, more)
<1>1. /\ n \in Nat /\ more \in Seq(Charted) /\ Len(more) = n + 1
      /\ \A i \in 1 .. n : more[i] = list[i]
      /\ more[n + 1] = r /\ DOMAIN more = 1 .. n + 1 /\ DOMAIN list = 1 .. n
  BY AppendIs
<1>2. /\ Q = P \cup (IF r.series = s THEN {n + 1} ELSE {})
      /\ ProbesAt(Q, more) = ProbesAt(P, list) + IF r.series = s THEN 1 ELSE 0
  BY ProbesAppended
<1>3. P \subseteq 1 .. n
  BY PositionsAre
<1>4. /\ ProbesAt(P, list) = sum
      /\ times # {} => P # {}
      /\ \A q \in P : \E t, u \in times : t <= list[q].at /\ list[q].at <= u
      /\ room /\ (\E t, u \in times : t # u) => TwoInstants(P, list)
  BY DEF KnownOf
<1>5. \A q \in P : more[q] = list[q] /\ list[q].at \in Int
  BY <1>1, <1>3, RecordsAre
<1>6. r.at \in Int
  BY DEF Charted
<1> HIDE DEF n, more, P, Q
<1>7. CASE r.series # s
  <2>1. Q = P /\ ProbesAt(Q, more) = sum
    BY <1>2, <1>4, <1>7
  <2>2. TwoInstants(P, list) => TwoInstants(Q, more)
    BY <1>5, <2>1 DEF TwoInstants
  <2>3. KnownOf(more, s, sum, times, room)
    BY <1>4, <1>5, <2>1, <2>2 DEF KnownOf, Q
  <2> QED  BY <1>7, <2>3 DEF more
<1>8. CASE r.series = s
  <2> DEFINE T == times \cup {r.at}
  <2>1. Q = P \cup {n + 1} /\ ProbesAt(Q, more) = sum + 1
    BY <1>2, <1>4, <1>8
  <2>2. ASSUME NEW q \in Q PROVE \E t, u \in T : t <= more[q].at /\ more[q].at <= u
    <3>1. CASE q \in P
      BY <1>4, <1>5, <3>1
    <3>2. CASE q = n + 1
      <4>1. r.at \in T /\ more[q].at = r.at /\ r.at <= r.at
        BY <1>1, <1>6, <3>2
      <4> QED  BY <4>1
    <3> QED  BY <2>1, <3>1, <3>2
  <2>3. ASSUME room, NEW t \in T, NEW u \in T, t # u PROVE TwoInstants(Q, more)
    <3>1. CASE \E x, y \in times : x # y
      <4>1. PICK i \in P, j \in P : list[i].at # list[j].at
        BY <1>4, <2>3, <3>1 DEF TwoInstants
      <4> QED  BY <1>5, <2>1, <4>1 DEF TwoInstants
    <3>2. CASE ~\E x, y \in times : x # y
      <4>1. PICK v \in times : v # r.at
        BY <2>3
      <4>2. \A x \in times : x = v
        BY <3>2
      <4>3. PICK q \in P : TRUE
        BY <1>4
      <4>4. v <= list[q].at /\ list[q].at <= v
        BY <1>4, <4>2
      <4>5. list[q].at = v
        BY <1>5, <4>4
      <4>6. q \in Q /\ n + 1 \in Q /\ more[q].at # more[n + 1].at
        BY <1>1, <1>5, <2>1, <4>1, <4>5
      <4> QED  BY <4>6 DEF TwoInstants
    <3> QED  BY <3>1, <3>2
  <2>4. Q # {}
    BY <2>1
  <2> HIDE DEF T
  <2>5. KnownOf(more, s, sum + 1, T, room)
    BY <2>1, <2>2, <2>3, <2>4 DEF KnownOf, Q
  <2> QED  BY <1>8, <2>5 DEF more, T
<1> QED  BY <1>7, <1>8

\* It stays right when the memory is aggregated.
LEMMA AggregatedKnown ==
    ASSUME NEW list, list \in Seq(Charted), NEW since \in Int,
           Len(list) > MaxPoints => RegularAt(list, since), NEW s \in Series,
           NEW sum \in Nat, NEW times, times \subseteq Int, NEW room \in BOOLEAN,
           room => 2 * Cardinality(SeriesIn(list)) <= MaxPoints,
           KnownOf(list, s, sum, times, room)
    PROVE  KnownOf(AggregateRows(list, since), s, sum, times, room)
<1> DEFINE out == AggregateRows(list, since)
           P == Positions(s, list)
           Q == Positions(s, out)
<1>1. /\ ProbesAt(Q, out) = ProbesAt(P, list)
      /\ P # {} => Q # {}
      /\ \A q \in Q : \E i, j \in P : list[i].at <= out[q].at /\ out[q].at <= list[j].at
      /\ 2 * Cardinality(SeriesIn(list)) <= MaxPoints /\ TwoInstants(P, list) => TwoInstants(Q, out)
  BY AggregateRowsKeeps DEF KeepsSeries
<1>2. /\ ProbesAt(P, list) = sum
      /\ times # {} => P # {}
      /\ \A q \in P : \E t, u \in times : t <= list[q].at /\ list[q].at <= u
      /\ room /\ (\E t, u \in times : t # u) => TwoInstants(P, list)
  BY DEF KnownOf
<1>3. \A i \in P : list[i].at \in Int
  BY PositionsAre, RecordsAre
<1>4. \A q \in Q : out[q].at \in Int
  <2>1. out \in Seq(Charted)
    BY AggregateRowsTyped
  <2> HIDE DEF out
  <2> QED  BY <2>1, PositionsAre, RecordsAre
<1> HIDE DEF out, P, Q
<1>5. ASSUME NEW q \in Q PROVE \E t, u \in times : t <= out[q].at /\ out[q].at <= u
  <2>1. PICK i \in P, j \in P : list[i].at <= out[q].at /\ out[q].at <= list[j].at
    BY <1>1
  <2>2. PICK t \in times : t <= list[i].at
    BY <1>2
  <2>3. PICK u \in times : list[j].at <= u
    BY <1>2
  <2>4. t \in Int /\ u \in Int /\ list[i].at \in Int /\ list[j].at \in Int /\ out[q].at \in Int
    BY <1>3, <1>4
  <2>5. t <= out[q].at /\ out[q].at <= u
    BY <2>1, <2>2, <2>3, <2>4
  <2> QED  BY <2>5
<1>6. KnownOf(out, s, sum, times, room)
  BY <1>1, <1>2, <1>5 DEF KnownOf, Q
<1> QED  BY <1>6 DEF out

\* One row more in the memory.
LEMMA GatherKnown ==
    ASSUME query.since \in Int, NEW list, list \in Seq(Charted), NEW r \in Charted, r.n = 1,
           Len(Append(list, r)) >= 2 * MaxPoints => Regular(Append(list, r)), NEW s \in Series,
           NEW sum \in Nat, NEW times, times \subseteq Int, NEW room \in BOOLEAN,
           room => 2 * Cardinality(SeriesIn(Append(list, r))) <= MaxPoints,
           KnownOf(list, s, sum, times, room)
    PROVE  IF r.series = s
           THEN KnownOf(Gather(list, r), s, sum + 1, times \cup {r.at}, room)
           ELSE KnownOf(Gather(list, r), s, sum, times, room)
<1> DEFINE more == Append(list, r)
           sum2 == IF r.series = s THEN sum + 1 ELSE sum
           times2 == IF r.series = s THEN times \cup {r.at} ELSE times
<1>1. KnownOf(more, s, sum2, times2, room)
  BY AppendKnown
<1>2. more \in Seq(Charted)
  BY AppendIs
<1>3. sum2 \in Nat /\ times2 \subseteq Int
  <2>1. r.at \in Int
    BY DEF Charted
  <2>2. sum2 \in Nat
    <3>1. sum + 1 \in Nat
      OBVIOUS
    <3> QED  BY <3>1, Zenon
  <2>3. times2 \subseteq Int
    BY <2>1
  <2> QED  BY <2>2, <2>3
<1> HIDE DEF more, sum2, times2
<1>4. KnownOf(Gather(list, r), s, sum2, times2, room)
  <2>1. CASE Len(more) >= 2 * MaxPoints
    <3>1. Gather(list, r) = AggregateRows(more, query.since)
      BY <2>1 DEF Gather, more
    <3>2. RegularAt(more, query.since)
      BY <2>1 DEF Regular, RegularAt, more
    <3>3. room => 2 * Cardinality(SeriesIn(more)) <= MaxPoints
      BY DEF more
    <3> QED  BY <1>1, <1>2, <1>3, <3>1, <3>2, <3>3, AggregatedKnown
  <2>2. CASE ~(Len(more) >= 2 * MaxPoints)
    <3>1. Gather(list, r) = more
      BY <2>2 DEF Gather, more
    <3> QED  BY <1>1, <3>1
  <2> QED  BY <2>1, <2>2
<1> QED  BY <1>4 DEF sum2, times2

\* What was delivered of series s when i rows of list are gathered.
SumTo(list, s, i) == fed[s] + Cardinality({h \in 1 .. i : list[h].series = s})

TimesTo(list, s, i) == Times(s) \cup {list[h].at : h \in {g \in 1 .. i : list[g].series = s}}

\* The sums and times of a page's first rows, one row further.
LEMMA ToNext ==
    ASSUME Typed, Held, NEW list, list \in Seq(Charted), NEW s \in Series, NEW i \in 0 .. Len(list)
    PROVE  /\ SumTo(list, s, i) \in Nat /\ TimesTo(list, s, i) \subseteq Int
           /\ SumTo(list, s, 0) = fed[s] /\ TimesTo(list, s, 0) = Times(s)
           /\ i < Len(list) =>
                /\ SumTo(list, s, i + 1) =
                     IF list[i + 1].series = s THEN SumTo(list, s, i) + 1 ELSE SumTo(list, s, i)
                /\ TimesTo(list, s, i + 1) =
                     IF list[i + 1].series = s THEN TimesTo(list, s, i) \cup {list[i + 1].at}
                     ELSE TimesTo(list, s, i)
<1> DEFINE n == Len(list)
           H(j) == {h \in 1 .. j : list[h].series = s}
<1>1. n \in Nat /\ i \in Nat /\ \A h \in 1 .. n : list[h].at \in Int
  BY RecordsAre
<1>2. IsFiniteSet(H(i)) /\ Cardinality(H(i)) \in Nat
  <2>1. IsFiniteSet(1 .. i)
    BY <1>1, FS_Interval
  <2>2. IsFiniteSet(H(i))
    BY <2>1, FS_Subset
  <2> QED  BY <2>2, FS_CardinalityType
<1>3. fed[s] \in Nat
  BY DEF Held
<1>4. Times(s) \subseteq Int
  BY DEF Times, Typed, Row
<1>5. SumTo(list, s, i) = fed[s] + Cardinality(H(i))
  BY DEF SumTo
<1>6. H(i) \subseteq 1 .. n
  BY <1>1
<1>7. TimesTo(list, s, i) = Times(s) \cup {list[h].at : h \in H(i)}
  BY DEF TimesTo
<1>8. SumTo(list, s, 0) = fed[s] /\ TimesTo(list, s, 0) = Times(s)
  <2>1. H(0) = {}
    OBVIOUS
  <2>2. Cardinality(H(0)) = 0
    BY <2>1, FS_EmptySet
  <2>3. SumTo(list, s, 0) = fed[s] + Cardinality(H(0))
    BY DEF SumTo
  <2>4. TimesTo(list, s, 0) = Times(s) \cup {list[h].at : h \in H(0)}
    BY DEF TimesTo
  <2>5. TimesTo(list, s, 0) = Times(s)
    BY <2>1, <2>4
  <2> HIDE DEF H
  <2>6. SumTo(list, s, 0) = fed[s]
    BY <1>3, <2>2, <2>3
  <2> QED  BY <2>5, <2>6
<1>9. ASSUME i < n
      PROVE  /\ SumTo(list, s, i + 1) =
                  IF list[i + 1].series = s THEN SumTo(list, s, i) + 1 ELSE SumTo(list, s, i)
             /\ TimesTo(list, s, i + 1) =
                  IF list[i + 1].series = s THEN TimesTo(list, s, i) \cup {list[i + 1].at}
                  ELSE TimesTo(list, s, i)
  <2>1. i + 1 \in 1 .. n /\ i + 1 \notin 1 .. i /\ 1 .. i + 1 = (1 .. i) \cup {i + 1}
    BY <1>1, <1>9
  <2>2. SumTo(list, s, i + 1) = fed[s] + Cardinality(H(i + 1))
    BY DEF SumTo
  <2>3. TimesTo(list, s, i + 1) = Times(s) \cup {list[h].at : h \in H(i + 1)}
    BY DEF TimesTo
  <2>4. CASE list[i + 1].series = s
    <3>1. H(i + 1) = H(i) \cup {i + 1} /\ i + 1 \notin H(i)
      BY <2>1, <2>4
    <3> HIDE DEF H
    <3>2. Cardinality(H(i + 1)) = Cardinality(H(i)) + 1
      BY <1>2, <3>1, FS_AddElement
    <3>3. SumTo(list, s, i + 1) = SumTo(list, s, i) + 1
      BY <1>2, <1>3, <1>5, <2>2, <3>2
    <3>4. TimesTo(list, s, i + 1) = TimesTo(list, s, i) \cup {list[i + 1].at}
      BY <1>7, <2>3, <3>1
    <3> QED  BY <2>4, <3>3, <3>4
  <2>5. CASE list[i + 1].series # s
    <3>1. H(i + 1) = H(i)
      BY <2>1, <2>5
    <3> QED  BY <1>5, <1>7, <2>2, <2>3, <2>5, <3>1
  <2> QED  BY <2>4, <2>5
<1>10. TimesTo(list, s, i) \subseteq Int
  BY <1>1, <1>4, <1>6, <1>7
<1>11. SumTo(list, s, i) \in Nat
  BY <1>2, <1>3, <1>5
<1> QED  BY <1>8, <1>9, <1>10, <1>11

\* list is known, and of series in U.
KnownAmong(list, sum, times, room, U) ==
    \A s \in Series : KnownOf(list, s, sum[s], times[s], room) /\ (times[s] # {} => s \in U)

\* The series of a memory that is known are among those delivered.
LEMMA SeriesAmong ==
    ASSUME NEW list, list \in Seq(Charted), NEW r \in Charted, NEW sum, NEW times, NEW room, NEW U,
           KnownAmong(list, sum, times, room, U), r.series \in U
    PROVE  SeriesIn(list) \subseteq U /\ SeriesIn(Append(list, r)) \subseteq U
<1>1. \A i \in 1 .. Len(list) : list[i].series \in U
  <2> TAKE i \in 1 .. Len(list)
  <2>1. list[i].series \in Series /\ i \in DOMAIN list
    BY RecordsAre
  <2>2. i \in Positions(list[i].series, list)
    BY <2>1 DEF Positions
  <2>3. times[list[i].series] # {}
    BY <2>1, <2>2 DEF KnownOf, KnownAmong
  <2> QED  BY <2>1, <2>3 DEF KnownAmong
<1>2. /\ Len(list) \in Nat
      /\ \A i \in 1 .. Len(list) : Append(list, r)[i] = list[i]
      /\ Append(list, r)[Len(list) + 1] = r
      /\ DOMAIN Append(list, r) = 1 .. Len(list) + 1 /\ DOMAIN list = 1 .. Len(list)
  BY AppendIs
<1>3. 1 .. Len(list) + 1 = (1 .. Len(list)) \cup {Len(list) + 1}
  BY <1>2
<1>4. \A i \in DOMAIN Append(list, r) : Append(list, r)[i].series \in U
  BY <1>1, <1>2, <1>3
<1> QED  BY <1>1, <1>2, <1>4 DEF SeriesIn

\* The memory after each row of a page that disturbs nothing.
LEMMA GatheredKnown ==
    ASSUME Typed, Held, NEW list, list \in Seq(Charted), \A i \in 1 .. Len(list) : list[i].n = 1,
           ~Disturbs(list), NEW U, IsFiniteSet(U), NEW room \in BOOLEAN,
           room => 2 * Cardinality(U) <= MaxPoints,
           \A s \in Series : Times(s) # {} => s \in U,
           \A i \in 1 .. Len(list) : list[i].series \in U,
           \A s \in Series : KnownOf(memory, s, fed[s], Times(s), room)
    PROVE  \A s \in Series : KnownOf(Gathered(list)[Len(list)], s, SumTo(list, s, Len(list)),
                                     TimesTo(list, s, Len(list)), room)
<1> DEFINE n == Len(list)
           after(i) == Gathered(list)[i]
           known(i) == \A s \in Series :
                         KnownOf(after(i), s, SumTo(list, s, i), TimesTo(list, s, i), room)
           S == {i \in 0 .. n : known(i)}
<1>1. n \in Nat /\ \A i \in 1 .. n : list[i] \in Charted
  BY RecordsAre
<1>2. /\ after(0) = memory
      /\ \A i \in 1 .. n : after(i) = Gather(after(i - 1), list[i])
      /\ \A i \in 0 .. n : after(i) \in Seq(Charted)
  BY GatheredIs DEF Held
<1>3. 0 \in S
  <2>1. 0 \in 0 .. n
    BY <1>1
  <2>2. known(0)
    <3> SUFFICES ASSUME NEW s \in Series
                 PROVE  KnownOf(after(0), s, SumTo(list, s, 0), TimesTo(list, s, 0), room)
      OBVIOUS
    <3>1. SumTo(list, s, 0) = fed[s] /\ TimesTo(list, s, 0) = Times(s)
      BY <2>1, ToNext
    <3> QED  BY <1>2, <3>1
  <2> HIDE DEF known
  <2> QED  BY <2>1, <2>2
<1>4. ASSUME NEW i \in 0 .. n - 1, i \in S PROVE i + 1 \in S
  <2> DEFINE r == list[i + 1]
             before == after(i)
             sum == [s \in Series |-> SumTo(list, s, i)]
             times == [s \in Series |-> TimesTo(list, s, i)]
  <2>1. i \in 0 .. n /\ i + 1 \in 1 .. n /\ i + 1 \in 0 .. n /\ (i + 1) - 1 = i /\ i < n
    BY <1>1
  <2>2. r \in Charted /\ r.n = 1 /\ r.series \in U /\ before \in Seq(Charted)
    BY <1>1, <1>2, <2>1
  <2>3. after(i + 1) = Gather(before, r)
    BY <1>2, <2>1
  <2>4. Len(Append(before, r)) >= 2 * MaxPoints => Regular(Append(before, r))
    BY <2>1 DEF Disturbs
  <2>5. known(i)
    BY <1>4
  <2>6. \A s \in Series : KnownOf(before, s, sum[s], times[s], room)
    BY <2>5
  <2>7. ASSUME NEW s \in Series, times[s] # {} PROVE s \in U
    <3>1. PICK t : t \in TimesTo(list, s, i)
      BY <2>7
    <3>2. CASE t \in Times(s)
      BY <3>2
    <3>3. CASE t \notin Times(s)
      <4>1. PICK h \in 1 .. i : list[h].series = s
        BY <3>1, <3>3 DEF TimesTo
      <4>2. h \in 1 .. n
        BY <1>1, <2>1
      <4> QED  BY <4>1, <4>2
    <3> QED  BY <3>2, <3>3
  <2>8. \A s \in Series : times[s] # {} => s \in U
    BY <2>7
  <2> HIDE DEF before, r, sum, times, known, after
  <2>9. SeriesIn(Append(before, r)) \subseteq U
    <3>1. KnownAmong(before, sum, times, room, U)
      BY <2>6, <2>8 DEF KnownAmong
    <3> QED  BY <2>2, <3>1, SeriesAmong
  <2>10. room => 2 * Cardinality(SeriesIn(Append(before, r))) <= MaxPoints
    <3> DEFINE A == SeriesIn(Append(before, r))
    <3>1. A \subseteq U
      BY <2>9
    <3> HIDE DEF A
    <3>2. IsFiniteSet(A) /\ Cardinality(A) <= Cardinality(U)
      BY <3>1, FS_Subset
    <3>3. Cardinality(A) \in Nat /\ Cardinality(U) \in Nat
      BY <3>2, FS_CardinalityType
    <3>4. ASSUME room PROVE 2 * Cardinality(A) <= MaxPoints
      BY <3>2, <3>3, <3>4, MaxPointsIs
    <3> QED  BY <3>4 DEF A
  <2>11. query.since \in Int
    BY Bounds
  <2>12. ASSUME NEW s \in Series
         PROVE  KnownOf(after(i + 1), s, SumTo(list, s, i + 1), TimesTo(list, s, i + 1), room)
    <3> DEFINE x == SumTo(list, s, i)
               T == TimesTo(list, s, i)
    <3>1. /\ x \in Nat /\ T \subseteq Int
          /\ SumTo(list, s, i + 1) = IF r.series = s THEN x + 1 ELSE x
          /\ TimesTo(list, s, i + 1) = IF r.series = s THEN T \cup {r.at} ELSE T
      BY <2>1, ToNext DEF r
    <3>2. KnownOf(before, s, x, T, room)
      BY <2>6 DEF sum, times
    <3> HIDE DEF x, T
    <3>3. IF r.series = s THEN KnownOf(Gather(before, r), s, x + 1, T \cup {r.at}, room)
          ELSE KnownOf(Gather(before, r), s, x, T, room)
      BY <2>2, <2>4, <2>10, <2>11, <3>1, <3>2, GatherKnown
    <3> QED  BY <2>3, <3>1, <3>3
  <2>13. known(i + 1)
    BY <2>12 DEF known
  <2> QED  BY <2>1, <2>13
<1>5. n \in S
  <2>1. \A i \in 0 .. n : i \in S
    <3> HIDE DEF S, n
    <3> QED  BY <1>1, <1>3, <1>4, Climb
  <2>2. n \in 0 .. n
    BY <1>1
  <2> QED  BY <2>1, <2>2
<1>6. known(n)
  BY <1>5
<1> QED  BY <1>6

\* Whether there are two points for each series streamed.
Room == 2 * Cardinality(Streamed) <= MaxPoints

\* Unless rows were aggregated that are not Regular, the memory is known of every series.
Told ==
    /\ IsFiniteSet(Delivered)
    /\ ~disturbed => \A s \in Series : KnownOf(memory, s, fed[s], Times(s), Room)

\* The times and series that were streamed are those of the delivered rows.
LEMMA DeliveredAre ==
    ASSUME Typed
    PROVE  /\ \A s : Times(s) = {r.at : r \in {q \in Delivered : q.series = s}}
           /\ Streamed = {r.series : r \in Delivered}
           /\ \A s \in Series : Times(s) \subseteq Int /\ (Times(s) # {} => s \in Streamed)
           /\ IsFiniteSet(Delivered) => IsFiniteSet(Streamed)
           /\ IsFiniteSet(Delivered) => \A s : IsFiniteSet(Times(s))
<1>1. /\ \A s : Times(s) = {r.at : r \in {q \in Delivered : q.series = s}}
      /\ Streamed = {r.series : r \in Delivered}
  BY DEF Times, Streamed, Delivered
<1>2. \A s \in Series : Times(s) \subseteq Int /\ (Times(s) # {} => s \in Streamed)
  BY <1>1 DEF Typed, Delivered, Row
<1>3. ASSUME IsFiniteSet(Delivered) PROVE IsFiniteSet(Streamed)
  <2> DEFINE f == [r \in Delivered |-> r.series]
  <2>1. f \in Surjection(Delivered, Streamed)
    BY <1>1 DEF Surjection
  <2> HIDE DEF f
  <2> QED  BY <1>3, <2>1, FS_Surjection
<1>4. ASSUME IsFiniteSet(Delivered), NEW s PROVE IsFiniteSet(Times(s))
  <2> DEFINE D == {q \in Delivered : q.series = s}
             f == [r \in D |-> r.at]
  <2>1. IsFiniteSet(D)
    BY <1>4, FS_Subset
  <2>2. f \in Surjection(D, Times(s))
    BY <1>1 DEF Surjection
  <2> HIDE DEF f, D
  <2> QED  BY <2>1, <2>2, FS_Surjection
<1> QED  BY <1>1, <1>2, <1>3, <1>4

\* A page is what its rows were, one after the other.
LEMMA PageIsGathered ==
    ASSUME Typed, Held, NEW P \in SUBSET Eligible, DReadPage(P), NEW s \in Series
    PROVE  /\ fed'[s] = SumTo(Fetched(P), s, Cardinality(P))
           /\ Times(s)' = TimesTo(Fetched(P), s, Cardinality(P))
<1> DEFINE list == Fetched(P)
           order == InOrder(P)
           n == Cardinality(P)
           H == {h \in 1 .. n : list[h].series = s}
           Q == {p \in P : p.series = s}
<1>1. /\ IsFiniteSet(P) /\ n \in Nat
      /\ order \in [1 .. n -> P]
      /\ \A p \in P : \E i \in 1 .. n : order[i] = p
      /\ \A i, j \in 1 .. n : order[i] = order[j] => i = j
      /\ \A i \in 1 .. n : list[i] = Received(order[i])
  BY FetchedIs
<1> HIDE DEF list, order, n
<1>2. \A i \in 1 .. n : order[i] \in P /\ list[i].series = order[i].series
          /\ list[i].at = order[i].at
  <2> TAKE i \in 1 .. n
  <2>1. order[i] \in P /\ list[i] = Received(order[i])
    BY <1>1
  <2> QED  BY <2>1 DEF Received
<1>3. Cardinality(Q) = Cardinality(H)
  <2> DEFINE f == [h \in H |-> order[h]]
  <2>1. f \in [H -> Q]
    BY <1>2
  <2>2. \A q \in Q : \E h \in H : f[h] = q
    <3> TAKE q \in Q
    <3>1. PICK h \in 1 .. n : order[h] = q
      BY <1>1
    <3>2. h \in H
      BY <1>2, <3>1
    <3> QED  BY <3>1, <3>2
  <2>3. \A h, g \in H : f[h] = f[g] => h = g
    BY <1>1
  <2>4. IsFiniteSet(H)
    <3>1. IsFiniteSet(1 .. n)
      BY <1>1, FS_Interval
    <3> QED  BY <3>1, FS_Subset
  <2> HIDE DEF f, H, Q
  <2>5. f \in Bijection(H, Q)
    BY <2>1, <2>2, <2>3 DEF Bijection, Injection, Surjection, IsInjective
  <2>6. ExistsBijection(H, Q)
    BY <2>5 DEF ExistsBijection
  <2> QED  BY <2>4, <2>6, FS_Bijection
<1>4. fed'[s] = fed[s] + Cardinality(Q)
  BY DEF DReadPage
<1>5. SumTo(list, s, n) = fed[s] + Cardinality(H)
  BY DEF SumTo
<1>6. fed'[s] = SumTo(list, s, n)
  BY <1>3, <1>4, <1>5
<1>7. Times(s)' = TimesTo(list, s, n)
  <2>1. Delivered' = Delivered \cup P
    BY PageRead DEF DReadPage
  <2>2. Times(s)' = {r.at : r \in {q \in Delivered' : q.series = s}}
    BY DEF Times, Delivered
  <2>3. Times(s) = {r.at : r \in {q \in Delivered : q.series = s}}
    BY DeliveredAre
  <2>4. Times(s)' = Times(s) \cup {r.at : r \in Q}
    BY <2>1, <2>2, <2>3
  <2>5. {r.at : r \in Q} = {list[h].at : h \in H}
    <3>1. ASSUME NEW r \in Q PROVE \E h \in H : list[h].at = r.at
      <4>1. PICK h \in 1 .. n : order[h] = r
        BY <1>1
      <4>2. h \in H /\ list[h].at = r.at
        BY <1>2, <4>1
      <4> QED  BY <4>2
    <3>2. ASSUME NEW h \in H PROVE \E r \in Q : list[h].at = r.at
      BY <1>2
    <3> HIDE DEF Q, H
    <3> QED  BY <3>1, <3>2
  <2>6. TimesTo(list, s, n) = Times(s) \cup {list[h].at : h \in H}
    BY DEF TimesTo
  <2> QED  BY <2>4, <2>5, <2>6
<1> QED  BY <1>6, <1>7 DEF list, n

\* A page that is read and gathered keeps what the memory knows.
LEMMA ToldPage ==
    ASSUME Typed, Held, Told, NEW P \in SUBSET Eligible, DReadPage(P)
    PROVE  Told'
<1> DEFINE list == Fetched(P)
           order == InOrder(P)
           n == Cardinality(P)
           U == Streamed'
           room == Room'
<1>1. /\ IsFiniteSet(P) /\ n \in Nat /\ P \subseteq Row
      /\ list \in Seq(Charted) /\ Len(list) = n
      /\ \A i \in 1 .. n : order[i] \in P /\ list[i] = Received(order[i])
  BY FetchedIs
<1>2. Delivered' = Delivered \cup P
  BY PageRead DEF DReadPage
<1>3. IsFiniteSet(Delivered')
  BY <1>1, <1>2, FS_Union DEF Told
<1>4. Streamed = {r.series : r \in Delivered} /\ U = {r.series : r \in Delivered'}
  BY DEF Streamed, Delivered
<1>5. /\ Streamed \subseteq U
      /\ \A i \in 1 .. n : list[i].series \in U /\ list[i].n = 1
      /\ \A s \in Series : Times(s) # {} => s \in U
  <2>1. Streamed \subseteq U
    BY <1>2, <1>4
  <2>2. \A s \in Series : Times(s) # {} => s \in Streamed
    BY DeliveredAre
  <2>3. \A p \in P : p.series \in U
    BY <1>2, <1>4
  <2>4. \A i \in 1 .. n : list[i].series \in U /\ list[i].n = 1
    BY <1>1, <2>3 DEF Received
  <2> QED  BY <2>1, <2>2, <2>4
<1>6. IsFiniteSet(U)
  <2> DEFINE D == Delivered'
             f == [r \in D |-> r.series]
  <2>1. f \in Surjection(D, U)
    BY <1>4 DEF Surjection
  <2>2. IsFiniteSet(D)
    BY <1>3
  <2> HIDE DEF f, D, U
  <2> QED  BY <2>1, <2>2, FS_Surjection
<1>7. room = (2 * Cardinality(U) <= MaxPoints) /\ room \in BOOLEAN
  BY DEF Room
<1>8. room => Room
  <2>1. IsFiniteSet(Streamed) /\ Cardinality(Streamed) <= Cardinality(U)
    <3> HIDE DEF U
    <3> QED  BY <1>5, <1>6, FS_Subset
  <2>2. Cardinality(Streamed) \in Nat /\ Cardinality(U) \in Nat /\ MaxPoints \in Nat
    BY <1>6, <2>1, FS_CardinalityType, MaxPointsIs
  <2>3. ASSUME 2 * Cardinality(U) <= MaxPoints PROVE 2 * Cardinality(Streamed) <= MaxPoints
    <3> HIDE DEF U
    <3> QED  BY <2>1, <2>2, <2>3
  <2> QED  BY <1>7, <2>3 DEF Room
<1>9. ASSUME ~disturbed', NEW s \in Series
      PROVE  KnownOf(memory', s, fed'[s], Times(s)', room)
  <2>1. ~disturbed /\ ~Disturbs(list)
    BY <1>9 DEF DReadPage
  <2>2. \A x \in Series : KnownOf(memory, x, fed[x], Times(x), room)
    BY <1>8, <2>1 DEF Told, KnownOf
  <2>3. memory' = Gathered(list)[n]
    BY DEF DReadPage
  <2>4. fed'[s] = SumTo(list, s, n) /\ Times(s)' = TimesTo(list, s, n)
    BY PageIsGathered
  <2> HIDE DEF list, n, U, room
  <2>5. room => 2 * Cardinality(U) <= MaxPoints
    BY <1>7
  <2>6. \A i \in 1 .. Len(list) : list[i].n = 1 /\ list[i].series \in U
    BY <1>1, <1>5
  <2>7. \A x \in Series : KnownOf(Gathered(list)[Len(list)], x, SumTo(list, x, Len(list)),
                                  TimesTo(list, x, Len(list)), room)
    BY <1>1, <1>5, <1>6, <1>7, <2>1, <2>2, <2>5, <2>6, GatheredKnown
  <2> QED  BY <1>1, <2>3, <2>4, <2>7
<1> QED  BY <1>3, <1>9 DEF Told, KnownOf

\* The last aggregation.
LEMMA ToldAnswer ==
    ASSUME Typed, Held, Told, Answer
    PROVE  Told'
<1>1. UNCHANGED <<got, page, fed>> /\ memory' = AggregateRows(memory, query.since)
  BY DEF Answer, wvars, streamVars
<1>2. Delivered' = Delivered /\ Streamed' = Streamed /\ Room' = Room /\ \A s : Times(s)' = Times(s)
  BY <1>1 DEF Delivered, Streamed, Room, Times
<1>3. ASSUME ~disturbed', NEW s \in Series
      PROVE  KnownOf(memory', s, fed[s], Times(s), Room)
  <2>1. ~disturbed /\ (Len(memory) > MaxPoints => RegularAt(memory, query.since))
    BY <1>3 DEF Answer, Regular, RegularAt
  <2>2. \A x \in Series : KnownOf(memory, x, fed[x], Times(x), Room)
    BY <2>1 DEF Told
  <2>3. \A x \in Series : Times(x) \subseteq Int /\ (Times(x) # {} => x \in Streamed)
    BY DeliveredAre
  <2>4. IsFiniteSet(Streamed)
    BY DeliveredAre DEF Told
  <2>5. SeriesIn(memory) \subseteq Streamed
    <3> SUFFICES ASSUME NEW i \in DOMAIN memory PROVE memory[i].series \in Streamed
      BY DEF SeriesIn
    <3>1. memory[i].series \in Series
      BY RecordsAre DEF Held
    <3>2. i \in Positions(memory[i].series, memory)
      BY DEF Positions
    <3>3. Times(memory[i].series) # {}
      BY <2>2, <3>1, <3>2 DEF KnownOf
    <3> QED  BY <2>3, <3>1, <3>3
  <2>6. Room => 2 * Cardinality(SeriesIn(memory)) <= MaxPoints
    <3> DEFINE A == SeriesIn(memory)
    <3>1. A \subseteq Streamed
      BY <2>5
    <3> HIDE DEF A
    <3>2. IsFiniteSet(A) /\ Cardinality(A) <= Cardinality(Streamed)
      BY <2>4, <3>1, FS_Subset
    <3>3. Cardinality(A) \in Nat /\ Cardinality(Streamed) \in Nat
      BY <2>4, <3>2, FS_CardinalityType
    <3>4. ASSUME 2 * Cardinality(Streamed) <= MaxPoints PROVE 2 * Cardinality(A) <= MaxPoints
      BY <3>2, <3>3, <3>4, MaxPointsIs
    <3> QED  BY <3>4 DEF A, Room
  <2>7. query.since \in Int /\ memory \in Seq(Charted) /\ fed[s] \in Nat /\ Room \in BOOLEAN
    BY Bounds DEF Held, Room
  <2>8. Times(s) \subseteq Int /\ KnownOf(memory, s, fed[s], Times(s), Room)
    BY <2>2, <2>3
  <2> QED  BY <1>1, <2>1, <2>6, <2>7, <2>8, AggregatedKnown
<1> QED  BY <1>1, <1>2, <1>3 DEF Told

\* Every step keeps what the memory knows.
LEMMA ToldStep == Typed /\ Held /\ Told /\ [DNext]_dvars => Told'
<1> SUFFICES ASSUME Typed, Held, Told, [DNext]_dvars PROVE Told'
  OBVIOUS
<1>1. CASE UNCHANGED <<got, page>> /\ UNCHANGED chartVars
  <2>1. Delivered' = Delivered /\ Streamed' = Streamed /\ Room' = Room
            /\ \A s : Times(s)' = Times(s)
    BY <1>1 DEF Delivered, Streamed, Room, Times
  <2> QED  BY <1>1, <2>1 DEF Told, chartVars
<1>2. CASE DAsk
  <2>1. UNCHANGED <<got, page>> /\ UNCHANGED chartVars
    BY <1>2, AskFields DEF DAsk, SomeAsk
  <2> QED  BY <1>1, <2>1
<1>3. CASE DChange
  <2>1. UNCHANGED <<got, page>> /\ UNCHANGED chartVars
    BY <1>3, TypedChange DEF DChange, streamVars
  <2> QED  BY <1>1, <2>1
<1>4. CASE Answer
  BY <1>4, ToldAnswer
<1>5. ASSUME NEW P \in SUBSET Eligible, DReadPage(P) PROVE Told'
  BY <1>5, ToldPage
<1>6. CASE UNCHANGED dvars
  <2>1. UNCHANGED <<got, page>> /\ UNCHANGED chartVars
    BY <1>6 DEF dvars, wvars, streamVars
  <2> QED  BY <1>1, <2>1
<1> QED  BY <1>2, <1>3, <1>4, <1>5, <1>6 DEF DNext

\* Nothing was streamed before a dashboard asks.
LEMMA ToldInit == DInit => Told
<1> SUFFICES ASSUME DInit PROVE Told
  OBVIOUS
<1>1. /\ memory = <<>> /\ Delivered = {} /\ \A s \in Series : fed[s] = 0 /\ Times(s) = {}
  BY DEF DInit, WInit, Delivered, Times
<1>2. \A s : Positions(s, <<>>) = {}
  BY DEF Positions
<1>3. ProbesAt({}, <<>>) = 0
  <2>1. UNION {{i} \X (1 .. [x \in {} |-> <<>>[x].n][i])
            : i \in DOMAIN [x \in {} |-> <<>>[x].n]} = {}
    OBVIOUS
  <2>2. ProbesAt({}, <<>>) = Cardinality({})
    BY <2>1 DEF ProbesAt, Tally
  <2> QED  BY <2>2, FS_EmptySet
<1>4. IsFiniteSet(Delivered)
  BY <1>1, FS_EmptySet
<1>5. \A s \in Series : KnownOf(memory, s, fed[s], Times(s), Room)
  <2> TAKE s \in Series
  <2>1. KnownOf(<<>>, s, 0, {}, Room)
    BY <1>2, <1>3 DEF KnownOf
  <2> QED  BY <1>1, <2>1
<1> QED  BY <1>4, <1>5 DEF Told

LEMMA ToldAlways == DSpec => [](Typed /\ Held /\ Told)
<1>1. DSpec => [](Typed /\ Held)
  BY HeldAlways
<1> QED  BY <1>1, ToldInit, ToldStep, PTL DEF DSpec

\* Aggregating again and again loses no probe of a series and counts none twice, at every
\* moment.
THEOREM ConservedAlways == DSpec => []Conserved
<1>1. Told => Conserved
  BY DEF Told, Conserved, KnownOf, ProbesAt
<1> QED  BY <1>1, ToldAlways, PTL

\* A finite set has no member, one, or two that differ.
LEMMA Counts ==
    ASSUME NEW S, IsFiniteSet(S)
    PROVE  /\ Cardinality(S) \in Nat
           /\ Cardinality(S) = 0 <=> S = {}
           /\ Cardinality(S) >= 2 <=> \E x, y \in S : x # y
<1>1. Cardinality(S) \in Nat /\ (Cardinality(S) = 0 <=> S = {})
  BY FS_CardinalityType, FS_EmptySet
<1>2. ASSUME NEW x \in S, NEW y \in S, x # y PROVE Cardinality(S) >= 2
  <2>1. IsFiniteSet(S \ {x}) /\ Cardinality(S \ {x}) = Cardinality(S) - 1
    BY FS_RemoveElement
  <2> DEFINE R == S \ {x}
  <2>2. y \in R /\ R # {}
    BY <1>2
  <2> HIDE DEF R
  <2>3. IsFiniteSet(R) /\ Cardinality(R) = Cardinality(S) - 1
    BY <2>1 DEF R
  <2>4. Cardinality(R) \in Nat /\ Cardinality(R) # 0
    BY <2>2, <2>3, FS_CardinalityType, FS_EmptySet
  <2> QED  BY <1>1, <2>3, <2>4
<1>3. ASSUME ~\E x, y \in S : x # y PROVE ~(Cardinality(S) >= 2)
  <2>1. CASE S = {}
    BY <1>1, <2>1
  <2>2. CASE S # {}
    <3>1. PICK x : S = {x}
      BY <1>3, <2>2
    <3>2. Cardinality(S) = 1
      BY <3>1, FS_Singleton
    <3> QED  BY <3>2
  <2> QED  BY <2>1, <2>2
<1> QED  BY <1>1, <1>2, <1>3

\* Every series delivered keeps a point and, if there is room for two of each, points at
\* two instants if it has rows at two.
THEOREM EverySeriesDrawnAlways == DSpec => []EverySeriesDrawn
<1>1. ASSUME Typed, Held, Told PROVE EverySeriesDrawn
  <2> SUFFICES ASSUME ~disturbed, NEW s \in Series
               PROVE  Cardinality({memory[i].at : i \in Positions(s, memory)}) >=
                        Lesser(Cardinality(Times(s)),
                               IF 2 * Cardinality(Streamed) <= MaxPoints THEN 2 ELSE 1)
    BY DEF EverySeriesDrawn
  <2> DEFINE P == Positions(s, memory)
             D == {memory[i].at : i \in P}
             T == Times(s)
  <2>1. KnownOf(memory, s, fed[s], T, Room)
    BY <1>1 DEF Told
  <2>2. IsFiniteSet(T)
    BY <1>1, DeliveredAre DEF Told
  <2>3. IsFiniteSet(D)
    <3> DEFINE f == [i \in P |-> memory[i].at]
    <3>1. IsFiniteSet(P)
      BY <1>1, PositionsAre DEF Held
    <3>2. f \in Surjection(P, D)
      BY DEF Surjection
    <3> HIDE DEF f, P, D
    <3> QED  BY <3>1, <3>2, FS_Surjection
  <2>4. T # {} => D # {}
    BY <2>1 DEF KnownOf
  <2>5. Room /\ (\E t, u \in T : t # u) => \E t, u \in D : t # u
    BY <2>1 DEF KnownOf, TwoInstants
  <2> HIDE DEF P, D, T
  <2>6. /\ Cardinality(T) \in Nat /\ Cardinality(D) \in Nat
        /\ Cardinality(T) # 0 => Cardinality(D) # 0
        /\ Room /\ Cardinality(T) >= 2 => Cardinality(D) >= 2
    BY <2>2, <2>3, <2>4, <2>5, Counts
  <2>7. Cardinality(D) >= Lesser(Cardinality(T), IF Room THEN 2 ELSE 1)
    <3>1. CASE Room
      BY <2>6, <3>1 DEF Lesser
    <3>2. CASE ~Room
      BY <2>6, <3>2 DEF Lesser
    <3> QED  BY <3>1, <3>2
  <2> QED  BY <2>7 DEF Room, D, T, P
<1> QED  BY <1>1, ToldAlways, PTL
=============================================================================
