---------------------------- MODULE Startup_proofs ----------------------------
(***************************************************************************)
(* Proofs about the migration and the start of the supervisor, for any     *)
(* database found, any number of crashes, and the tool run at any time.    *)
(*                                                                         *)
(* The statements a transaction has left say what it has done: left[t] is  *)
(* the number of those for table t, and Stage what t looks like then.      *)
(***************************************************************************)
EXTENDS Startup, SequenceTheorems, TLAPS

Kinds == {"add_ip", "fill", "create", "copy", "drop", "rename", "agents"}
Statements == Kinds \X Tables
Places == {"off", "agents", "results", "rollups", "checked", "tx", "create", "serving", "done"}

Process == [at : Places, stale : SUBSET Tables, agents : BOOLEAN, todo : Seq(Statements)]

\* Every variable of the migration has its type.
MTypeOK ==
    /\ db \in Database
    /\ work \subseteq Database
    /\ holder \in Processes \cup {"none"}
    /\ proc \in [Processes -> Process]
    /\ expected \in [Tables -> SUBSET Rows]
    /\ faults \in Nat /\ saves \in Nat

\* The write lock belongs to the one process in a transaction.
Locked ==
    /\ \A p \in Processes : At(p, "tx") <=> holder = p
    /\ holder = "none" => work = {}

\* A table in the present schema, or none yet: the migration does not touch it again.
Settled(t) == db.table[t].form \in {"none", "new"}

\* MeasurementsKept, and nothing half built.
Kept ==
    /\ MeasurementsKept
    /\ \A t \in Tables :
          /\ db.fresh[t] = Absent
          /\ db.table[t].form = "none" => db.table[t].rows = {}

\* What an inspection (r is the state of its process) has found is still so, if it was
\* not stale.
InspectedOf(r) ==
    /\ r.at \in {"rollups", "checked"} /\ "results" \notin r.stale => Settled("results")
    /\ r.at = "checked" /\ "rollups" \notin r.stale => Settled("rollups")
    /\ r.at \in {"results", "rollups", "checked"} /\ r.agents => db.agents

\* The last n statements of a rebuild.
Order == [n \in 1 .. 5 |-> CASE n = 5 -> "fill" [] n = 4 -> "create" [] n = 3 -> "copy"
                             [] n = 2 -> "drop" [] n = 1 -> "rename"]
Rest(t, n) == [j \in 1 .. n |-> <<Order[n + 1 - j], t>>]

\* The statements left: those of each table, and whether agent_statuses is done.
AddIPFirst(add) == IF add THEN <<<<"add_ip", "results">>>> ELSE <<>>

Todo(add, left, agents) ==
    AddIPFirst(add) \o Rest("results", left["results"]) \o Rest("rollups", left["rollups"])
    \o AddStatuses(agents)

\* The rows and the form a table had at Begin; adding agent_ip is the only change.
Untouched(w, t) ==
    /\ w.fresh[t] = Absent
    /\ w.table[t].rows = db.table[t].rows
    /\ \/ w.table[t].form = db.table[t].form
       \/ w.table[t].form = "old" /\ db.table[t].form = "noip"

\* Built anew from all rows, each with its series.
Built(w, table, t) ==
    /\ table.form = "new"
    /\ Normalised(table.rows) = expected[t]
    /\ \A r \in table.rows : r.key \in w.series

Filled(w, t) ==
    /\ w.table[t].form = "old"
    /\ w.table[t].rows = db.table[t].rows
    /\ \A r \in w.table[t].rows : Normal(r.key) \in w.series

Stage(w, t, n) ==
    /\ n = 5 => Untouched(w, t)
    /\ n \in 1 .. 4 => ~Settled(t)
    /\ n = 4 => Filled(w, t) /\ w.fresh[t] = Absent
    /\ n = 3 => Filled(w, t) /\ w.fresh[t] = Created
    /\ n = 2 => Built(w, w.fresh[t], t)
    /\ n = 1 => Built(w, w.fresh[t], t) /\ w.table[t] = Absent
    /\ n = 0 => /\ w.fresh[t] = Absent
                /\ IF Settled(t) THEN w.table[t] = db.table[t] ELSE Built(w, w.table[t], t)

\* What the transaction sees, at every statement.
InWork(w, left, agents) ==
    /\ db.series \subseteq w.series
    /\ (agents \/ db.agents) => w.agents
    /\ \A t \in Tables : Stage(w, t, left[t])

WorkingOf(r) ==
    r.at = "tx" =>
        \E add \in BOOLEAN, left \in [Tables -> 0 .. 5], agents \in BOOLEAN :
            /\ r.todo = Todo(add, left, agents)
            /\ add => left["results"] = 5
            /\ \A w \in work : InWork(w, left, agents)

\* The supervisor creates what it did not find, in this order.
Creation(k) ==
    CASE k = 0 -> <<<<"create", "results">>, <<"create", "rollups">>, <<"agents", "results">>>>
      [] k = 1 -> <<<<"create", "rollups">>, <<"agents", "results">>>>
      [] k = 2 -> <<<<"agents", "results">>>>
      [] k = 3 -> <<>>

Initialised(k) ==
    /\ \A t \in Tables : Settled(t)
    /\ k >= 1 => db.table["results"].form = "new"
    /\ k >= 2 => db.table["rollups"].form = "new"
    /\ k = 3 => db.agents

StartingOf(p, r) ==
    /\ r.at = "create" => p = "server" /\ \E k \in 0 .. 3 : r.todo = Creation(k) /\ Initialised(k)
    /\ r.at = "serving" => p = "server" /\ Initialised(3)

\* What is so of each process.
Sound(p) == InspectedOf(proc[p]) /\ WorkingOf(proc[p]) /\ StartingOf(p, proc[p])

\* The inductive invariant.
MInv == Locked /\ Kept /\ \A p \in Processes : Sound(p)
----------------------------------------------------------------------------
(* Rows and series. *)

LEMMA NormalKeys ==
    ASSUME NEW key \in Keys
    PROVE  /\ Normal(key) \in Keys /\ Normal(Normal(key)) = Normal(key)
           /\ key.ip # "null" => Normal(key) = key
<1>1. CASE key.ip # "null"
  BY <1>1 DEF Normal
<1>2. CASE key.ip = "null"
  <2>1. Normal(key) = [key EXCEPT !.ip = "empty"]
    BY <1>2 DEF Normal
  <2>2. Normal(key).ip = "empty"
    BY <2>1 DEF Keys
  <2>3. Normal(key) \in Keys
    BY <2>1 DEF Keys
  <2> QED  BY <1>2, <2>2, <2>3 DEF Normal
<1> QED  BY <1>1, <1>2

LEMMA NormalisedRows ==
    ASSUME NEW rows \in SUBSET Rows
    PROVE  /\ Normalised(rows) \in SUBSET Rows
           /\ Normalised(rows) = {[id |-> r.id, key |-> Normal(r.key)] : r \in rows}
           /\ Normalised(Normalised(rows)) = Normalised(rows)
<1>1. ASSUME NEW r \in Rows
      PROVE  /\ r.key \in Keys /\ r.id \in Nat
             /\ [r EXCEPT !.key = Normal(@)] = [id |-> r.id, key |-> Normal(r.key)]
             /\ [r EXCEPT !.key = Normal(@)] \in Rows
  <2>1. r.key \in Keys /\ r.id \in Nat
    BY DEF Rows
  <2>2. [r EXCEPT !.key = Normal(r.key)] = [id |-> r.id, key |-> Normal(r.key)]
    BY DEF Rows
  <2> QED  BY <2>1, <2>2, NormalKeys DEF Rows
<1>2. Normalised(rows) \in SUBSET Rows
  BY <1>1 DEF Normalised
<1>3. Normalised(rows) = {[id |-> r.id, key |-> Normal(r.key)] : r \in rows}
  BY <1>1 DEF Normalised
<1>4. \A r \in Normalised(rows) : [r EXCEPT !.key = Normal(@)] = r
  <2> SUFFICES ASSUME NEW r \in rows
               PROVE  LET s == [id |-> r.id, key |-> Normal(r.key)]
                      IN  [s EXCEPT !.key = Normal(@)] = s
    BY <1>3
  <2> QED  BY <1>1, NormalKeys
<1>5. Normalised(Normalised(rows)) = Normalised(rows)
  BY <1>4 DEF Normalised
<1> QED  BY <1>2, <1>3, <1>5

\* Every row finds its series, and only that.
LEMMA JoinedRows ==
    ASSUME NEW rows \in SUBSET Rows, NEW series \in SUBSET Keys,
           \A r \in rows : Normal(r.key) \in series
    PROVE  /\ Joined(rows, series) = Normalised(rows)
           /\ \A r \in Joined(rows, series) : r.key \in series
<1>1. Joined(rows, series) = {[id |-> r.id, key |-> Normal(r.key)] : r \in rows}
  <2> DEFINE Pairs == {y \in rows \X series : y[2] = Normal(y[1].key)}
             All == {[id |-> r.id, key |-> Normal(r.key)] : r \in rows}
  <2>1. ASSUME NEW x \in Pairs PROVE [id |-> x[1].id, key |-> x[2]] \in All
    OBVIOUS
  <2>2. ASSUME NEW r \in rows
        PROVE  \E x \in Pairs : [id |-> x[1].id, key |-> x[2]] = [id |-> r.id, key |-> Normal(r.key)]
    <3>1. <<r, Normal(r.key)>> \in Pairs
      OBVIOUS
    <3> QED  BY <3>1
  <2>3. Joined(rows, series) = {[id |-> x[1].id, key |-> x[2]] : x \in Pairs}
    BY DEF Joined
  <2> HIDE DEF Pairs
  <2> QED  BY <2>1, <2>2, <2>3
<1> QED  BY <1>1, NormalisedRows

LEMMA NormalisedAdd ==
    ASSUME NEW rows \in SUBSET Rows, NEW row \in Rows, row.key.ip # "null"
    PROVE  Normalised(rows \cup {row}) = Normalised(rows) \cup {row}
<1>1. [row EXCEPT !.key = Normal(@)] = row
  BY NormalKeys DEF Rows
<1> QED  BY <1>1 DEF Normalised
----------------------------------------------------------------------------
(* The statements left. *)

LEMMA HeadConcat ==
    ASSUME NEW S, NEW s \in Seq(S), NEW t \in Seq(S), s # <<>>
    PROVE  /\ s \o t \in Seq(S) /\ s \o t # <<>>
           /\ Head(s \o t) = Head(s)
           /\ Tail(s \o t) = Tail(s) \o t
<1>1. Len(s) \in Nat \ {0} /\ Len(t) \in Nat
  OBVIOUS
<1>2. /\ s \o t \in Seq(S) /\ Len(s \o t) = Len(s) + Len(t)
      /\ \A i \in 1 .. Len(s) + Len(t) : (s \o t)[i] = IF i <= Len(s) THEN s[i] ELSE t[i - Len(s)]
  BY ConcatProperties
<1>3. s \o t # <<>>
  BY <1>1, <1>2
<1>4. /\ Tail(s) \in Seq(S) /\ Len(Tail(s)) = Len(s) - 1
      /\ \A i \in 1 .. Len(Tail(s)) : Tail(s)[i] = s[i + 1]
  BY HeadTailProperties
<1>5. /\ Tail(s \o t) \in Seq(S) /\ Len(Tail(s \o t)) = Len(s) + Len(t) - 1
      /\ \A i \in 1 .. Len(Tail(s \o t)) : Tail(s \o t)[i] = (s \o t)[i + 1]
  BY <1>2, <1>3, HeadTailProperties
<1>6. /\ Tail(s) \o t \in Seq(S) /\ Len(Tail(s) \o t) = Len(s) - 1 + Len(t)
      /\ \A i \in 1 .. Len(s) - 1 + Len(t) :
            (Tail(s) \o t)[i] = IF i <= Len(s) - 1 THEN Tail(s)[i] ELSE t[i - (Len(s) - 1)]
  BY <1>4, ConcatProperties
<1>7. Tail(s \o t) = Tail(s) \o t
  <2> DEFINE a == Tail(s \o t)
             b == Tail(s) \o t
  <2>1. a \in Seq(S) /\ b \in Seq(S) /\ Len(a) = Len(b)
    BY <1>1, <1>5, <1>6
  <2>2. ASSUME NEW i \in 1 .. Len(a) PROVE a[i] = b[i]
    <3>1. i \in 1 .. Len(s) + Len(t) - 1 /\ i \in Nat
      BY <1>1, <1>5
    <3>2. a[i] = IF i + 1 <= Len(s) THEN s[i + 1] ELSE t[i + 1 - Len(s)]
      BY <1>1, <1>2, <1>5, <3>1
    <3>3. b[i] = IF i <= Len(s) - 1 THEN s[i + 1] ELSE t[i - (Len(s) - 1)]
      BY <1>1, <1>4, <1>6, <3>1
    <3>4. (i + 1 <= Len(s) <=> i <= Len(s) - 1) /\ i + 1 - Len(s) = i - (Len(s) - 1)
      BY <1>1, <3>1
    <3> QED  BY <3>2, <3>3, <3>4
  <2> HIDE DEF a, b
  <2>3. a = b
    BY <2>1, <2>2, SeqEqual
  <2> QED  BY <2>3 DEF a, b
<1>8. Head(s \o t) = Head(s)
  <2>1. (s \o t)[1] = s[1]
    BY <1>1, <1>2
  <2> QED  BY <1>2, <1>3, <2>1
<1> QED  BY <1>2, <1>3, <1>7, <1>8

LEMMA RestSequence ==
    ASSUME NEW t \in Tables, NEW n \in 0 .. 5
    PROVE  /\ Rest(t, n) \in Seq(Statements) /\ Len(Rest(t, n)) = n
           /\ n = 0 => Rest(t, n) = <<>>
           /\ n > 0 => /\ Rest(t, n) # <<>>
                       /\ Head(Rest(t, n)) = <<Order[n], t>>
                       /\ Tail(Rest(t, n)) = Rest(t, n - 1)
<1>1. ASSUME NEW k \in 0 .. 5 PROVE Rest(t, k) \in Seq(Statements) /\ Len(Rest(t, k)) = k
  <2>1. \A j \in 1 .. k : <<Order[k + 1 - j], t>> \in Statements
    BY DEF Order, Statements, Kinds
  <2> QED  BY <2>1 DEF Rest
<1>2. n = 0 => Rest(t, n) = <<>>
  BY <1>1
<1>3. ASSUME n > 0
      PROVE  /\ Rest(t, n) # <<>> /\ Head(Rest(t, n)) = <<Order[n], t>>
             /\ Tail(Rest(t, n)) = Rest(t, n - 1)
  <2>1. Rest(t, n) # <<>>
    <3>1. Len(Rest(t, n)) = n
      BY <1>1
    <3>2. n # 0
      BY <1>3
    <3>3. Len(<<>>) = 0
      OBVIOUS
    <3> QED  BY <3>1, <3>2, <3>3
  <2>2. Head(Rest(t, n)) = <<Order[n], t>>
    <3>1. Rest(t, n)[1] = <<Order[n], t>>
      BY <1>3 DEF Rest
    <3> QED  BY <1>1, <2>1, <3>1
  <2>3. /\ Tail(Rest(t, n)) \in Seq(Statements) /\ Len(Tail(Rest(t, n))) = n - 1
        /\ \A j \in 1 .. n - 1 : Tail(Rest(t, n))[j] = Rest(t, n)[j + 1]
    BY <1>1, <2>1, HeadTailProperties
  <2>4. \A j \in 1 .. n - 1 : Rest(t, n)[j + 1] = Rest(t, n - 1)[j]
    BY <1>3 DEF Rest
  <2>5. Rest(t, n - 1) \in Seq(Statements) /\ Len(Rest(t, n - 1)) = n - 1
    <3>1. n - 1 \in 0 .. 5
      BY <1>3
    <3> QED  BY <1>1, <3>1
  <2>6. Tail(Rest(t, n)) = Rest(t, n - 1)
    BY <2>3, <2>4, <2>5, SeqEqual
  <2> QED  BY <2>1, <2>2, <2>6
<1> QED  BY <1>1, <1>2, <1>3

LEMMA Rebuilds ==
    ASSUME NEW t \in Tables
    PROVE  Rebuild(t) = Rest(t, 5)
<1>1. Rebuild(t) \in Seq(Statements) /\ Len(Rebuild(t)) = 5
  BY DEF Rebuild, Statements, Kinds
<1>2. \A j \in 1 .. 5 : Rebuild(t)[j] = <<Order[6 - j], t>>
  BY DEF Rebuild, Order
<1>3. \A j \in 1 .. 5 : Rest(t, 5)[j] = <<Order[6 - j], t>>
  BY DEF Rest
<1>4. Rest(t, 5) \in Seq(Statements) /\ Len(Rest(t, 5)) = 5
  BY RestSequence
<1> DEFINE a == Rebuild(t)
           b == Rest(t, 5)
<1>5. /\ a \in Seq(Statements) /\ b \in Seq(Statements) /\ Len(a) = Len(b)
      /\ \A j \in 1 .. Len(a) : a[j] = b[j]
  BY <1>1, <1>2, <1>3, <1>4
<1> HIDE DEF a, b
<1>6. a = b
  BY <1>5, SeqEqual
<1> QED  BY <1>6 DEF a, b

LEMMA Parts ==
    ASSUME NEW add \in BOOLEAN, NEW agents \in BOOLEAN
    PROVE  /\ AddIPFirst(add) \in Seq(Statements)
           /\ add => /\ AddIPFirst(add) # <<>> /\ Head(AddIPFirst(add)) = <<"add_ip", "results">>
                     /\ Tail(AddIPFirst(add)) = <<>>
           /\ ~add => AddIPFirst(add) = <<>>
           /\ AddStatuses(agents) \in Seq(Statements)
           /\ agents => AddStatuses(agents) = <<>>
           /\ ~agents => /\ AddStatuses(agents) # <<>>
                         /\ Head(AddStatuses(agents)) = <<"agents", "results">>
                         /\ Tail(AddStatuses(agents)) = <<>>
<1>1. <<"add_ip", "results">> \in Statements /\ <<"agents", "results">> \in Statements
  BY DEF Statements, Kinds, Tables
<1>2. ASSUME NEW x \in Statements
      PROVE  <<x>> \in Seq(Statements) /\ <<x>> # <<>> /\ Head(<<x>>) = x /\ Tail(<<x>>) = <<>>
  OBVIOUS
<1>3. <<>> \in Seq(Statements)
  OBVIOUS
<1> QED  BY <1>1, <1>2, <1>3 DEF AddIPFirst, AddStatuses

\* Its first statement: that of agent_ip, the next of one table, or that of agent_statuses.
First(add, left, agents) ==
    LET todo == Todo(add, left, agents) IN
    \/ /\ add
       /\ Head(todo) = <<"add_ip", "results">>
       /\ Tail(todo) = Todo(FALSE, left, agents)
    \/ /\ ~add
       /\ \E t \in Tables :
             /\ left[t] > 0
             /\ Head(todo) = <<Order[left[t]], t>>
             /\ Tail(todo) = Todo(FALSE, [left EXCEPT ![t] = left[t] - 1], agents)
    \/ /\ ~add /\ ~agents
       /\ Head(todo) = <<"agents", "results">>
       /\ Tail(todo) = Todo(FALSE, left, TRUE)

LEMMA TodoFirst ==
    ASSUME NEW add \in BOOLEAN, NEW left \in [Tables -> 0 .. 5], NEW agents \in BOOLEAN
    PROVE  /\ Todo(add, left, agents) \in Seq(Statements)
           /\ IF Todo(add, left, agents) = <<>>
              THEN ~add /\ agents /\ \A t \in Tables : left[t] = 0
              ELSE First(add, left, agents)
<1> DEFINE i == AddIPFirst(add)
           n == left["results"]
           m == left["rollups"]
           a == Rest("results", n)
           b == Rest("rollups", m)
           c == AddStatuses(agents)
           todo == Todo(add, left, agents)
<1>1. n \in 0 .. 5 /\ m \in 0 .. 5 /\ "results" \in Tables /\ "rollups" \in Tables
  BY DEF Tables
<1>2. i \in Seq(Statements) /\ a \in Seq(Statements) /\ b \in Seq(Statements) /\ c \in Seq(Statements)
  BY <1>1, Parts, RestSequence
<1>3. todo = ((i \o a) \o b) \o c
  BY DEF Todo
<1> HIDE DEF i, a, b, c, todo
<1>4. i \o a \in Seq(Statements) /\ (i \o a) \o b \in Seq(Statements) /\ todo \in Seq(Statements)
  <2>1. i \o a \in Seq(Statements)
    BY <1>2, ConcatProperties
  <2>2. (i \o a) \o b \in Seq(Statements)
    BY <1>2, <2>1, ConcatProperties
  <2> QED  BY <1>2, <1>3, <2>1, <2>2, ConcatProperties
<1>5. CASE add
  <2>1. i # <<>> /\ Head(i) = <<"add_ip", "results">> /\ Tail(i) = <<>> /\ AddIPFirst(FALSE) = <<>>
    BY <1>5, Parts DEF i
  <2> DEFINE ia == i \o a
             iab == ia \o b
  <2>2. ia \in Seq(Statements) /\ ia # <<>> /\ Head(ia) = Head(i) /\ Tail(ia) = Tail(i) \o a
    BY <1>2, <2>1, HeadConcat
  <2>3. todo = iab \o c
    BY <1>3
  <2> HIDE DEF ia
  <2>4. iab \in Seq(Statements) /\ iab # <<>> /\ Head(iab) = Head(ia) /\ Tail(iab) = Tail(ia) \o b
    BY <1>2, <2>2, HeadConcat
  <2> HIDE DEF iab
  <2>5. todo # <<>> /\ Head(todo) = Head(iab) /\ Tail(todo) = Tail(iab) \o c
    BY <1>2, <2>3, <2>4, HeadConcat
  <2>6. Tail(todo) = Todo(FALSE, left, agents)
    <3>1. Tail(todo) = ((<<>> \o a) \o b) \o c
      BY ONLY <2>1, <2>2, <2>4, <2>5
    <3> QED  BY <2>1, <3>1 DEF Todo, a, b, c
  <2> QED  BY <1>4, <1>5, <2>1, <2>2, <2>4, <2>5, <2>6 DEF First, todo
<1>6. CASE ~add /\ n > 0
  <2> DEFINE new == [left EXCEPT !["results"] = left["results"] - 1]
  <2>1. /\ a # <<>> /\ Head(a) = <<Order[n], "results">> /\ Tail(a) = Rest("results", n - 1)
        /\ i = <<>> /\ i = AddIPFirst(FALSE)
    BY <1>1, <1>6, Parts, RestSequence DEF a, i
  <2>2. i \o a = a
    BY <1>2, <2>1, ConcatEmptySeq
  <2> DEFINE ab == a \o b
  <2>3. ab # <<>> /\ Head(ab) = Head(a) /\ Tail(ab) = Tail(a) \o b /\ ab \in Seq(Statements)
    BY <1>2, <2>1, HeadConcat
  <2>4. todo = ab \o c
    BY <1>3, <2>2
  <2> HIDE DEF ab
  <2>5. todo # <<>> /\ Head(todo) = Head(ab) /\ Tail(todo) = Tail(ab) \o c
    BY SMTT(20), <1>2, <2>3, <2>4, HeadConcat
  <2>6. Tail(a) \in Seq(Statements)
    BY <1>2, <2>1, HeadTailProperties
  <2>7. i \o Tail(a) = Tail(a)
    BY <2>1, <2>6, ConcatEmptySeq
  <2>8. new["results"] = n - 1 /\ new["rollups"] = m
    BY <1>1
  <2>9. Tail(todo) = Todo(FALSE, new, agents)
    <3>1. Tail(todo) = ((i \o Tail(a)) \o b) \o c
      BY ONLY <2>3, <2>5, <2>7
    <3> QED  BY <2>1, <2>8, <3>1 DEF Todo, b, c
  <2> QED  BY <1>1, <1>4, <1>6, <2>1, <2>3, <2>5, <2>9 DEF First, todo
<1>7. CASE ~add /\ n = 0 /\ m > 0
  <2> DEFINE new == [left EXCEPT !["rollups"] = left["rollups"] - 1]
  <2>1. /\ b # <<>> /\ Head(b) = <<Order[m], "rollups">> /\ Tail(b) = Rest("rollups", m - 1)
        /\ i = <<>> /\ i = AddIPFirst(FALSE) /\ a = <<>>
    BY <1>1, <1>7, Parts, RestSequence DEF a, b, i
  <2>2. (i \o a) \o b = b
    BY <1>2, <2>1, ConcatEmptySeq
  <2>3. todo # <<>> /\ Head(todo) = Head(b) /\ Tail(todo) = Tail(b) \o c
    BY <1>2, <1>3, <2>1, <2>2, HeadConcat
  <2>4. Tail(b) \in Seq(Statements)
    BY <1>2, <2>1, HeadTailProperties
  <2>5. (i \o a) \o Tail(b) = Tail(b)
    BY <1>2, <2>1, <2>4, ConcatEmptySeq
  <2>6. new["results"] = n /\ new["rollups"] = m - 1
    BY <1>1
  <2>7. Tail(todo) = Todo(FALSE, new, agents)
    BY <2>1, <2>3, <2>5, <2>6 DEF Todo, a, c
  <2> QED  BY <1>1, <1>4, <1>7, <2>1, <2>3, <2>7 DEF First, todo
<1>8. CASE ~add /\ n = 0 /\ m = 0
  <2>1. i = <<>> /\ i = AddIPFirst(FALSE) /\ a = <<>> /\ b = <<>> /\ AddStatuses(TRUE) = <<>>
    BY <1>1, <1>8, Parts, RestSequence DEF a, b, i
  <2>2. (i \o a) \o b = <<>> /\ todo = c
    <3>1. i \o a = <<>>
      BY <1>2, <2>1, ConcatEmptySeq
    <3>2. (i \o a) \o b = <<>>
      BY <1>2, <2>1, <3>1, ConcatEmptySeq
    <3> QED  BY <1>2, <1>3, <3>2, ConcatEmptySeq
  <2>3. Todo(FALSE, left, TRUE) = <<>>
    <3>1. Todo(FALSE, left, TRUE) = ((i \o a) \o b) \o <<>>
      BY <2>1 DEF Todo, a, b
    <3>2. <<>> \o <<>> = <<>>
      BY <1>2, <2>1, ConcatEmptySeq
    <3> QED  BY <2>2, <3>1, <3>2
  <2>4. CASE agents
    <3>1. todo = <<>>
      BY <2>2, <2>4, Parts DEF c
    <3>2. \A t \in Tables : left[t] = 0
      BY <1>8 DEF Tables
    <3> QED  BY <1>4, <1>8, <2>4, <3>1, <3>2 DEF todo
  <2>5. CASE ~agents
    <3>1. todo # <<>> /\ Head(todo) = <<"agents", "results">> /\ Tail(todo) = <<>>
      BY <2>2, <2>5, Parts DEF c
    <3> QED  BY <1>4, <1>8, <2>3, <2>5, <3>1 DEF First, todo
  <2> QED  BY <2>4, <2>5
<1> QED  BY <1>1, <1>5, <1>6, <1>7, <1>8

\* The program of a transaction is such a sequence.
LEMMA Programs ==
    ASSUME NEW stale \in SUBSET Tables, NEW agents \in BOOLEAN, NEW hasIP \in BOOLEAN
    PROVE  Program(stale, agents, hasIP) =
             Todo("results" \in stale /\ ~hasIP, [t \in Tables |-> IF t \in stale THEN 5 ELSE 0], agents)
<1> DEFINE left == [t \in Tables |-> IF t \in stale THEN 5 ELSE 0]
<1>1. AddMissingIP(stale, hasIP) = AddIPFirst("results" \in stale /\ ~hasIP)
  BY DEF AddMissingIP, AddIPFirst
<1>2. ASSUME NEW t \in Tables PROVE (IF t \in stale THEN Rebuild(t) ELSE <<>>) = Rest(t, left[t])
  <2>1. Rest(t, 0) = <<>>
    BY RestSequence
  <2> QED  BY <2>1, Rebuilds
<1>3. "results" \in Tables /\ "rollups" \in Tables
  BY DEF Tables
<1> HIDE DEF left
<1>4. /\ (IF "results" \in stale THEN Rebuild("results") ELSE <<>>) = Rest("results", left["results"])
      /\ (IF "rollups" \in stale THEN Rebuild("rollups") ELSE <<>>) = Rest("rollups", left["rollups"])
  BY <1>2, <1>3
<1>5. Program(stale, agents, hasIP) = Todo("results" \in stale /\ ~hasIP, left, agents)
  BY ONLY <1>1, <1>4 DEF Program, Todo
<1> QED  BY <1>5 DEF left
----------------------------------------------------------------------------
(* What the statements do to what the transaction sees. *)

Others(w, w2, t) ==
    \A u \in Tables \ {t} : w2.table[u] = w.table[u] /\ w2.fresh[u] = w.fresh[u]

\* A statement for t takes t to its next stage and leaves the other table where it is.
LEMMA Advance ==
    ASSUME NEW w \in Database, NEW w2 \in Database, NEW left \in [Tables -> 0 .. 5],
           NEW agents \in BOOLEAN, NEW t \in Tables, NEW n \in 0 .. 4, left[t] = n + 1,
           InWork(w, left, agents),
           Others(w, w2, t), w.series \subseteq w2.series, w2.agents = w.agents,
           Stage(w2, t, n)
    PROVE  InWork(w2, [left EXCEPT ![t] = n], agents)
<1> DEFINE new == [left EXCEPT ![t] = n]
<1>1. ASSUME NEW u \in Tables, u # t PROVE Stage(w2, u, new[u])
  <2>1. new[u] = left[u] /\ w2.table[u] = w.table[u] /\ w2.fresh[u] = w.fresh[u]
    BY <1>1 DEF Others
  <2>2. Stage(w, u, left[u])
    BY DEF InWork
  <2>3. ASSUME NEW table, Built(w, table, u) PROVE Built(w2, table, u)
    BY <2>3 DEF Built
  <2>4. Untouched(w, u) => Untouched(w2, u)
    BY <2>1 DEF Untouched
  <2>5. Filled(w, u) => Filled(w2, u)
    BY <2>1 DEF Filled
  <2> QED  BY <2>1, <2>2, <2>3, <2>4, <2>5 DEF Stage
<1>2. Stage(w2, t, new[t])
  OBVIOUS
<1> QED  BY <1>1, <1>2 DEF InWork

\* agent_ip is added to every row.
LEMMA AddIPEffect ==
    ASSUME MTypeOK, NEW w \in Database, NEW left \in [Tables -> 0 .. 5], NEW agents \in BOOLEAN,
           InWork(w, left, agents), left["results"] = 5
    PROVE  LET w2 == [w EXCEPT !.table["results"].form = IF @ = "noip" THEN "old" ELSE @]
           IN  w2 \in Database /\ InWork(w2, left, agents)
<1> DEFINE form == IF w.table["results"].form = "noip" THEN "old" ELSE w.table["results"].form
           w2 == [w EXCEPT !.table["results"].form = form]
<1>1. "results" \in Tables /\ w.table["results"] \in Table /\ form \in Forms
  BY DEF Tables, Database, Table, Forms
<1>2. /\ w2.series = w.series /\ w2.agents = w.agents /\ w2.fresh = w.fresh
      /\ w2.table = [w.table EXCEPT !["results"] = [w.table["results"] EXCEPT !.form = form]]
      /\ w2 \in [table : {w2.table}, fresh : {w2.fresh}, series : {w2.series}, agents : {w2.agents}]
  BY DEF Database
<1> HIDE DEF w2
<1>3. [w.table["results"] EXCEPT !.form = form] = [form |-> form, rows |-> w.table["results"].rows]
  BY <1>1 DEF Table
<1>4. /\ w2.table["results"] = [form |-> form, rows |-> w.table["results"].rows]
      /\ \A u \in Tables : u # "results" => w2.table[u] = w.table[u]
      /\ w2.table \in [Tables -> Table]
  BY <1>1, <1>2, <1>3 DEF Database, Table
<1>5. w2 \in Database
  BY <1>2, <1>4 DEF Database
<1>6. Stage(w2, "results", 5)
  <2>1. Untouched(w, "results")
    BY <1>1 DEF InWork, Stage
  <2>2. w2.table["results"].form = form /\ w2.table["results"].rows = w.table["results"].rows
    BY <1>4
  <2>3. Untouched(w2, "results")
    BY <1>2, <2>1, <2>2 DEF Untouched
  <2> QED  BY <2>3 DEF Stage
<1>7. ASSUME NEW u \in Tables, u # "results" PROVE Stage(w2, u, left[u])
  <2>1. w2.table[u] = w.table[u] /\ w2.fresh[u] = w.fresh[u] /\ w2.series = w.series
    BY <1>2, <1>4, <1>7
  <2> QED  BY <2>1 DEF InWork, Stage, Untouched, Filled, Built
<1>8. InWork(w2, left, agents)
  BY <1>2, <1>6, <1>7 DEF InWork
<1> QED  BY <1>5, <1>8 DEF w2

\* Every series the rows need is there.
LEMMA FillEffect ==
    ASSUME MTypeOK, NEW w \in Database, NEW left \in [Tables -> 0 .. 5], NEW agents \in BOOLEAN,
           NEW t \in Tables, InWork(w, left, agents), left[t] = 5, w.table[t].form = "old"
    PROVE  LET w2 == [w EXCEPT !.series = @ \cup {Normal(r.key) : r \in w.table[t].rows}]
           IN  w2 \in Database /\ InWork(w2, [left EXCEPT ![t] = 4], agents)
<1> DEFINE more == {Normal(r.key) : r \in w.table[t].rows}
           w2 == [w EXCEPT !.series = w.series \cup more]
<1>1. more \subseteq Keys
  BY NormalKeys DEF Database, Table, Rows
<1>2. /\ w2.series = w.series \cup more /\ w2.agents = w.agents /\ w2.fresh = w.fresh
      /\ w2.table = w.table /\ w2 \in Database
  BY <1>1 DEF Database
<1>3. \A r \in w.table[t].rows : Normal(r.key) \in w2.series
  BY <1>2
<1> HIDE DEF w2, more
<1>4. Stage(w2, t, 4)
  <2>1. Untouched(w, t)
    BY DEF InWork, Stage
  <2>2. ~Settled(t)
    BY <2>1 DEF Untouched, Settled
  <2> QED  BY <1>2, <1>3, <2>1, <2>2 DEF Stage, Filled, Untouched
<1>5. Others(w, w2, t)
  BY <1>2 DEF Others
<1>6. InWork(w2, [left EXCEPT ![t] = 4], agents)
  <2>1. left[t] = 4 + 1 /\ 4 \in 0 .. 4
    OBVIOUS
  <2> QED  BY <1>2, <1>4, <1>5, <2>1, Advance
<1> QED  BY <1>2, <1>6 DEF w2, more

LEMMA CreateEffect ==
    ASSUME MTypeOK, NEW w \in Database, NEW left \in [Tables -> 0 .. 5], NEW agents \in BOOLEAN,
           NEW t \in Tables, InWork(w, left, agents), left[t] = 4
    PROVE  LET w2 == [w EXCEPT !.fresh[t] = Created]
           IN  w2 \in Database /\ InWork(w2, [left EXCEPT ![t] = 3], agents)
<1> DEFINE w2 == [w EXCEPT !.fresh[t] = Created]
<1>1. Created \in Table
  BY DEF Created, Table, Forms
<1>2. /\ w2.series = w.series /\ w2.agents = w.agents /\ w2.table = w.table
      /\ w2.fresh[t] = Created /\ (\A u \in Tables : u # t => w2.fresh[u] = w.fresh[u])
      /\ w2 \in Database
  BY <1>1 DEF Database
<1> HIDE DEF w2
<1>3. Stage(w2, t, 3)
  <2>1. Filled(w, t) /\ ~Settled(t)
    BY DEF InWork, Stage
  <2> QED  BY <1>2, <2>1 DEF Stage, Filled
<1>4. Others(w, w2, t)
  BY <1>2 DEF Others
<1>5. left[t] = 3 + 1 /\ 3 \in 0 .. 4
  OBVIOUS
<1>6. InWork(w2, [left EXCEPT ![t] = 3], agents)
  BY <1>2, <1>3, <1>4, <1>5, Advance
<1> QED  BY <1>2, <1>6 DEF w2

\* Every row is copied, to the series it belongs to.
LEMMA CopyEffect ==
    ASSUME MTypeOK, MeasurementsKept, NEW w \in Database, NEW left \in [Tables -> 0 .. 5],
           NEW agents \in BOOLEAN, NEW t \in Tables, InWork(w, left, agents), left[t] = 3
    PROVE  LET w2 == [w EXCEPT !.fresh[t].rows = Joined(w.table[t].rows, w.series)]
           IN  w2 \in Database /\ InWork(w2, [left EXCEPT ![t] = 2], agents)
<1> DEFINE rows == Joined(w.table[t].rows, w.series)
           w2 == [w EXCEPT !.fresh[t].rows = rows]
<1>1. Filled(w, t) /\ ~Settled(t) /\ w.fresh[t] = Created
  BY DEF InWork, Stage
<1>2. w.table[t].rows \in SUBSET Rows /\ w.series \in SUBSET Keys
  BY DEF Database, Table
<1>3. /\ rows \in SUBSET Rows
      /\ Normalised(rows) = expected[t]
      /\ \A r \in rows : r.key \in w.series
  <2>1. \A r \in w.table[t].rows : Normal(r.key) \in w.series
    BY <1>1 DEF Filled
  <2>2. rows = Normalised(w.table[t].rows) /\ \A r \in rows : r.key \in w.series
    BY <1>2, <2>1, JoinedRows
  <2>3. Normalised(w.table[t].rows) = expected[t]
    BY <1>1 DEF Filled, MeasurementsKept
  <2> QED  BY <1>2, <2>2, <2>3, NormalisedRows
<1> HIDE DEF rows
<1>4. /\ w2.series = w.series /\ w2.agents = w.agents /\ w2.table = w.table
      /\ w2.fresh = [w.fresh EXCEPT ![t] = [w.fresh[t] EXCEPT !.rows = rows]]
  BY DEF Database
<1>5. [w.fresh[t] EXCEPT !.rows = rows] = [form |-> "new", rows |-> rows]
  BY <1>1 DEF Created
<1>6. [form |-> "new", rows |-> rows] \in Table
  BY <1>3 DEF Table, Forms
<1>7. /\ w2.fresh[t] = [form |-> "new", rows |-> rows]
      /\ (\A u \in Tables : u # t => w2.fresh[u] = w.fresh[u])
  BY <1>4, <1>5 DEF Database
<1>8. w2 \in Database
  BY <1>4, <1>5, <1>6 DEF Database
<1> HIDE DEF w2
<1>9. Stage(w2, t, 2)
  BY <1>1, <1>3, <1>4, <1>7 DEF Stage, Built
<1>10. Others(w, w2, t)
  BY <1>4, <1>7 DEF Others
<1>11. left[t] = 2 + 1 /\ 2 \in 0 .. 4
  OBVIOUS
<1>12. InWork(w2, [left EXCEPT ![t] = 2], agents)
  <2>1. w.series \subseteq w2.series /\ w2.agents = w.agents
    BY <1>4
  <2> QED  BY <1>8, <1>9, <1>10, <1>11, <2>1, Advance
<1> QED  BY <1>8, <1>12 DEF w2, rows

LEMMA DropEffect ==
    ASSUME MTypeOK, NEW w \in Database, NEW left \in [Tables -> 0 .. 5], NEW agents \in BOOLEAN,
           NEW t \in Tables, InWork(w, left, agents), left[t] = 2
    PROVE  LET w2 == [w EXCEPT !.table[t] = Absent]
           IN  w2 \in Database /\ InWork(w2, [left EXCEPT ![t] = 1], agents)
<1> DEFINE w2 == [w EXCEPT !.table[t] = Absent]
<1>1. Absent \in Table
  BY DEF Absent, Table, Forms
<1>2. /\ w2.series = w.series /\ w2.agents = w.agents /\ w2.fresh = w.fresh
      /\ w2.table[t] = Absent /\ (\A u \in Tables : u # t => w2.table[u] = w.table[u])
      /\ w2 \in Database
  BY <1>1 DEF Database
<1> HIDE DEF w2
<1>3. Stage(w2, t, 1)
  <2>1. Built(w, w.fresh[t], t) /\ ~Settled(t)
    BY DEF InWork, Stage
  <2> QED  BY <1>2, <2>1 DEF Stage, Built
<1>4. Others(w, w2, t)
  BY <1>2 DEF Others
<1>5. left[t] = 1 + 1 /\ 1 \in 0 .. 4
  OBVIOUS
<1>6. InWork(w2, [left EXCEPT ![t] = 1], agents)
  BY <1>2, <1>3, <1>4, <1>5, Advance
<1> QED  BY <1>2, <1>6 DEF w2

LEMMA RenameEffect ==
    ASSUME MTypeOK, NEW w \in Database, NEW left \in [Tables -> 0 .. 5], NEW agents \in BOOLEAN,
           NEW t \in Tables, InWork(w, left, agents), left[t] = 1
    PROVE  LET w2 == [w EXCEPT !.table[t] = w.fresh[t], !.fresh[t] = Absent]
           IN  w2 \in Database /\ InWork(w2, [left EXCEPT ![t] = 0], agents)
<1> DEFINE w2 == [w EXCEPT !.table[t] = w.fresh[t], !.fresh[t] = Absent]
<1>1. Absent \in Table /\ w.fresh[t] \in Table
  BY DEF Absent, Table, Forms, Database
<1>2. /\ w2.series = w.series /\ w2.agents = w.agents
      /\ w2.table[t] = w.fresh[t] /\ (\A u \in Tables : u # t => w2.table[u] = w.table[u])
      /\ w2.fresh[t] = Absent /\ (\A u \in Tables : u # t => w2.fresh[u] = w.fresh[u])
      /\ w2 \in Database
  BY <1>1 DEF Database
<1> HIDE DEF w2
<1>3. Stage(w2, t, 0)
  <2>1. Built(w, w.fresh[t], t) /\ ~Settled(t)
    BY DEF InWork, Stage
  <2> QED  BY <1>2, <2>1 DEF Stage, Built
<1>4. Others(w, w2, t)
  BY <1>2 DEF Others
<1>5. left[t] = 0 + 1 /\ 0 \in 0 .. 4
  OBVIOUS
<1>6. InWork(w2, [left EXCEPT ![t] = 0], agents)
  BY <1>2, <1>3, <1>4, <1>5, Advance
<1> QED  BY <1>2, <1>6 DEF w2

LEMMA AgentsEffect ==
    ASSUME NEW w \in Database, NEW left \in [Tables -> 0 .. 5], NEW agents \in BOOLEAN,
           InWork(w, left, agents)
    PROVE  LET w2 == [w EXCEPT !.agents = TRUE]
           IN  w2 \in Database /\ InWork(w2, left, TRUE)
<1> DEFINE w2 == [w EXCEPT !.agents = TRUE]
<1>1. /\ w2.series = w.series /\ w2.agents = TRUE /\ w2.table = w.table /\ w2.fresh = w.fresh
      /\ w2 \in Database
  BY DEF Database
<1> HIDE DEF w2
<1>2. InWork(w2, left, TRUE)
  BY <1>1 DEF InWork, Stage, Untouched, Filled, Built
<1> QED  BY <1>1, <1>2 DEF w2
----------------------------------------------------------------------------
(* The steps. *)

\* The steps of the migration, whatever else a step of the supervisor does.
MNext ==
    \/ \E p \in Processes : Open(p) \/ MigrationStep(p) \/ NoSuchColumn(p) \/ Busy(p) \/ Fails(p)
    \/ Initialise \/ Serves \/ Save
    \/ UNCHANGED mvars

LEMMA Steps == [SNext]_svars => MNext
<1>1. "server" \in Processes /\ "tool" \in Processes
  BY DEF Processes
<1> QED
  BY <1>1
     DEF SNext, MNext, svars, Start, ServerStep, StartServing, Watching, ServerFatal, ServerEnds,
         StartTool, ToolStep, ToolEnds, Operator, Report, Refused

LEMMA InitSound == SInit => MTypeOK /\ MInv
<1> SUFFICES ASSUME MInit PROVE MTypeOK /\ MInv
  BY DEF SInit
<1>1. db \in Database /\ db \in Found
  BY MigrationAssumption DEF MigrationAssumption, MInit
<1>2. \A t \in Tables : db.table[t].rows \in SUBSET Rows
  BY <1>1 DEF Database, Table
<1>3. Off \in Process /\ Off.at = "off"
  BY DEF Off, Process, Places
<1>4. proc \in [Processes -> Process] /\ \A p \in Processes : proc[p].at = "off"
  BY <1>3 DEF MInit
<1>5. expected \in [Tables -> SUBSET Rows]
  BY <1>2, NormalisedRows DEF MInit
<1>6. MTypeOK
  BY <1>1, <1>4, <1>5 DEF MTypeOK, MInit
<1>7. Locked
  BY <1>4 DEF Locked, At, MInit, Processes
<1>8. Kept
  <2>1. \A t \in Tables : expected[t] = Normalised(db.table[t].rows)
    BY DEF MInit
  <2> QED  BY <1>1, <2>1, MigrationAssumption DEF MigrationAssumption, Kept, MeasurementsKept
<1>9. \A p \in Processes : Sound(p)
  BY <1>4 DEF Sound, InspectedOf, WorkingOf, StartingOf
<1> QED  BY <1>6, <1>7, <1>8, <1>9 DEF MInv

\* A process that is in no transaction moves, and the database stays as it is.
LEMMA QuietStep ==
    ASSUME MTypeOK, MInv, NEW p \in Processes, NEW to \in Process,
           proc' = [proc EXCEPT ![p] = to], proc[p].at # "tx", to.at # "tx",
           UNCHANGED <<db, work, holder, expected, saves>>, faults' \in Nat,
           InspectedOf(to), StartingOf(p, to)
    PROVE  MTypeOK' /\ MInv'
<1>1. proc'[p] = to /\ \A q \in Processes : q # p => proc'[q] = proc[q]
  BY DEF MTypeOK
<1>2. MTypeOK'
  BY DEF MTypeOK
<1>3. Locked'
  BY <1>1 DEF MInv, Locked, At
<1>4. Kept'
  BY DEF MInv, Kept, MeasurementsKept
<1>5. \A q \in Processes : Sound(q)'
  <2>1. \A r : InspectedOf(r) => InspectedOf(r)'
    BY DEF InspectedOf, Settled
  <2>2. \A q, r : StartingOf(q, r) => StartingOf(q, r)'
    BY DEF StartingOf, Initialised, Settled
  <2>3. \A r : WorkingOf(r) => WorkingOf(r)'
    BY DEF WorkingOf, InWork, Stage, Untouched, Filled, Built, Settled
  <2>4. WorkingOf(to)
    BY DEF WorkingOf
  <2> QED  BY <1>1, <2>1, <2>2, <2>3, <2>4 DEF MInv, Sound
<1> QED  BY <1>2, <1>3, <1>4, <1>5 DEF MInv

\* While no process has the lock, the database grows and the process p may move.
LEMMA GrowingStep ==
    ASSUME MTypeOK, MInv, NEW p \in Processes, NEW to \in Process,
           proc' = [proc EXCEPT ![p] = to], to.at # "tx",
           holder' = "none", work' = {}, holder \in {"none", p}, db' \in Database,
           expected' \in [Tables -> SUBSET Rows], faults' \in Nat, saves' \in Nat,
           \A t \in Tables : Settled(t) => Settled(t)',
           \A t \in Tables : db.table[t].form = "new" => db'.table[t].form = "new",
           db.agents => db'.agents,
           Kept', InspectedOf(to)', StartingOf(p, to)'
    PROVE  MTypeOK' /\ MInv'
<1>1. proc'[p] = to /\ \A q \in Processes : q # p => proc'[q] = proc[q]
  BY DEF MTypeOK
<1>2. MTypeOK'
  BY DEF MTypeOK
<1>3. \A q \in Processes : proc'[q].at # "tx"
  BY <1>1 DEF MInv, Locked, At, Processes
<1>4. Locked'
  BY <1>3 DEF Locked, At, Processes
<1>5. ASSUME NEW q \in Processes PROVE Sound(q)'
  <2>1. WorkingOf(proc[q])'
    BY <1>3, <1>5 DEF WorkingOf
  <2>2. CASE q = p
    BY <1>1, <2>1, <2>2 DEF Sound
  <2>3. CASE q # p
    <3>1. InspectedOf(proc[q]) /\ StartingOf(q, proc[q]) /\ proc'[q] = proc[q]
      BY <1>1, <2>3 DEF MInv, Sound
    <3>2. "results" \in Tables /\ "rollups" \in Tables
      BY DEF Tables
    <3>3. InspectedOf(proc[q])'
      BY <3>1, <3>2 DEF InspectedOf
    <3>4. \A k \in 0 .. 3 : Initialised(k) => Initialised(k)'
      BY <3>2 DEF Initialised
    <3>5. StartingOf(q, proc[q])'
      BY <3>1, <3>4 DEF StartingOf
    <3> QED  BY <2>1, <3>3, <3>5 DEF Sound
  <2> QED  BY <2>2, <2>3
<1> QED  BY <1>2, <1>4, <1>5 DEF MInv

\* The states a process record can be given.
LEMMA ProcessStates ==
    /\ Off \in Process /\ Off.at = "off" /\ Off.todo = <<>> /\ Off.stale = {}
    /\ \A p \in Processes : After(p) \in Process
    /\ After("server").at = "create" /\ After("server").todo = Creation(0)
    /\ After("tool").at = "done"
    /\ \A at \in Places : [Off EXCEPT !.at = at] \in Process /\ [Off EXCEPT !.at = at].at = at
<1>1. Off \in Process /\ Off.at = "off" /\ Off.todo = <<>> /\ Off.stale = {}
  BY DEF Off, Process, Places
<1>2. \A at \in Places : [Off EXCEPT !.at = at] \in Process /\ [Off EXCEPT !.at = at].at = at
  BY <1>1 DEF Process
<1>3. Creation(0) \in Seq(Statements)
  BY DEF Creation, Statements, Kinds, Tables
<1>4. After("server") = [Off EXCEPT !.at = "create", !.todo = Creation(0)]
  BY DEF After, Creation
<1>5. After("server") \in Process /\ After("server").at = "create" /\ After("server").todo = Creation(0)
  BY <1>1, <1>3, <1>4 DEF Process, Places
<1>6. After("tool") \in Process /\ After("tool").at = "done"
  BY <1>2 DEF After, Places
<1> QED  BY <1>1, <1>2, <1>5, <1>6 DEF Processes

\* A process leaves the others and the database alone.
LEMMA OpenSound ==
    ASSUME MTypeOK, MInv, NEW p \in Processes, Open(p)
    PROVE  MTypeOK' /\ MInv'
<1> DEFINE to == [Off EXCEPT !.at = "agents"]
<1>1. to \in Process /\ to.at = "agents"
  BY ProcessStates DEF Places
<1>2. /\ proc' = [proc EXCEPT ![p] = to] /\ proc[p].at # "tx" /\ faults' = faults
      /\ UNCHANGED <<db, work, holder, expected, saves>>
  BY DEF Open, Moves, Stopped, At
<1> HIDE DEF to
<1>3. InspectedOf(to) /\ StartingOf(p, to)
  BY <1>1 DEF InspectedOf, StartingOf
<1> QED  BY <1>1, <1>2, <1>3, QuietStep DEF MTypeOK

LEMMA CheckAgentsSound ==
    ASSUME MTypeOK, MInv, NEW p \in Processes, CheckAgents(p)
    PROVE  MTypeOK' /\ MInv'
<1> DEFINE to == [proc[p] EXCEPT !.at = "results", !.agents = db.agents]
<1>1. /\ to \in Process /\ to.at = "results" /\ to.agents = db.agents
  BY DEF MTypeOK, Process, Places, Database
<1>2. /\ proc' = [proc EXCEPT ![p] = to] /\ proc[p].at # "tx" /\ faults' = faults
      /\ UNCHANGED <<db, work, holder, expected, saves>>
  BY DEF CheckAgents, Moves, At
<1> HIDE DEF to
<1>3. InspectedOf(to) /\ StartingOf(p, to)
  BY <1>1 DEF InspectedOf, StartingOf
<1> QED  BY <1>1, <1>2, <1>3, QuietStep DEF MTypeOK

LEMMA CheckTableSound ==
    ASSUME MTypeOK, MInv, NEW p \in Processes, NEW t \in Tables, CheckTable(p, t)
    PROVE  MTypeOK' /\ MInv'
<1> DEFINE at == IF t = "results" THEN "rollups" ELSE "checked"
           stale == IF db.table[t].form \in {"noip", "old"} THEN proc[p].stale \cup {t} ELSE proc[p].stale
           to == [proc[p] EXCEPT !.at = at, !.stale = stale]
<1>1. at \in Places /\ stale \in SUBSET Tables /\ proc[p] \in Process /\ at # "tx"
  BY DEF MTypeOK, Process, Places
<1>2. /\ proc' = [proc EXCEPT ![p] = to] /\ proc[p].at = t /\ faults' = faults
      /\ UNCHANGED <<db, work, holder, expected, saves>>
  BY DEF CheckTable, Moves, At
<1>3. t \notin stale => Settled(t) /\ stale = proc[p].stale
  BY DEF Settled, MTypeOK, Database, Table, Forms
<1>4. proc[p].stale \subseteq stale
  OBVIOUS
<1> HIDE DEF stale, at
<1>5. to \in Process /\ to.at = at /\ to.stale = stale /\ to.agents = proc[p].agents
  BY <1>1 DEF Process
<1> HIDE DEF to
<1>6. InspectedOf(proc[p])
  BY DEF MInv, Sound
<1>7. CASE t = "results"
  <2>1. at = "rollups"
    BY <1>7 DEF at
  <2>2. InspectedOf(to) /\ StartingOf(p, to)
    BY <1>2, <1>3, <1>5, <1>6, <1>7, <2>1 DEF InspectedOf, StartingOf
  <2> QED  BY <1>1, <1>2, <1>5, <1>7, <2>2, QuietStep DEF MTypeOK
<1>8. CASE t = "rollups"
  <2>1. at = "checked"
    BY <1>8 DEF at
  <2>2. InspectedOf(to) /\ StartingOf(p, to)
    BY <1>2, <1>3, <1>4, <1>5, <1>6, <1>8, <2>1 DEF InspectedOf, StartingOf
  <2> QED  BY <1>1, <1>2, <1>5, <1>8, <2>2, QuietStep DEF MTypeOK
<1> QED  BY <1>7, <1>8 DEF Tables

\* Nothing is stale: the supervisor goes on to create what is not there.
LEMMA CurrentSound ==
    ASSUME MTypeOK, MInv, NEW p \in Processes, Current(p)
    PROVE  MTypeOK' /\ MInv'
<1>1. /\ proc' = [proc EXCEPT ![p] = After(p)] /\ proc[p].at = "checked" /\ faults' = faults
      /\ proc[p].stale = {} /\ UNCHANGED <<db, work, holder, expected, saves>>
  BY DEF Current, Moves, At, UpToDate
<1>2. \A t \in Tables : Settled(t)
  BY <1>1 DEF MInv, Sound, InspectedOf, Tables
<1>3. InspectedOf(After(p)) /\ StartingOf(p, After(p)) /\ After(p) \in Process /\ After(p).at # "tx"
  <2>1. CASE p = "server"
    <3>1. Initialised(0)
      BY <1>2 DEF Initialised
    <3> QED  BY <2>1, <3>1, ProcessStates DEF InspectedOf, StartingOf
  <2>2. CASE p = "tool"
    BY <2>2, ProcessStates DEF InspectedOf, StartingOf
  <2> QED  BY <2>1, <2>2 DEF Processes
<1> QED  BY <1>1, <1>3, QuietStep DEF MTypeOK

LEMMA ServesSound ==
    ASSUME MTypeOK, MInv, Serves
    PROVE  MTypeOK' /\ MInv'
<1> DEFINE to == [Off EXCEPT !.at = "serving"]
<1>1. /\ to \in Process /\ to.at = "serving" /\ "server" \in Processes
  BY ProcessStates DEF Places, Processes
<1>2. /\ proc' = [proc EXCEPT !["server"] = to] /\ proc["server"].at = "create" /\ faults' = faults
      /\ proc["server"].todo = <<>> /\ UNCHANGED <<db, work, holder, expected, saves>>
  BY DEF Serves, Moves, At
<1> HIDE DEF to
<1>3. Initialised(3)
  <2>1. PICK k \in 0 .. 3 : <<>> = Creation(k) /\ Initialised(k)
    BY <1>1, <1>2 DEF MInv, Sound, StartingOf
  <2>2. k = 3
    BY <2>1 DEF Creation
  <2> QED  BY <2>1, <2>2
<1>4. InspectedOf(to) /\ StartingOf("server", to)
  BY <1>1, <1>3 DEF InspectedOf, StartingOf
<1> QED  BY <1>1, <1>2, <1>4, QuietStep DEF MTypeOK

\* A process dies: its transaction never was.
LEMMA DiesSound ==
    ASSUME MTypeOK, MInv, NEW p \in Processes, Dies(p), faults' \in Nat
    PROVE  MTypeOK' /\ MInv'
<1>1. proc' = [proc EXCEPT ![p] = Off] /\ UNCHANGED <<db, expected, saves>>
  BY DEF Dies
<1>2. CASE holder = p
  <2>1. holder' = "none" /\ work' = {}
    BY <1>2 DEF Dies
  <2>2. Kept'
    BY <1>1 DEF MInv, Kept, MeasurementsKept
  <2>3. /\ \A t \in Tables : Settled(t) => Settled(t)'
        /\ InspectedOf(Off)' /\ StartingOf(p, Off)'
    BY <1>1, ProcessStates DEF Settled, InspectedOf, StartingOf
  <2>4. Off \in Process /\ Off.at # "tx"
    BY ProcessStates
  <2>5. db' \in Database /\ expected' \in [Tables -> SUBSET Rows] /\ saves' \in Nat
    BY <1>1 DEF MTypeOK
  <2> QED  BY <1>1, <1>2, <2>1, <2>2, <2>3, <2>4, <2>5, GrowingStep
<1>3. CASE holder # p
  <2>1. proc[p].at # "tx" /\ UNCHANGED <<holder, work>>
    BY <1>3 DEF Dies, MInv, Locked, At
  <2>2. InspectedOf(Off) /\ StartingOf(p, Off) /\ Off \in Process /\ Off.at # "tx"
    BY ProcessStates DEF InspectedOf, StartingOf
  <2> QED  BY <1>1, <2>1, <2>2, QuietStep
<1> QED  BY <1>2, <1>3

LEMMA EndsSound ==
    ASSUME MTypeOK, MInv, NEW p \in Processes, NoSuchColumn(p) \/ Busy(p) \/ Fails(p)
    PROVE  MTypeOK' /\ MInv'
<1>1. Dies(p)
  BY DEF NoSuchColumn, Busy, Fails
<1>2. faults' \in Nat
  BY DEF NoSuchColumn, Busy, Fails, MTypeOK
<1> QED  BY <1>1, <1>2, DiesSound

\* A transaction begins on the database as it is, with the statements for what is stale.
LEMMA BeginProgram ==
    ASSUME MTypeOK, MInv, NEW p \in Processes, Begin(p)
    PROVE  \E to \in Process, add \in BOOLEAN, left \in [Tables -> 0 .. 5], agents \in BOOLEAN :
              /\ proc' = [proc EXCEPT ![p] = to]
              /\ to.at = "tx" /\ to.todo = Todo(add, left, agents)
              /\ add => left["results"] = 5
              /\ InWork(db, left, agents)
<1> DEFINE stale == proc[p].stale
           agents == proc[p].agents
           hasIP == db.table["results"].form = "old"
           add == "results" \in stale /\ ~hasIP
           left == [t \in Tables |-> IF t \in stale THEN 5 ELSE 0]
           program == Program(stale, agents, hasIP)
           to == [Off EXCEPT !.at = "tx", !.todo = program]
<1>1. proc' = [proc EXCEPT ![p] = to] /\ proc[p].at = "checked"
  BY DEF Begin, Moves, At
<1>2. stale \in SUBSET Tables /\ agents \in BOOLEAN
  BY DEF MTypeOK, Process
<1>3. hasIP \in BOOLEAN /\ add \in BOOLEAN
  OBVIOUS
<1>4. left \in [Tables -> 0 .. 5] /\ (add => left["results"] = 5)
  BY DEF Tables
<1>5. program = Todo(add, left, agents)
  BY <1>2, <1>3, Programs
<1>6. \A t \in Tables \ stale : Settled(t)
  BY <1>1 DEF MInv, Sound, InspectedOf, Tables
<1>7. agents => db.agents
  BY <1>1 DEF MInv, Sound, InspectedOf
<1>8. InWork(db, left, agents)
  <2>1. ASSUME NEW t \in Tables PROVE Stage(db, t, left[t])
    <3>1. db.fresh[t] = Absent
      BY DEF MInv, Kept
    <3>2. CASE t \in stale
      BY <3>1, <3>2 DEF Stage, Untouched
    <3>3. CASE t \notin stale
      BY <1>6, <3>1, <3>3 DEF Stage
    <3> QED  BY <3>2, <3>3
  <2> QED  BY <1>7, <2>1 DEF InWork
<1> HIDE DEF stale, agents, hasIP, add, left, program
<1>9. program \in Seq(Statements)
  BY <1>2, <1>3, <1>4, <1>5, TodoFirst
<1>10. to \in Process /\ to.at = "tx" /\ to.todo = program
  BY <1>9, ProcessStates DEF Process, Places
<1> HIDE DEF to
<1> QED  BY <1>1, <1>2, <1>3, <1>4, <1>5, <1>8, <1>10

\* Whatever p does in its transaction, it keeps the invariant if it is sound itself.
LEMMA TransactionStep ==
    ASSUME MTypeOK, MInv, NEW p \in Processes, NEW to \in Process,
           proc' = [proc EXCEPT ![p] = to], to.at = "tx", holder \in {"none", p}, holder' = p,
           UNCHANGED <<db, expected, faults, saves>>, work' \subseteq Database, WorkingOf(to)'
    PROVE  MTypeOK' /\ MInv'
<1>1. proc'[p] = to /\ \A q \in Processes : q # p => proc'[q] = proc[q] /\ proc[q].at # "tx"
  BY DEF MTypeOK, MInv, Locked, At, Processes
<1>2. MTypeOK'
  BY DEF MTypeOK
<1>3. Locked'
  BY <1>1 DEF Locked, At, Processes
<1>4. Kept'
  BY DEF MInv, Kept, MeasurementsKept
<1>5. Sound(p)'
  <2>1. InspectedOf(to)' /\ StartingOf(p, to)'
    BY DEF InspectedOf, StartingOf
  <2> QED  BY <1>1, <2>1 DEF Sound
<1>6. ASSUME NEW q \in Processes, q # p PROVE Sound(q)'
  <2>1. InspectedOf(proc[q]) /\ StartingOf(q, proc[q]) /\ proc'[q] = proc[q] /\ proc[q].at # "tx"
    BY <1>1, <1>6 DEF MInv, Sound
  <2>2. InspectedOf(proc[q])' /\ StartingOf(q, proc[q])' /\ WorkingOf(proc[q])'
    BY <2>1 DEF InspectedOf, StartingOf, WorkingOf, Initialised, Settled
  <2> QED  BY <2>2 DEF Sound
<1> QED  BY <1>2, <1>3, <1>4, <1>5, <1>6 DEF MInv

\* What the transaction sees is judged by the database, which it does not change.
LEMMA SameWork ==
    ASSUME NEW w, NEW left, NEW agents, InWork(w, left, agents), UNCHANGED <<db, expected>>
    PROVE  InWork(w, left, agents)'
  BY DEF InWork, Stage, Untouched, Filled, Built, Settled

LEMMA BeginSound ==
    ASSUME MTypeOK, MInv, NEW p \in Processes, Begin(p)
    PROVE  MTypeOK' /\ MInv'
<1>1. PICK to \in Process, add \in BOOLEAN, left \in [Tables -> 0 .. 5], agents \in BOOLEAN :
        /\ proc' = [proc EXCEPT ![p] = to]
        /\ to.at = "tx" /\ to.todo = Todo(add, left, agents)
        /\ add => left["results"] = 5
        /\ InWork(db, left, agents)
  BY BeginProgram
<1>2. PICK w \in Database : w = db
  BY DEF MTypeOK
<1>3. /\ holder = "none" /\ holder' = p /\ work' = {w} /\ UNCHANGED <<db, expected, faults, saves>>
  BY <1>2 DEF Begin, Moves
<1>4. InWork(w, left, agents)'
  BY <1>1, <1>2, <1>3, SameWork
<1>5. WorkingOf(to)'
  BY <1>1, <1>3, <1>4 DEF WorkingOf
<1> QED  BY <1>1, <1>2, <1>3, <1>5, TransactionStep

\* The next statement is one of this kind for t, and leaves n of them.
NextIs(add, left, agents, kind, t) == Head(Todo(add, left, agents)) = <<kind, t>>

Leaves(add, left, agents, t, n) ==
    Tail(Todo(add, left, agents)) = Todo(FALSE, [left EXCEPT ![t] = n], agents)

\* A statement of a rebuild is the next one of its table, ...
LEMMA NextOf ==
    ASSUME NEW add \in BOOLEAN, NEW left \in [Tables -> 0 .. 5], NEW agents \in BOOLEAN,
           First(add, left, agents), NEW t \in Tables, NEW n \in 1 .. 5,
           NextIs(add, left, agents, Order[n], t)
    PROVE  left[t] = n /\ Leaves(add, left, agents, t, n - 1)
<1> DEFINE todo == Todo(add, left, agents)
<1>0. Head(todo) = <<Order[n], t>>
  BY DEF NextIs
<1>1. PICK u \in Tables :
        /\ left[u] > 0 /\ Head(todo) = <<Order[left[u]], u>>
        /\ Tail(todo) = Todo(FALSE, [left EXCEPT ![u] = left[u] - 1], agents)
  <2>1. Head(todo) # <<"add_ip", "results">> /\ Head(todo) # <<"agents", "results">>
    BY <1>0 DEF Order
  <2> HIDE DEF todo
  <2> QED  BY <2>1 DEF First, todo
<1>2. u = t /\ left[t] \in 1 .. 5 /\ Order[n] = Order[left[t]]
  BY <1>0, <1>1
<1>3. left[t] = n
  BY <1>2 DEF Order
<1> QED  BY <1>1, <1>2, <1>3 DEF Leaves

LEMMA NextOfEach ==
    ASSUME NEW add \in BOOLEAN, NEW left \in [Tables -> 0 .. 5], NEW agents \in BOOLEAN,
           First(add, left, agents), NEW t \in Tables
    PROVE  LET Next(kind, n, m) ==
                 NextIs(add, left, agents, kind, t) => left[t] = n /\ Leaves(add, left, agents, t, m)
           IN  /\ Next("fill", 5, 4) /\ Next("create", 4, 3) /\ Next("copy", 3, 2)
               /\ Next("drop", 2, 1) /\ Next("rename", 1, 0)
<1>1. /\ Order[5] = "fill" /\ Order[4] = "create" /\ Order[3] = "copy"
      /\ Order[2] = "drop" /\ Order[1] = "rename"
  BY DEF Order
<1>2. \A n \in 1 .. 5 : NextIs(add, left, agents, Order[n], t)
                          => left[t] = n /\ Leaves(add, left, agents, t, n - 1)
  BY NextOf
<1> QED  BY <1>1, <1>2

\* ... and the other two come first and last.
LEMMA NextOther ==
    ASSUME NEW add \in BOOLEAN, NEW left \in [Tables -> 0 .. 5], NEW agents \in BOOLEAN,
           First(add, left, agents)
    PROVE  LET todo == Todo(add, left, agents) IN
           /\ Head(todo) = <<"add_ip", "results">> => add /\ Tail(todo) = Todo(FALSE, left, agents)
           /\ Head(todo) = <<"agents", "results">> => Tail(todo) = Todo(FALSE, left, TRUE)
<1> DEFINE todo == Todo(add, left, agents)
<1>1. ASSUME NEW t \in Tables, left[t] > 0, Head(todo) = <<Order[left[t]], t>>
      PROVE  Head(todo) # <<"add_ip", "results">> /\ Head(todo) # <<"agents", "results">>
  <2>1. left[t] \in 1 .. 5
    BY <1>1
  <2>2. Order[left[t]] # "add_ip" /\ Order[left[t]] # "agents"
    BY <2>1 DEF Order
  <2> QED  BY <1>1, <2>2
<1>2. <<"add_ip", "results">> # <<"agents", "results">>
  OBVIOUS
<1> HIDE DEF todo
<1> QED  BY <1>1, <1>2 DEF First, todo

\* The statements of a transaction, one by one.
LEMMA Executed ==
    ASSUME MTypeOK, MInv, NEW p \in Processes, Execute(p), ~Commit(p)
    PROVE  /\ At(p, "tx") /\ proc[p].todo \in Seq(Statements) /\ proc[p].todo # <<>>
           /\ proc' = [proc EXCEPT ![p] = [proc[p] EXCEPT !.todo = Tail(proc[p].todo)]]
           /\ UNCHANGED <<db, holder, expected, faults, saves>>
           /\ work' \subseteq Database
           /\ \E left \in [Tables -> 0 .. 5], agents \in BOOLEAN :
                 /\ Tail(proc[p].todo) = Todo(FALSE, left, agents)
                 /\ \A w \in work' : InWork(w, left, agents)
<1> DEFINE todo == proc[p].todo
<1>1. /\ At(p, "tx") /\ todo # <<>>
      /\ proc' = [proc EXCEPT ![p] = [proc[p] EXCEPT !.todo = Tail(todo)]]
      /\ UNCHANGED <<db, holder, expected, faults, saves>>
  BY DEF Execute, AddIP, FillSeries, CreateNew, Copy, Drop, Rename, CreateAgents, Executes, Moves
<1>2. PICK add \in BOOLEAN, left \in [Tables -> 0 .. 5], agents \in BOOLEAN :
        /\ todo = Todo(add, left, agents)
        /\ add => left["results"] = 5
        /\ \A w \in work : InWork(w, left, agents)
  BY <1>1 DEF MInv, Sound, WorkingOf, At
<1>3. todo \in Seq(Statements) /\ First(add, left, agents)
  BY <1>1, <1>2, TodoFirst
<1>4. work \subseteq Database
  BY DEF MTypeOK
<1>5. MeasurementsKept
  BY DEF MInv, Kept
<1> DEFINE Goal == \E left2 \in [Tables -> 0 .. 5], agents2 \in BOOLEAN :
                     /\ Tail(todo) = Todo(FALSE, left2, agents2)
                     /\ \A w \in work' : InWork(w, left2, agents2)
<1>7. CASE AddIP(p)
  <2>1. add /\ Tail(todo) = Todo(FALSE, left, agents)
    <3>1. Head(todo) = <<"add_ip", "results">>
      BY <1>7 DEF AddIP, Executes
    <3>2. Head(Todo(add, left, agents)) = <<"add_ip", "results">>
      BY <1>2, <3>1
    <3>3. add /\ Tail(Todo(add, left, agents)) = Todo(FALSE, left, agents)
      BY <1>3, <3>2, NextOther
    <3> QED  BY <1>2, <3>3
  <2>2. work' = {[w EXCEPT !.table["results"].form = IF @ = "noip" THEN "old" ELSE @] : w \in work}
    BY <1>7 DEF AddIP, Executes
  <2>3. ASSUME NEW w \in work
        PROVE  LET w2 == [w EXCEPT !.table["results"].form = IF @ = "noip" THEN "old" ELSE @]
               IN  w2 \in Database /\ InWork(w2, left, agents)
    BY <1>2, <1>4, <2>1, AddIPEffect
  <2>4. \A w \in work' : w \in Database /\ InWork(w, left, agents)
    BY <2>2, <2>3
  <2> QED  BY <1>1, <1>3, <2>1, <2>4
<1>8. ASSUME NEW t \in Tables, FillSeries(p, t) PROVE Goal /\ work' \subseteq Database
  <2>1. NextIs(add, left, agents, "fill", t)
    BY <1>2, <1>8 DEF FillSeries, Executes, NextIs
  <2>2. left[t] = 5 /\ Tail(todo) = Todo(FALSE, [left EXCEPT ![t] = 4], agents)
    <3>1. left[t] = 5 /\ Leaves(add, left, agents, t, 4)
      BY <1>3, <2>1, NextOfEach
    <3> QED  BY <1>2, <3>1 DEF Leaves
  <2>3. work' = {[w EXCEPT !.series = @ \cup {Normal(r.key) : r \in w.table[t].rows}] : w \in work}
    BY <1>8 DEF FillSeries, Executes
  <2>4. ASSUME NEW w \in work
        PROVE  LET w2 == [w EXCEPT !.series = @ \cup {Normal(r.key) : r \in w.table[t].rows}]
               IN  w2 \in Database /\ InWork(w2, [left EXCEPT ![t] = 4], agents)
    BY <1>2, <1>4, <1>8, <2>2, FillEffect DEF FillSeries, HasColumns
  <2>5. [left EXCEPT ![t] = 4] \in [Tables -> 0 .. 5]
    OBVIOUS
  <2>6. \A w \in work' : w \in Database /\ InWork(w, [left EXCEPT ![t] = 4], agents)
    BY <2>3, <2>4
  <2> QED  BY <2>2, <2>5, <2>6
<1>9. ASSUME NEW t \in Tables, CreateNew(p, t) PROVE Goal /\ work' \subseteq Database
  <2>1. NextIs(add, left, agents, "create", t)
    BY <1>2, <1>9 DEF CreateNew, Executes, NextIs
  <2>2. left[t] = 4 /\ Tail(todo) = Todo(FALSE, [left EXCEPT ![t] = 3], agents)
    <3>1. left[t] = 4 /\ Leaves(add, left, agents, t, 3)
      BY <1>3, <2>1, NextOfEach
    <3> QED  BY <1>2, <3>1 DEF Leaves
  <2>3. work' = {[w EXCEPT !.fresh[t] = Created] : w \in work}
    BY <1>9 DEF CreateNew, Executes
  <2>4. ASSUME NEW w \in work
        PROVE  LET w2 == [w EXCEPT !.fresh[t] = Created]
               IN  w2 \in Database /\ InWork(w2, [left EXCEPT ![t] = 3], agents)
    BY <1>2, <1>4, <2>2, CreateEffect
  <2>5. [left EXCEPT ![t] = 3] \in [Tables -> 0 .. 5]
    OBVIOUS
  <2>6. \A w \in work' : w \in Database /\ InWork(w, [left EXCEPT ![t] = 3], agents)
    BY <2>3, <2>4
  <2> QED  BY <2>2, <2>5, <2>6
<1>10. ASSUME NEW t \in Tables, Copy(p, t) PROVE Goal /\ work' \subseteq Database
  <2>1. NextIs(add, left, agents, "copy", t)
    BY <1>2, <1>10 DEF Copy, Executes, NextIs
  <2>2. left[t] = 3 /\ Tail(todo) = Todo(FALSE, [left EXCEPT ![t] = 2], agents)
    <3>1. left[t] = 3 /\ Leaves(add, left, agents, t, 2)
      BY <1>3, <2>1, NextOfEach
    <3> QED  BY <1>2, <3>1 DEF Leaves
  <2>3. work' = {[w EXCEPT !.fresh[t].rows = Joined(w.table[t].rows, w.series)] : w \in work}
    BY <1>10 DEF Copy, Executes
  <2>4. ASSUME NEW w \in work
        PROVE  LET w2 == [w EXCEPT !.fresh[t].rows = Joined(w.table[t].rows, w.series)]
               IN  w2 \in Database /\ InWork(w2, [left EXCEPT ![t] = 2], agents)
    BY <1>2, <1>4, <1>5, <2>2, CopyEffect
  <2>5. [left EXCEPT ![t] = 2] \in [Tables -> 0 .. 5]
    OBVIOUS
  <2>6. \A w \in work' : w \in Database /\ InWork(w, [left EXCEPT ![t] = 2], agents)
    BY <2>3, <2>4
  <2> QED  BY <2>2, <2>5, <2>6
<1>11. ASSUME NEW t \in Tables, Drop(p, t) PROVE Goal /\ work' \subseteq Database
  <2>1. NextIs(add, left, agents, "drop", t)
    BY <1>2, <1>11 DEF Drop, Executes, NextIs
  <2>2. left[t] = 2 /\ Tail(todo) = Todo(FALSE, [left EXCEPT ![t] = 1], agents)
    <3>1. left[t] = 2 /\ Leaves(add, left, agents, t, 1)
      BY <1>3, <2>1, NextOfEach
    <3> QED  BY <1>2, <3>1 DEF Leaves
  <2>3. work' = {[w EXCEPT !.table[t] = Absent] : w \in work}
    BY <1>11 DEF Drop, Executes
  <2>4. ASSUME NEW w \in work
        PROVE  LET w2 == [w EXCEPT !.table[t] = Absent]
               IN  w2 \in Database /\ InWork(w2, [left EXCEPT ![t] = 1], agents)
    BY <1>2, <1>4, <2>2, DropEffect
  <2>5. [left EXCEPT ![t] = 1] \in [Tables -> 0 .. 5]
    OBVIOUS
  <2>6. \A w \in work' : w \in Database /\ InWork(w, [left EXCEPT ![t] = 1], agents)
    BY <2>3, <2>4
  <2> QED  BY <2>2, <2>5, <2>6
<1>12. ASSUME NEW t \in Tables, Rename(p, t) PROVE Goal /\ work' \subseteq Database
  <2>1. NextIs(add, left, agents, "rename", t)
    BY <1>2, <1>12 DEF Rename, Executes, NextIs
  <2>2. left[t] = 1 /\ Tail(todo) = Todo(FALSE, [left EXCEPT ![t] = 0], agents)
    <3>1. left[t] = 1 /\ Leaves(add, left, agents, t, 0)
      BY <1>3, <2>1, NextOfEach
    <3> QED  BY <1>2, <3>1 DEF Leaves
  <2>3. work' = {[w EXCEPT !.table[t] = w.fresh[t], !.fresh[t] = Absent] : w \in work}
    BY <1>12 DEF Rename, Executes
  <2>4. ASSUME NEW w \in work
        PROVE  LET w2 == [w EXCEPT !.table[t] = w.fresh[t], !.fresh[t] = Absent]
               IN  w2 \in Database /\ InWork(w2, [left EXCEPT ![t] = 0], agents)
    BY <1>2, <1>4, <2>2, RenameEffect
  <2>5. [left EXCEPT ![t] = 0] \in [Tables -> 0 .. 5]
    OBVIOUS
  <2>6. \A w \in work' : w \in Database /\ InWork(w, [left EXCEPT ![t] = 0], agents)
    BY <2>3, <2>4
  <2> QED  BY <2>2, <2>5, <2>6
<1>13. CASE CreateAgents(p)
  <2>1. Tail(todo) = Todo(FALSE, left, TRUE)
    <3>1. Head(todo) = <<"agents", "results">>
      BY <1>13 DEF CreateAgents, Executes
    <3>2. Head(Todo(add, left, agents)) = <<"agents", "results">>
      BY <1>2, <3>1
    <3>3. Tail(Todo(add, left, agents)) = Todo(FALSE, left, TRUE)
      BY <1>3, <3>2, NextOther
    <3> QED  BY <1>2, <3>3
  <2>2. work' = {[w EXCEPT !.agents = TRUE] : w \in work}
    BY <1>13 DEF CreateAgents, Executes
  <2>3. \A w \in work' : w \in Database /\ InWork(w, left, TRUE)
    BY <1>2, <1>4, <2>1, <2>2, AgentsEffect
  <2> QED  BY <1>1, <1>3, <2>1, <2>3
<1> QED  BY <1>1, <1>3, <1>7, <1>8, <1>9, <1>10, <1>11, <1>12, <1>13 DEF Execute

LEMMA StatementSound ==
    ASSUME MTypeOK, MInv, NEW p \in Processes, Execute(p), ~Commit(p)
    PROVE  MTypeOK' /\ MInv'
<1>1. PICK to \in Process : to = [proc[p] EXCEPT !.todo = Tail(proc[p].todo)]
  <2>1. proc[p] \in Process
    BY DEF MTypeOK
  <2>2. proc[p].todo \in Seq(Statements) /\ proc[p].todo # <<>>
    BY Executed
  <2>3. Tail(proc[p].todo) \in Seq(Statements)
    BY <2>2, HeadTailProperties
  <2> QED  BY <2>1, <2>3 DEF Process
<1>2. PICK left \in [Tables -> 0 .. 5], agents \in BOOLEAN :
        /\ Tail(proc[p].todo) = Todo(FALSE, left, agents)
        /\ \A w \in work' : InWork(w, left, agents)
  BY Executed
<1>3. /\ At(p, "tx") /\ proc' = [proc EXCEPT ![p] = to]
      /\ UNCHANGED <<db, holder, expected, faults, saves>>
      /\ work' \subseteq Database
  BY <1>1, Executed
<1>4. to.at = "tx" /\ to.todo = Todo(FALSE, left, agents)
  BY <1>1, <1>2, <1>3 DEF At, MTypeOK, Process
<1>5. WorkingOf(to)'
  <2>1. \A w \in work' : InWork(w, left, agents)'
    BY <1>2, <1>3, SameWork
  <2> QED  BY <1>4, <2>1 DEF WorkingOf
<1>6. holder = p /\ holder' = p
  BY <1>3 DEF MInv, Locked
<1> QED  BY <1>3, <1>4, <1>5, <1>6, TransactionStep

\* No statement is left: every table is as it was or built anew, and is put in place.
LEMMA CommitSound ==
    ASSUME MTypeOK, MInv, NEW p \in Processes, Commit(p)
    PROVE  MTypeOK' /\ MInv'
<1>1. /\ proc[p].at = "tx" /\ proc[p].todo = <<>> /\ db' \in work /\ work' = {} /\ holder' = "none"
      /\ proc' = [proc EXCEPT ![p] = After(p)] /\ UNCHANGED <<expected, faults, saves>>
  BY DEF Commit, Moves, At
<1>2. PICK w \in Database : w = db' /\ w \in work
  BY <1>1 DEF MTypeOK
<1>3. PICK add \in BOOLEAN, left \in [Tables -> 0 .. 5], agents \in BOOLEAN :
        <<>> = Todo(add, left, agents) /\ InWork(w, left, agents)
  BY <1>1, <1>2 DEF MInv, Sound, WorkingOf
<1>4. agents /\ \A t \in Tables : left[t] = 0
  BY <1>3, TodoFirst
<1>5. db.series \subseteq w.series /\ w.agents /\ \A t \in Tables : Stage(w, t, 0)
  BY <1>3, <1>4 DEF InWork
<1>6. ASSUME NEW t \in Tables
      PROVE  /\ w.fresh[t] = Absent
             /\ Normalised(w.table[t].rows) = expected[t]
             /\ w.table[t].form = "new" => \A r \in w.table[t].rows : r.key \in w.series
             /\ w.table[t].form \in {"none", "new"}
             /\ w.table[t].form = "none" => w.table[t].rows = {}
             /\ db.table[t].form = "new" => w.table[t].form = "new"
  <2>1. Stage(w, t, 0)
    BY <1>5
  <2>2. CASE Settled(t)
    <3>1. w.table[t] = db.table[t] /\ w.fresh[t] = Absent
      BY <2>1, <2>2 DEF Stage
    <3>2. /\ Normalised(db.table[t].rows) = expected[t]
          /\ db.table[t].form = "new" => \A r \in db.table[t].rows : r.key \in db.series
          /\ db.table[t].form = "none" => db.table[t].rows = {}
      BY DEF MInv, Kept, MeasurementsKept
    <3> QED  BY <1>5, <2>2, <3>1, <3>2 DEF Settled
  <2>3. CASE ~Settled(t)
    <3>1. Built(w, w.table[t], t) /\ w.fresh[t] = Absent
      BY <2>1, <2>3 DEF Stage
    <3> QED  BY <2>3, <3>1 DEF Built, Settled
  <2> QED  BY <2>2, <2>3
<1>7. Kept'
  BY <1>1, <1>2, <1>6 DEF Kept, MeasurementsKept
<1>8. /\ \A t \in Tables : Settled(t)'
      /\ \A t \in Tables : db.table[t].form = "new" => db'.table[t].form = "new"
      /\ db.agents => db'.agents
  BY <1>2, <1>5, <1>6 DEF Settled
<1>9. InspectedOf(After(p))' /\ StartingOf(p, After(p))' /\ After(p) \in Process /\ After(p).at # "tx"
  <2>1. CASE p = "server"
    <3>1. Initialised(0)'
      BY <1>8 DEF Initialised
    <3> QED  BY <2>1, <3>1, ProcessStates DEF InspectedOf, StartingOf
  <2>2. CASE p = "tool"
    BY <2>2, ProcessStates DEF InspectedOf, StartingOf
  <2> QED  BY <2>1, <2>2 DEF Processes
<1>10. holder = p
  BY <1>1 DEF MInv, Locked, At
<1>11. /\ db' \in Database /\ expected' \in [Tables -> SUBSET Rows]
       /\ faults' \in Nat /\ saves' \in Nat
  BY <1>1, <1>2 DEF MTypeOK
<1> QED  BY <1>1, <1>7, <1>8, <1>9, <1>10, <1>11, GrowingStep

\* While a process creates what is missing, no transaction is open.
LEMMA CreatesFacts ==
    ASSUME MTypeOK, MInv, NEW x \in Statements, Creates(x)
    PROVE  \E k \in 0 .. 2, to \in Process :
              /\ Creation(k) # <<>> /\ Head(Creation(k)) = x /\ Initialised(k)
              /\ to.at = "create" /\ to.todo = Creation(k + 1)
              /\ proc' = [proc EXCEPT !["server"] = to]
              /\ holder = "none" /\ holder' = "none" /\ work' = {}
              /\ UNCHANGED <<expected, faults, saves>>
<1> DEFINE todo == proc["server"].todo
           to == [proc["server"] EXCEPT !.todo = Tail(todo)]
<1>1. /\ proc["server"].at = "create" /\ todo # <<>> /\ Head(todo) = x /\ holder = "none"
      /\ proc' = [proc EXCEPT !["server"] = to] /\ UNCHANGED <<work, holder, expected, faults, saves>>
  BY DEF Creates, Moves, At
<1>2. "server" \in Processes
  BY DEF Processes
<1>3. PICK k \in 0 .. 3 : todo = Creation(k) /\ Initialised(k)
  BY <1>1, <1>2 DEF MInv, Sound, StartingOf
<1>4. k \in 0 .. 2 /\ Tail(todo) = Creation(k + 1)
  BY <1>1, <1>3 DEF Creation
<1>5. to \in Process /\ to.at = "create" /\ to.todo = Tail(todo)
  <2>1. proc["server"] \in Process
    BY <1>2 DEF MTypeOK
  <2>2. Tail(todo) \in Seq(Statements)
    BY <1>1, <2>1 DEF Process
  <2> QED  BY <1>1, <2>1, <2>2 DEF Process
<1>6. work = {}
  BY <1>1 DEF MInv, Locked
<1> HIDE DEF to
<1> QED  BY <1>1, <1>3, <1>4, <1>5, <1>6

LEMMA CreateTableSound ==
    ASSUME MTypeOK, MInv, NEW t \in Tables, CreateTable(t)
    PROVE  MTypeOK' /\ MInv'
<1> DEFINE table == IF db.table[t] = Absent THEN Created ELSE db.table[t]
<1>1. <<"create", t>> \in Statements /\ Creates(<<"create", t>>) /\ "server" \in Processes
  BY DEF CreateTable, Statements, Kinds, Processes
<1>2. PICK k \in 0 .. 2, to \in Process :
        /\ Creation(k) # <<>> /\ Head(Creation(k)) = <<"create", t>> /\ Initialised(k)
        /\ to.at = "create" /\ to.todo = Creation(k + 1)
        /\ proc' = [proc EXCEPT !["server"] = to]
        /\ holder = "none" /\ holder' = "none" /\ work' = {}
        /\ UNCHANGED <<expected, faults, saves>>
  BY <1>1, CreatesFacts
<1>3. (k = 0 /\ t = "results") \/ (k = 1 /\ t = "rollups")
  BY <1>2 DEF Creation, Tables
<1>4. db' = [db EXCEPT !.table[t] = table]
  BY DEF CreateTable
<1>5. table \in Table /\ db \in Database
  BY DEF MTypeOK, Database, Table, Created, Forms
<1>6. /\ \A u \in Tables : u # t => db'.table[u] = db.table[u]
      /\ db'.table[t] = table
      /\ db'.fresh = db.fresh /\ db'.series = db.series /\ db'.agents = db.agents
      /\ db' \in Database
  BY <1>4, <1>5 DEF Database
<1>7. /\ db.table[t].form \in {"none", "new"}
      /\ db.table[t].form = "none" => db.table[t].rows = {}
      /\ Normalised(db.table[t].rows) = expected[t]
      /\ db.table[t].form = "new" => \A r \in db.table[t].rows : r.key \in db.series
  BY <1>2 DEF Initialised, Settled, MInv, Kept, MeasurementsKept
<1>8. table.form = "new" /\ table.rows = db.table[t].rows
  <2>1. CASE db.table[t].form = "none"
    <3>1. db.table[t] = Absent
      BY <1>5, <1>7, <2>1 DEF Absent, Database, Table
    <3> QED  BY <3>1 DEF Absent, Created
  <2>2. CASE db.table[t].form = "new"
    BY <2>2 DEF Absent
  <2> QED  BY <1>7, <2>1, <2>2
<1> HIDE DEF table
<1>9. Kept'
  <2>1. ASSUME NEW u \in Tables
        PROVE  /\ Normalised(db'.table[u].rows) = expected'[u]
               /\ db'.table[u].form = "new" => \A r \in db'.table[u].rows : r.key \in db'.series
               /\ db'.fresh[u] = Absent
               /\ db'.table[u].form = "none" => db'.table[u].rows = {}
    <3>1. CASE u = t
      BY <1>2, <1>6, <1>7, <1>8, <3>1 DEF MInv, Kept
    <3>2. CASE u # t
      BY <1>2, <1>6, <3>2 DEF MInv, Kept, MeasurementsKept
    <3> QED  BY <3>1, <3>2
  <2> QED  BY <2>1 DEF Kept, MeasurementsKept
<1>10. /\ \A u \in Tables : Settled(u) => Settled(u)'
       /\ \A u \in Tables : db.table[u].form = "new" => db'.table[u].form = "new"
       /\ db.agents => db'.agents
  BY <1>6, <1>8 DEF Settled
<1>11. Initialised(k + 1)'
  <2>1. \A u \in Tables : Settled(u)'
    BY <1>2, <1>10 DEF Initialised
  <2>2. db'.table[t].form = "new" /\ "results" \in Tables
    BY <1>6, <1>8 DEF Tables
  <2> QED  BY <1>2, <1>3, <1>10, <2>1, <2>2 DEF Initialised
<1>12. InspectedOf(to)' /\ StartingOf("server", to)'
  <2>1. k + 1 \in 0 .. 3
    OBVIOUS
  <2> QED  BY <1>2, <1>11, <2>1 DEF InspectedOf, StartingOf
<1>13. /\ to.at # "tx" /\ expected' \in [Tables -> SUBSET Rows]
       /\ faults' \in Nat /\ saves' \in Nat
  BY <1>2 DEF MTypeOK
<1> QED  BY <1>1, <1>2, <1>6, <1>9, <1>10, <1>12, <1>13, GrowingStep

LEMMA CreateStatusesSound ==
    ASSUME MTypeOK, MInv, CreateStatuses
    PROVE  MTypeOK' /\ MInv'
<1>1. <<"agents", "results">> \in Statements /\ Creates(<<"agents", "results">>) /\ "server" \in Processes
  BY DEF CreateStatuses, Statements, Kinds, Tables, Processes
<1>2. PICK k \in 0 .. 2, to \in Process :
        /\ Creation(k) # <<>> /\ Head(Creation(k)) = <<"agents", "results">> /\ Initialised(k)
        /\ to.at = "create" /\ to.todo = Creation(k + 1)
        /\ proc' = [proc EXCEPT !["server"] = to]
        /\ holder = "none" /\ holder' = "none" /\ work' = {}
        /\ UNCHANGED <<expected, faults, saves>>
  BY <1>1, CreatesFacts
<1>3. k = 2
  BY <1>2 DEF Creation
<1>4. /\ db'.table = db.table /\ db'.fresh = db.fresh /\ db'.series = db.series /\ db'.agents = TRUE
      /\ db' \in Database
  BY DEF CreateStatuses, MTypeOK, Database
<1>5. Kept'
  BY <1>2, <1>4 DEF MInv, Kept, MeasurementsKept
<1>6. /\ \A u \in Tables : Settled(u) => Settled(u)'
      /\ \A u \in Tables : db.table[u].form = "new" => db'.table[u].form = "new"
      /\ db.agents => db'.agents
  BY <1>4 DEF Settled
<1>7. Initialised(3)'
  BY <1>2, <1>3, <1>4 DEF Initialised, Settled
<1>8. InspectedOf(to)' /\ StartingOf("server", to)'
  BY <1>2, <1>3, <1>7 DEF InspectedOf, StartingOf
<1>9. /\ to.at # "tx" /\ expected' \in [Tables -> SUBSET Rows]
      /\ faults' \in Nat /\ saves' \in Nat
  BY <1>2 DEF MTypeOK
<1> QED  BY <1>1, <1>2, <1>4, <1>5, <1>6, <1>8, <1>9, GrowingStep

LEMMA SaveSound ==
    ASSUME MTypeOK, MInv, Save
    PROVE  MTypeOK' /\ MInv'
<1> DEFINE row == [id |-> 10 + saves, key |-> NewKey]
           rows == db.table["results"].rows \cup {row}
<1>1. /\ proc["server"].at = "serving" /\ holder = "none" /\ saves' = saves + 1
      /\ UNCHANGED <<work, holder, proc, faults>>
      /\ db' = [db EXCEPT !.series = db.series \cup {NewKey}, !.table["results"].rows = rows]
      /\ expected' = [expected EXCEPT !["results"] = expected["results"] \cup {row}]
  BY DEF Save, At
<1>2. "server" \in Processes /\ "results" \in Tables
  BY DEF Processes, Tables
<1>3. Initialised(3)
  BY <1>1, <1>2 DEF MInv, Sound, StartingOf
<1>4. db.table["results"].form = "new"
  BY <1>3 DEF Initialised
<1>5. row \in Rows /\ row.key = NewKey /\ NewKey.ip # "null" /\ NewKey \in Keys
  BY MigrationAssumption DEF MigrationAssumption, MTypeOK, Rows
<1>6. db.table["results"].rows \in SUBSET Rows /\ db \in Database
  BY <1>2 DEF MTypeOK, Database, Table
<1>7. Normalised(rows) = Normalised(db.table["results"].rows) \cup {row} /\ rows \in SUBSET Rows
  BY <1>5, <1>6, NormalisedAdd
<1> HIDE DEF row, rows
<1>8. [db.table["results"] EXCEPT !.rows = rows] = [form |-> "new", rows |-> rows]
  BY <1>2, <1>4, <1>6 DEF Database, Table
<1>9. [form |-> "new", rows |-> rows] \in Table
  BY <1>7 DEF Table, Forms
<1>10. /\ db'.table["results"] = [form |-> "new", rows |-> rows]
       /\ \A u \in Tables : u # "results" => db'.table[u] = db.table[u]
       /\ db'.fresh = db.fresh /\ db'.series = db.series \cup {NewKey} /\ db'.agents = db.agents
       /\ db' \in Database
  BY <1>1, <1>2, <1>5, <1>6, <1>8, <1>9 DEF Database
<1>11. /\ expected'["results"] = expected["results"] \cup {row}
       /\ \A u \in Tables : u # "results" => expected'[u] = expected[u]
       /\ expected' \in [Tables -> SUBSET Rows]
  BY <1>1, <1>2, <1>5 DEF MTypeOK
<1>12. Kept'
  <2>1. ASSUME NEW u \in Tables
        PROVE  /\ Normalised(db'.table[u].rows) = expected'[u]
               /\ db'.table[u].form = "new" => \A r \in db'.table[u].rows : r.key \in db'.series
               /\ db'.fresh[u] = Absent
               /\ db'.table[u].form = "none" => db'.table[u].rows = {}
    <3>1. /\ Normalised(db.table[u].rows) = expected[u] /\ db.fresh[u] = Absent
          /\ db.table[u].form = "new" => \A r \in db.table[u].rows : r.key \in db.series
          /\ db.table[u].form = "none" => db.table[u].rows = {}
      BY DEF MInv, Kept, MeasurementsKept
    <3>2. CASE u = "results"
      <4>1. Normalised(rows) = expected'[u]
        BY <1>7, <1>11, <3>1, <3>2
      <4>2. \A r \in rows : r.key \in db.series \cup {NewKey}
        BY <1>4, <1>5, <3>1, <3>2 DEF rows
      <4> QED  BY <1>10, <3>1, <3>2, <4>1, <4>2
    <3>3. CASE u # "results"
      BY <1>10, <1>11, <3>1, <3>3
    <3> QED  BY <3>2, <3>3
  <2> QED  BY <2>1 DEF Kept, MeasurementsKept
<1>13. /\ \A u \in Tables : Settled(u) => Settled(u)'
       /\ \A u \in Tables : db.table[u].form = "new" => db'.table[u].form = "new"
       /\ db.agents => db'.agents
  BY <1>10 DEF Settled
<1>14. Initialised(3)'
  BY <1>2, <1>3, <1>13 DEF Initialised, Tables
<1>15. PICK to \in Process : to = proc["server"]
  BY <1>2 DEF MTypeOK
<1>16. InspectedOf(to)' /\ StartingOf("server", to)' /\ to.at # "tx"
  BY <1>1, <1>14, <1>15 DEF InspectedOf, StartingOf
<1>17. proc' = [proc EXCEPT !["server"] = to] /\ holder' = "none" /\ work' = {}
  BY <1>1, <1>2, <1>15 DEF MTypeOK, MInv, Locked
<1>18. saves' \in Nat /\ faults' \in Nat
  BY <1>1 DEF MTypeOK
<1> QED  BY <1>1, <1>2, <1>10, <1>11, <1>12, <1>13, <1>16, <1>17, <1>18, GrowingStep

LEMMA StutterSound ==
    ASSUME MTypeOK, MInv, UNCHANGED mvars
    PROVE  MTypeOK' /\ MInv'
<1>1. UNCHANGED <<db, work, holder, proc, expected, faults, saves>>
  BY DEF mvars
<1>2. MTypeOK' /\ Locked' /\ Kept'
  BY <1>1 DEF MTypeOK, MInv, Locked, Kept, MeasurementsKept, At
<1>3. ASSUME NEW p \in Processes PROVE Sound(p)'
  <2>1. Sound(p)
    BY DEF MInv
  <2>2. /\ InspectedOf(proc[p])' <=> InspectedOf(proc[p])
        /\ StartingOf(p, proc[p])' <=> StartingOf(p, proc[p])
    BY <1>1 DEF InspectedOf, StartingOf, Initialised, Settled
  <2>3. WorkingOf(proc[p]) => WorkingOf(proc[p])'
    BY <1>1 DEF WorkingOf, InWork, Stage, Untouched, Filled, Built, Settled
  <2> QED  BY <1>1, <2>1, <2>2, <2>3 DEF Sound, At
<1> QED  BY <1>2, <1>3 DEF MInv

LEMMA StepSound ==
    ASSUME MTypeOK, MInv, MNext
    PROVE  MTypeOK' /\ MInv'
<1>1. ASSUME NEW p \in Processes, MigrationStep(p) PROVE MTypeOK' /\ MInv'
  <2>1. CASE Inspect(p)
    BY <2>1, CheckAgentsSound, CheckTableSound, CurrentSound, BeginSound DEF Inspect
  <2>2. CASE Execute(p)
    BY <2>2, CommitSound, StatementSound
  <2> QED  BY <1>1, <2>1, <2>2 DEF MigrationStep
<1>2. CASE Initialise
  BY <1>2, CreateTableSound, CreateStatusesSound DEF Initialise
<1> QED
  BY <1>1, <1>2, OpenSound, EndsSound, ServesSound, SaveSound, StutterSound DEF MNext
----------------------------------------------------------------------------
(* The theorems. *)

LEMMA SoundAlways == SSpec => [](MTypeOK /\ MInv)
<1>1. MTypeOK /\ MInv /\ [SNext]_svars => (MTypeOK /\ MInv)'
  BY Steps, StepSound
<1> QED  BY <1>1, InitSound, PTL DEF SSpec

\* The variables of the migration keep their types, whatever the processes do.
THEOREM TypeCorrect == SSpec => []MTypeOK
  BY SoundAlways, PTL

\* MigrateSQLiteDB loses and repeats no measurement, for every database in a former or the
\* present schema, however many crashes there are and whenever the tool runs beside the
\* supervisor.
THEOREM MeasurementsKeptAlways == SSpec => []MeasurementsKept
<1>1. MInv => MeasurementsKept
  BY DEF MInv, Kept
<1> QED  BY <1>1, SoundAlways, PTL

\* A supervisor that serves has the present schema, whoever created it, and nothing that
\* runs beside it takes it away.
THEOREM ServesCurrentSchemaAlways == SSpec => []ServesCurrentSchema
<1>1. ASSUME MTypeOK, MInv PROVE ServesCurrentSchema
  <2>1. SUFFICES ASSUME proc["server"].at = "serving"
                 PROVE  db.agents /\ \A t \in Tables : db.table[t].form = "new"
    BY DEF ServesCurrentSchema, At
  <2>2. Initialised(3)
    BY <1>1, <2>1 DEF MInv, Sound, StartingOf, Processes
  <2> QED  BY <2>2 DEF Initialised, Tables
<1> QED  BY <1>1, SoundAlways, PTL
=============================================================================
