------------------------- MODULE SeriesStore_proofs -------------------------
(***************************************************************************)
(* Proofs about the SQLite tables and the series cache.                    *)
(***************************************************************************)
EXTENDS SeriesStore, SequenceTheorems, TLAPS

\* No row without its series, and no key twice: TablesConsistent, of any tables.
Good(T) ==
    /\ \A row \in T.rows : T.series[row.sid] # NoKey
    /\ \A i, j \in Ids : T.series[i] = T.series[j] /\ T.series[i] # NoKey => i = j

\* T2 is T with the series key at id, found there or put there.
Upserted(T, T2, id, key) ==
    /\ T2 \in Tables
    /\ Good(T) => Good(T2)
    /\ T2.rows = T.rows
    /\ T2.statuses = T.statuses
    /\ T2.series[id] = key
    /\ \A i \in Ids : T.series[i] # NoKey => T2.series[i] = T.series[i]
    /\ \A i \in Ids : T2.series[i] # T.series[i] => T2.series[i] = key
----------------------------------------------------------------------------
(* What the steps do to tables. *)

\* The upsert of seriesID keeps the tables consistent and every series where it is.
LEMMA UpsertTables ==
    ASSUME NEW T \in Tables, NEW id \in Ids, NEW key \in Series,
           IF \E i \in Ids : T.series[i] = key THEN T.series[id] = key ELSE NewId(T.series, id)
    PROVE  Upserted(T, [T EXCEPT !.series[id] = key], id, key)
<1> DEFINE T2 == [T EXCEPT !.series[id] = key]
<1> USE StoreAssumption
<1>1. T.series \in [Ids -> Series \cup {NoKey}]
  BY DEF Tables
<1>2. T2.rows = T.rows /\ T2.statuses = T.statuses
  BY DEF Tables
<1>3. T2.series = [T.series EXCEPT ![id] = key]
  BY DEF Tables
<1>4. T2 \in Tables
  BY <1>1, <1>3 DEF Tables
<1>5. T2.series[id] = key
  BY <1>1, <1>3
<1>6. \A i \in Ids : i # id => T2.series[i] = T.series[i]
  BY <1>1, <1>3
<1>7. T.series[id] = key \/ (T.series[id] = NoKey /\ \A i \in Ids : T.series[i] # key)
  <2>1. CASE \E i \in Ids : T.series[i] = key
    BY <2>1
  <2>2. CASE ~\E i \in Ids : T.series[i] = key
    BY <2>2 DEF NewId, Ids
  <2> QED  BY <2>1, <2>2
<1>8. \A i \in Ids : T.series[i] # NoKey => T2.series[i] = T.series[i]
  BY <1>5, <1>6, <1>7
<1>9. \A i \in Ids : T2.series[i] # T.series[i] => T2.series[i] = key
  BY <1>5, <1>6
<1>10. ASSUME Good(T) PROVE Good(T2)
  <2>1. \A row \in T2.rows : T2.series[row.sid] # NoKey
    BY <1>2, <1>8, <1>10 DEF Good, Tables
  <2>2. ASSUME NEW i \in Ids, NEW j \in Ids, T2.series[i] = T2.series[j], T2.series[i] # NoKey
        PROVE  i = j
    BY <1>5, <1>6, <1>7, <1>10, <2>2 DEF Good
  <2> QED  BY <2>1, <2>2 DEF Good
<1> QED  BY <1>2, <1>4, <1>5, <1>8, <1>9, <1>10 DEF Upserted

\* The insert of a result row whose series exists keeps the tables consistent.
LEMMA InsertTables ==
    ASSUME NEW T \in Tables, NEW id \in Ids, NEW key \in Series, T.series[id] # NoKey,
           NEW T2, T2 = [T EXCEPT !.rows = @ \cup {[sid |-> id, of |-> key]}]
    PROVE  /\ T2 \in Tables
           /\ Good(T) => Good(T2)
           /\ T2.series = T.series /\ T2.statuses = T.statuses
           /\ T2.rows = T.rows \cup {[sid |-> id, of |-> key]}
<1>1. /\ T2.series = T.series /\ T2.statuses = T.statuses
      /\ T2.rows = T.rows \cup {[sid |-> id, of |-> key]}
  BY DEF Tables
<1>2. T2 \in Tables
  BY DEF Tables
<1>3. ASSUME Good(T) PROVE Good(T2)
  BY <1>1, <1>3 DEF Good
<1> QED  BY <1>1, <1>2, <1>3

\* DeleteAgent's statements leave consistent tables: the rows go before their series.
LEMMA WithoutTables ==
    ASSUME NEW T \in Tables, NEW agent \in Agents, Good(T)
    PROVE  /\ Without(T, agent) \in Tables
           /\ Good(Without(T, agent))
           /\ \A i \in Ids : \/ Without(T, agent).series[i] = NoKey
                             \/ /\ Without(T, agent).series[i] = T.series[i]
                                /\ AgentOf[T.series[i]] # agent
           /\ Without(T, agent).rows = {row \in T.rows : Owner(T, row) # agent}
           /\ Without(T, agent).statuses = T.statuses \ {agent}
           /\ \A row \in Without(T, agent).rows :
                Without(T, agent).series[row.sid] = T.series[row.sid]
<1> DEFINE T2 == Without(T, agent)
<1>1. /\ T2.series = [i \in Ids |->
                        IF T.series[i] # NoKey /\ AgentOf[T.series[i]] = agent
                        THEN NoKey ELSE T.series[i]]
      /\ T2.rows = {row \in T.rows : Owner(T, row) # agent}
      /\ T2.statuses = T.statuses \ {agent}
      /\ T2 = [series |-> T2.series, rows |-> T2.rows, statuses |-> T2.statuses]
  BY DEF Without
<1>2. T2.series \in [Ids -> Series \cup {NoKey}]
  BY <1>1 DEF Tables
<1>3. T2 \in Tables
  <2>1. T2.rows \subseteq T.rows /\ T2.statuses \subseteq T.statuses
    BY <1>1
  <2> QED  BY <1>1, <1>2, <2>1 DEF Tables
<1>4. \A i \in Ids : T2.series[i] = NoKey \/ (T2.series[i] = T.series[i] /\ AgentOf[T.series[i]] # agent)
  BY <1>1
<1>5. \A row \in T2.rows : row \in T.rows /\ row.sid \in Ids /\ AgentOf[T.series[row.sid]] # agent
  BY <1>1 DEF Owner, Tables
<1>6. \A row \in T2.rows : T2.series[row.sid] = T.series[row.sid]
  BY <1>1, <1>5
<1>7. Good(T2)
  BY <1>4, <1>5, <1>6 DEF Good
<1> QED  BY <1>1, <1>3, <1>4, <1>6, <1>7
----------------------------------------------------------------------------
(* Types. *)

LEMMA EmptyTables ==
    /\ NoTables \in Tables /\ Good(NoTables)
    /\ NoTables.rows = {} /\ NoTables.statuses = {}
    /\ \A i \in Ids : NoTables.series[i] = NoKey
BY DEF NoTables, Tables, Good

\* A heartbeat changes the statuses only.
LEMMA MoreListed ==
    ASSUME NEW T \in Tables, NEW names \in SUBSET Agents
    PROVE  /\ [T EXCEPT !.statuses = @ \cup names] \in Tables
           /\ [T EXCEPT !.statuses = @ \cup names].series = T.series
           /\ [T EXCEPT !.statuses = @ \cup names].rows = T.rows
           /\ [T EXCEPT !.statuses = @ \cup names].statuses = T.statuses \cup names
BY DEF Tables

LEMMA BaseTables ==
    ASSUME TypeOK, NEW r \in Reporters
    PROVE  Base(r) \in Tables
BY DEF TypeOK, Base

\* The result a reporter is working on.
LEMMA AtHand ==
    ASSUME TypeOK, NEW r \in Reporters, pc[r] \in {"lookup", "upsert", "insert"}
    PROVE  /\ batch[r] \in Seq(Series) /\ batch[r] # <<>>
           /\ Head(batch[r]) \in Series
           /\ Tail(batch[r]) \in Seq(Series)
           /\ AgentOf[Head(batch[r])] \in Agents
<1>1. batch[r] \in Seq(Series) /\ batch[r] # <<>>
  BY DEF TypeOK
<1>2. Head(batch[r]) \in Series /\ Tail(batch[r]) \in Seq(Series)
  BY <1>1, HeadTailProperties
<1> QED  BY <1>1, <1>2, StoreAssumption DEF StoreAssumption

LEMMA BatchesAreLists ==
    ASSUME NEW results \in Batches
    PROVE  results \in Seq(Series) /\ results # <<>>
<1>1. PICK n \in 1 .. MaxBatch : results \in [1 .. n -> Series]
  BY DEF Batches
<1>2. n \in Nat /\ n >= 1
  BY StoreAssumption DEF StoreAssumption
<1>3. results \in Seq(Series) /\ Len(results) = n
  BY <1>1, <1>2
<1>4. results # <<>>
  BY <1>2, <1>3
<1> QED  BY <1>3, <1>4

LEMMA TypeInit == Init => TypeOK
<1> SUFFICES ASSUME Init PROVE TypeOK
  OBVIOUS
<1>1. <<>> \in Seq(Series)
  OBVIOUS
<1> QED
  BY <1>1, EmptyTables, StoreAssumption DEF Init, TypeOK, ReportStages, DeleteStages, StoreAssumption

\* The return of a reporter, whatever else its step does.
LEMMA ReturnTypes ==
    ASSUME TypeOK, NEW r \in Reporters, Return(r)
    PROVE  /\ pc' \in [Reporters \cup Deleters -> ReportStages \cup DeleteStages]
           /\ \A q \in Reporters : pc'[q] \in ReportStages
           /\ \A d \in Deleters : pc'[d] = pc[d]
           /\ batch' \in [Reporters -> Seq(Series)]
           /\ reported' \in [Reporters -> SUBSET Agents]
           /\ sid' \in [Reporters -> Ids \cup {0}]
           /\ pc'[r] = "idle"
           /\ \A q \in Reporters \ {r} : /\ pc'[q] = pc[q] /\ batch'[q] = batch[q]
                                         /\ sid'[q] = sid[q] /\ reported'[q] = reported[q]
<1>1. <<>> \in Seq(Series)
  OBVIOUS
<1> QED
  BY <1>1, StoreAssumption DEF TypeOK, Return, ReportStages, StoreAssumption

LEMMA RollbackTypes ==
    ASSUME TypeOK, NEW r \in Reporters, Rollback(r), faults' \in Nat
    PROVE  TypeOK'
<1>1. Return(r)
  BY DEF Rollback
<1>2. /\ pc' \in [Reporters \cup Deleters -> ReportStages \cup DeleteStages]
      /\ \A q \in Reporters : pc'[q] \in ReportStages
      /\ \A d \in Deleters : pc'[d] = pc[d]
      /\ batch' \in [Reporters -> Seq(Series)]
      /\ reported' \in [Reporters -> SUBSET Agents]
      /\ sid' \in [Reporters -> Ids \cup {0}]
      /\ pc'[r] = "idle"
      /\ \A q \in Reporters \ {r} : pc'[q] = pc[q] /\ batch'[q] = batch[q] /\ sid'[q] = sid[q]
  BY <1>1, ReturnTypes
<1>3. work' \in Tables /\ writer' \in Reporters \cup {NoOne} /\ disturbed' \in BOOLEAN
  BY EmptyTables DEF Rollback, TypeOK
<1>4. writer' # NoOne => writer' = writer /\ writer # r
  BY DEF Rollback
<1>5. writer' # NoOne => pc'[writer'] # "idle"
  BY <1>2, <1>3, <1>4 DEF TypeOK
<1>6. \A q \in Reporters : pc'[q] \in {"lookup", "upsert", "insert"} => batch'[q] # <<>>
  BY <1>2 DEF TypeOK
<1>7. \A q \in Reporters : pc'[q] = "insert" => sid'[q] \in Ids
  BY <1>2 DEF TypeOK
<1>8. /\ db' = db /\ cache' = cache /\ target' = target /\ todo' = todo
  BY DEF Rollback, deleteVars
<1>9. \A d \in Deleters : pc'[d] \in DeleteStages
  BY <1>2 DEF TypeOK
<1> QED
  BY <1>2, <1>3, <1>5, <1>6, <1>7, <1>8, <1>9 DEF TypeOK
LEMMA TypeStep ==
    ASSUME TypeOK, [Next]_vars
    PROVE  TypeOK'
<1> USE StoreAssumption DEF ReportStages, DeleteStages, reportVars, deleteVars
<1>1. ASSUME NEW r \in Reporters, NEW results \in Batches, Begin(r, results) PROVE TypeOK'
  <2>1. results \in Seq(Series) /\ results # <<>>
    BY BatchesAreLists
  <2>2. r \notin Deleters
    BY DEF StoreAssumption
  <2> QED  BY <1>1, <2>1, <2>2 DEF Begin, TypeOK
<1>2. ASSUME NEW r \in Reporters, LookupHit(r) PROVE TypeOK'
  <2>1. Head(batch[r]) \in Series /\ r \notin Deleters
    BY <1>2, AtHand DEF LookupHit
  <2>2. cache[Head(batch[r])] \in Ids
    BY <1>2, <2>1 DEF TypeOK, LookupHit
  <2> QED  BY <1>2, <2>1, <2>2 DEF LookupHit, TypeOK
<1>3. ASSUME NEW r \in Reporters, LookupMiss(r) PROVE TypeOK'
  <2>1. r \notin Deleters
    OBVIOUS
  <2> QED  BY <1>3, <2>1 DEF LookupMiss, TypeOK
<1>4. ASSUME NEW r \in Reporters, Upsert(r) PROVE TypeOK'
  <2> DEFINE key == Head(batch[r])
  <2>1. key \in Series /\ r \notin Deleters /\ r # NoOne
    BY <1>4, AtHand DEF Upsert
  <2>2. PICK id \in Ids :
           /\ IF \E i \in Ids : Base(r).series[i] = key
              THEN Base(r).series[id] = key ELSE NewId(Base(r).series, id)
           /\ work' = [Base(r) EXCEPT !.series[id] = key]
           /\ cache' = [cache EXCEPT ![key] = id]
           /\ sid' = [sid EXCEPT ![r] = id]
    BY <1>4 DEF Upsert
  <2>3. work' \in Tables
    BY <2>1, <2>2, BaseTables, UpsertTables DEF Upserted
  <2>4. cache' \in [Series -> Ids \cup {0}]
    BY <2>1, <2>2 DEF TypeOK
  <2>5. sid' \in [Reporters -> Ids \cup {0}] /\ sid'[r] \in Ids
        /\ \A q \in Reporters \ {r} : sid'[q] = sid[q]
    BY <2>2 DEF TypeOK
  <2> HIDE DEF key
  <2> QED  BY <1>4, <2>1, <2>3, <2>4, <2>5 DEF Upsert, TypeOK
<1>5. ASSUME NEW r \in Reporters, Insert(r) PROVE TypeOK'
  <2> DEFINE key == Head(batch[r])
  <2>1. key \in Series /\ Tail(batch[r]) \in Seq(Series) /\ AgentOf[key] \in Agents
        /\ sid[r] \in Ids /\ r \notin Deleters /\ r # NoOne
    BY <1>5, AtHand DEF Insert, TypeOK
  <2>2. work' \in Tables
    BY <1>5, <2>1, BaseTables, InsertTables DEF Insert
  <2>3. reported' \in [Reporters -> SUBSET Agents]
    BY <1>5, <2>1 DEF Insert, TypeOK
  <2>4. /\ batch' \in [Reporters -> Seq(Series)] /\ batch'[r] = Tail(batch[r])
        /\ \A q \in Reporters \ {r} : batch'[q] = batch[q]
    BY <1>5, <2>1 DEF Insert, TypeOK
  <2>5. pc' = [pc EXCEPT ![r] = IF Tail(batch[r]) = <<>> THEN "commit" ELSE "lookup"]
    BY <1>5 DEF Insert
  <2>6. /\ pc' \in [Reporters \cup Deleters -> ReportStages \cup DeleteStages]
        /\ pc'[r] \in {"commit", "lookup"} /\ (pc'[r] = "lookup" => batch'[r] # <<>>)
        /\ \A q \in (Reporters \cup Deleters) \ {r} : pc'[q] = pc[q]
    BY <2>4, <2>5 DEF TypeOK
  <2>7. /\ db' = db /\ cache' = cache /\ sid' = sid /\ target' = target /\ todo' = todo
        /\ disturbed' = disturbed /\ faults' = faults /\ writer' = r
    BY <1>5 DEF Insert
  <2> HIDE DEF key
  <2> QED  BY <2>1, <2>2, <2>3, <2>4, <2>6, <2>7 DEF TypeOK
<1>6. ASSUME NEW r \in Reporters, Commit(r) PROVE TypeOK'
  <2>1. db' \in Tables
    <3>1. reported[r] \subseteq Agents
      BY DEF TypeOK
    <3>2. {Trimmed[agent] : agent \in reported[r]} \subseteq Agents
      BY <3>1
    <3>3. db' = [work EXCEPT !.statuses = @ \cup {Trimmed[agent] : agent \in reported[r]}]
      BY <1>6 DEF Commit
    <3>4. work \in Tables
      BY DEF TypeOK
    <3> QED  BY <3>2, <3>3, <3>4, MoreListed
  <2>2. work' \in Tables /\ writer' = NoOne
    BY <1>6, EmptyTables DEF Commit
  <2>3. /\ cache' = cache /\ target' = target /\ todo' = todo
        /\ disturbed' = disturbed /\ faults' = faults
    BY <1>6 DEF Commit
  <2>4. /\ pc' \in [Reporters \cup Deleters -> ReportStages \cup DeleteStages]
        /\ \A q \in Reporters : pc'[q] \in ReportStages
        /\ \A d \in Deleters : pc'[d] = pc[d]
        /\ batch' \in [Reporters -> Seq(Series)]
        /\ reported' \in [Reporters -> SUBSET Agents]
        /\ sid' \in [Reporters -> Ids \cup {0}]
        /\ pc'[r] = "idle"
        /\ \A q \in Reporters \ {r} : pc'[q] = pc[q] /\ batch'[q] = batch[q] /\ sid'[q] = sid[q]
    BY <1>6, ReturnTypes DEF Commit
  <2>5. \A q \in Reporters : /\ pc'[q] \in {"lookup", "upsert", "insert"} => batch'[q] # <<>>
                             /\ pc'[q] = "insert" => sid'[q] \in Ids
    <3> SUFFICES ASSUME NEW q \in Reporters
                 PROVE  /\ pc'[q] \in {"lookup", "upsert", "insert"} => batch'[q] # <<>>
                        /\ pc'[q] = "insert" => sid'[q] \in Ids
      OBVIOUS
    <3>1. /\ pc[q] \in {"lookup", "upsert", "insert"} => batch[q] # <<>>
          /\ pc[q] = "insert" => sid[q] \in Ids
      BY DEF TypeOK
    <3>2. CASE q = r
      BY <2>4, <3>2
    <3>3. CASE q # r
      <4>1. pc'[q] = pc[q] /\ batch'[q] = batch[q] /\ sid'[q] = sid[q]
        BY <2>4, <3>3
      <4> QED  BY <3>1, <4>1
    <3> QED  BY <3>2, <3>3
  <2>6. \A d \in Deleters : pc'[d] \in DeleteStages /\ (pc'[d] # "idle" => target'[d] \in Agents)
    BY <2>3, <2>4 DEF TypeOK
  <2> QED  BY <2>1, <2>2, <2>3, <2>4, <2>5, <2>6 DEF TypeOK
<1>7. ASSUME NEW r \in Reporters, InsertFails(r) \/ StoreFails(r) \/ OutOfIds(r) PROVE TypeOK'
  <2>1. Rollback(r) /\ faults' \in Nat
    BY <1>7 DEF InsertFails, StoreFails, OutOfIds, Fault, TypeOK
  <2> QED  BY <2>1, RollbackTypes
<1>8. ASSUME NEW d \in Deleters, NEW agent \in Agents, BeginDelete(d, agent) PROVE TypeOK'
  <2>1. d \notin Reporters
    OBVIOUS
  <2> QED  BY <1>8, <2>1 DEF BeginDelete, TypeOK
<1>9. ASSUME NEW d \in Deleters, DeleteCommit(d) PROVE TypeOK'
  <2>1. d \notin Reporters
    OBVIOUS
  <2>2. db' \in Tables
    <3>1. Without(db, target[d]).series \in [Ids -> Series \cup {NoKey}]
      BY DEF Without, TypeOK, Tables
    <3>2. /\ Without(db, target[d]).rows \subseteq db.rows
          /\ Without(db, target[d]).statuses \subseteq db.statuses
      BY DEF Without
    <3> QED  BY <1>9, <3>1, <3>2 DEF DeleteCommit, Without, TypeOK, Tables
  <2>3. todo' \in [Deleters -> SUBSET Series]
    BY <1>9 DEF DeleteCommit, TypeOK
  <2> QED  BY <1>9, <2>1, <2>2, <2>3 DEF DeleteCommit, TypeOK
<1>10. ASSUME NEW d \in Deleters, DeleteFails(d) \/ ClearDone(d) PROVE TypeOK'
  <2>1. d \notin Reporters
    OBVIOUS
  <2>2. /\ pc' = [pc EXCEPT ![d] = "idle"] /\ target' = [target EXCEPT ![d] = NoOne]
        /\ faults' \in Nat /\ todo' = todo
        /\ UNCHANGED <<db, work, writer, cache, batch, reported, sid, disturbed>>
    BY <1>10 DEF DeleteFails, ClearDone, Fault, TypeOK
  <2> QED  BY <2>1, <2>2 DEF TypeOK
<1>11. ASSUME NEW d \in Deleters, NEW key \in Series, ClearEntry(d, key) PROVE TypeOK'
  BY <1>11 DEF ClearEntry, TypeOK
<1>12. ASSUME NEW agent \in Agents, Heartbeat(agent) PROVE TypeOK'
  <2>1. db' \in Tables
    <3>1. db' = [db EXCEPT !.statuses = @ \cup {Trimmed[agent]}] /\ db \in Tables
      BY <1>12 DEF Heartbeat, TypeOK
    <3>2. {Trimmed[agent]} \in SUBSET Agents
      OBVIOUS
    <3> QED  BY <3>1, <3>2, MoreListed
  <2> QED  BY <1>12, <2>1 DEF Heartbeat, TypeOK
<1>13. ASSUME Restart PROVE TypeOK'
  <2>1. <<>> \in Seq(Series)
    OBVIOUS
  <2> QED  BY <1>13, <2>1, EmptyTables DEF Restart, Fault, TypeOK
<1>14. CASE UNCHANGED vars
  BY <1>14 DEF vars, TypeOK
<1> QED
  BY <1>1, <1>2, <1>3, <1>4, <1>5, <1>6, <1>7, <1>8, <1>9, <1>10, <1>11, <1>12, <1>13, <1>14
     DEF Next, ReportStep, DeleteStep

\* Type correctness of the store's state, its calls and its cache.
THEOREM TypeCorrect == Spec => []TypeOK
<1>1. Init => TypeOK
  BY TypeInit
<1>2. TypeOK /\ [Next]_vars => TypeOK'
  BY TypeStep
<1> QED  BY <1>1, <1>2, PTL DEF Spec
----------------------------------------------------------------------------
(* The tables. *)

\* The agent of the result whose series may exist before its heartbeat does.
AgentAtHand(r) == IF pc[r] = "insert" THEN {AgentOf[Head(batch[r])]} ELSE {}

CommitHoldsLock == \A r \in Reporters : pc[r] = "commit" => writer = r

\* A writing transaction keeps what was committed and owes its agents a heartbeat.
WorkExtends ==
    writer # NoOne =>
      /\ db.rows \subseteq work.rows
      /\ \A i \in Ids : work.series[i] # NoKey /\ Plain(AgentOf[work.series[i]]) =>
            AgentOf[work.series[i]] \in work.statuses \cup reported[writer] \cup AgentAtHand(writer)

StoreInv ==
    /\ Good(db) /\ Good(work)
    /\ CommitHoldsLock
    /\ WorkExtends
    /\ EveryAgentListed

LEMMA BaseExtends ==
    ASSUME TypeOK, StoreInv, NEW r \in Reporters, MayWrite(r)
    PROVE  /\ Base(r) \in Tables /\ Good(Base(r))
           /\ db.rows \subseteq Base(r).rows
           /\ \A i \in Ids : Base(r).series[i] # NoKey /\ Plain(AgentOf[Base(r).series[i]]) =>
                AgentOf[Base(r).series[i]] \in Base(r).statuses \cup reported[r] \cup AgentAtHand(r)
<1> USE StoreAssumption DEF MayWrite, Base
<1>1. CASE writer = r
  BY <1>1, BaseTables DEF StoreInv, WorkExtends
<1>2. CASE writer = NoOne
  BY <1>2, BaseTables DEF StoreInv, EveryAgentListed
<1> QED  BY <1>1, <1>2

LEMMA StoreInit == Init => StoreInv
BY EmptyTables, StoreAssumption
   DEF Init, StoreInv, CommitHoldsLock, WorkExtends, EveryAgentListed

\* A reporter's return gives up the lock only if it held it; nothing was committed.
LEMMA StoreRollback ==
    ASSUME TypeOK, StoreInv, NEW r \in Reporters, Rollback(r)
    PROVE  StoreInv'
<1>1. /\ pc'[r] = "idle"
      /\ \A q \in Reporters \ {r} : /\ pc'[q] = pc[q] /\ batch'[q] = batch[q]
                                    /\ reported'[q] = reported[q]
  BY ReturnTypes DEF Rollback
<1>2. db' = db
  BY DEF Rollback
<1>3. CASE writer = r
  <2>1. work' = NoTables /\ writer' = NoOne
    BY <1>3 DEF Rollback
  <2>2. CommitHoldsLock'
    BY <1>1, <1>3, StoreAssumption DEF StoreInv, CommitHoldsLock
  <2> QED  BY <1>2, <2>1, <2>2, EmptyTables DEF StoreInv, WorkExtends, EveryAgentListed, Good
<1>4. CASE writer # r
  <2>1. work' = work /\ writer' = writer
    BY <1>4 DEF Rollback
  <2>2. CommitHoldsLock'
    BY <1>1, <2>1 DEF StoreInv, CommitHoldsLock
  <2>3. WorkExtends'
    <3> SUFFICES ASSUME writer # NoOne PROVE WorkExtends'
      BY <2>1 DEF WorkExtends
    <3>1. writer \in Reporters \ {r}
      BY <1>4 DEF TypeOK
    <3> QED  BY <1>1, <1>2, <2>1, <3>1 DEF StoreInv, WorkExtends, AgentAtHand
  <2> QED  BY <1>2, <2>1, <2>2, <2>3 DEF StoreInv, EveryAgentListed, Good
<1> QED  BY <1>3, <1>4

LEMMA StoreStep ==
    ASSUME TypeOK, TypeOK', StoreInv, [Next]_vars
    PROVE  StoreInv'
<1> USE StoreAssumption DEF reportVars, deleteVars
<1>1. ASSUME NEW r \in Reporters, NEW results \in Batches, Begin(r, results) PROVE StoreInv'
  <2>1. r \in Reporters /\ pc[r] = "idle" /\ pc' = [pc EXCEPT ![r] = "lookup"]
        /\ \A q \in Reporters \ {r} : batch'[q] = batch[q]
    BY <1>1 DEF Begin, TypeOK
  <2>2. UNCHANGED <<db, work, writer, reported>>
    BY <1>1 DEF Begin
  <2>3. writer # NoOne => writer \in Reporters \ {r}
    BY <2>1 DEF TypeOK
  <2>4. \A q \in Reporters \ {r} : pc'[q] = pc[q]
    BY <2>1 DEF TypeOK
  <2>5. WorkExtends'
    BY <2>1, <2>2, <2>3, <2>4 DEF StoreInv, WorkExtends, AgentAtHand
  <2>6. CommitHoldsLock'
    BY <2>1, <2>2, <2>4 DEF StoreInv, CommitHoldsLock, TypeOK
  <2> QED  BY <2>2, <2>5, <2>6 DEF StoreInv, EveryAgentListed, Good
<1>2. ASSUME NEW r \in Reporters, LookupHit(r) \/ LookupMiss(r) PROVE StoreInv'
  <2>1. /\ UNCHANGED <<db, work, writer, reported, batch>>
        /\ pc[r] = "lookup" /\ pc'[r] \in {"insert", "upsert"}
        /\ \A q \in Reporters \ {r} : pc'[q] = pc[q]
    BY <1>2 DEF LookupHit, LookupMiss, TypeOK
  <2>2. \A q \in Reporters : AgentAtHand(q) \subseteq AgentAtHand(q)'
    BY <2>1 DEF AgentAtHand
  <2>3. WorkExtends'
    BY <2>1, <2>2 DEF StoreInv, WorkExtends, TypeOK
  <2>4. CommitHoldsLock'
    BY <2>1 DEF StoreInv, CommitHoldsLock
  <2> QED  BY <2>1, <2>3, <2>4 DEF StoreInv, EveryAgentListed, Good
<1>3. ASSUME NEW r \in Reporters, Upsert(r) PROVE StoreInv'
  <2> DEFINE key == Head(batch[r])
  <2>1. key \in Series /\ MayWrite(r) /\ r # NoOne
    BY <1>3, AtHand DEF Upsert
  <2>2. PICK id \in Ids :
           /\ IF \E i \in Ids : Base(r).series[i] = key
              THEN Base(r).series[id] = key ELSE NewId(Base(r).series, id)
           /\ work' = [Base(r) EXCEPT !.series[id] = key]
    BY <1>3 DEF Upsert
  <2>3. Upserted(Base(r), work', id, key)
    BY <2>1, <2>2, BaseTables, UpsertTables
  <2>4. /\ db' = db /\ writer' = r /\ batch' = batch /\ reported' = reported
        /\ pc' = [pc EXCEPT ![r] = "insert"]
    BY <1>3 DEF Upsert
  <2>5. pc'[r] = "insert" /\ AgentAtHand(r)' = {AgentOf[key]} /\ AgentAtHand(r) = {}
    BY <1>3, <2>4 DEF AgentAtHand, TypeOK, Upsert
  <2> HIDE DEF key
  <2>6. \A i \in Ids : work'.series[i] = key \/ work'.series[i] = Base(r).series[i]
    BY <2>3 DEF Upserted
  <2>7. WorkExtends'
    BY <2>1, <2>3, <2>4, <2>5, <2>6, BaseExtends DEF WorkExtends, Upserted
  <2>8. Good(work)'
    BY <2>1, <2>3, BaseExtends DEF Upserted, Good
  <2>9. CommitHoldsLock'
    BY <2>1, <2>4, <2>5 DEF CommitHoldsLock, StoreInv, TypeOK, MayWrite
  <2> QED  BY <2>4, <2>7, <2>8, <2>9 DEF StoreInv, EveryAgentListed, Good
<1>4. ASSUME NEW r \in Reporters, Insert(r) PROVE StoreInv'
  <2> DEFINE key == Head(batch[r])
  <2>1. key \in Series /\ MayWrite(r) /\ r # NoOne /\ sid[r] \in Ids
    BY <1>4, AtHand DEF Insert, TypeOK
  <2>2. /\ Good(Base(r)) => Good(work')
        /\ work'.series = Base(r).series /\ work'.statuses = Base(r).statuses
        /\ work'.rows = Base(r).rows \cup {[sid |-> sid[r], of |-> key]}
    <3>1. /\ Base(r).series[sid[r]] # NoKey
          /\ work' = [Base(r) EXCEPT !.rows = @ \cup {[sid |-> sid[r], of |-> key]}]
      BY <1>4 DEF Insert
    <3> HIDE DEF key
    <3> QED  BY <2>1, <3>1, BaseTables, InsertTables
  <2>3. /\ db' = db /\ writer' = r /\ reported'[r] = reported[r] \cup {AgentOf[key]}
        /\ pc'[r] \in {"commit", "lookup"}
        /\ \A q \in Reporters \ {r} : pc'[q] = pc[q]
    BY <1>4 DEF Insert, TypeOK
  <2>4. AgentAtHand(r) = {AgentOf[key]}
    BY <1>4 DEF Insert, AgentAtHand
  <2> HIDE DEF key
  <2>5. WorkExtends'
    BY <2>1, <2>2, <2>3, <2>4, BaseExtends DEF WorkExtends
  <2>6. Good(work)'
    BY <2>1, <2>2, BaseExtends DEF Good
  <2>7. CommitHoldsLock'
    BY <2>1, <2>3 DEF CommitHoldsLock, StoreInv, MayWrite
  <2> QED  BY <2>3, <2>5, <2>6, <2>7 DEF StoreInv, EveryAgentListed, Good
<1>5. ASSUME NEW r \in Reporters, Commit(r) PROVE StoreInv'
  <2>1. writer = r /\ pc[r] = "commit" /\ r # NoOne
    BY <1>5 DEF Commit, StoreInv, CommitHoldsLock
  <2>2. /\ db'.series = work.series /\ db'.rows = work.rows
        /\ db'.statuses = work.statuses \cup {Trimmed[agent] : agent \in reported[r]}
    BY <1>5 DEF Commit, TypeOK, Tables
  <2>3. work' = NoTables /\ writer' = NoOne
    BY <1>5 DEF Commit
  <2>4. \A q \in Reporters \ {r} : pc'[q] = pc[q]
    BY <1>5, ReturnTypes DEF Commit
  <2>5. pc'[r] = "idle"
    BY <1>5, ReturnTypes DEF Commit
  <2>6. CommitHoldsLock'
    BY <2>1, <2>4, <2>5 DEF StoreInv, CommitHoldsLock
  <2>7. EveryAgentListed'
    BY <2>1, <2>2 DEF StoreInv, WorkExtends, AgentAtHand, EveryAgentListed, Plain
  <2>8. Good(db)' /\ Good(work)'
    BY <2>2, <2>3, EmptyTables DEF StoreInv, Good
  <2> QED  BY <2>3, <2>6, <2>7, <2>8 DEF StoreInv, WorkExtends
<1>6. ASSUME NEW r \in Reporters, InsertFails(r) \/ StoreFails(r) \/ OutOfIds(r) PROVE StoreInv'
  <2>1. Rollback(r)
    BY <1>6 DEF InsertFails, StoreFails, OutOfIds
  <2> QED  BY <2>1, StoreRollback
<1>7. ASSUME NEW d \in Deleters, DeleteCommit(d) PROVE StoreInv'
  <2>1. target[d] \in Agents
    BY <1>7 DEF DeleteCommit, TypeOK
  <2>2. /\ db' = Without(db, target[d]) /\ work' = work /\ writer' = NoOne /\ writer = NoOne
        /\ \A q \in Reporters : pc'[q] = pc[q]
    BY <1>7 DEF DeleteCommit, TypeOK
  <2>3. db \in Tables /\ Good(db)
    BY DEF TypeOK, StoreInv
  <2>4. Good(db')
    BY <1>7, <2>1, <2>2, <2>3, WithoutTables
  <2>5. EveryAgentListed'
    <3>1. \A i \in Ids : \/ db'.series[i] = NoKey
                        \/ /\ db'.series[i] = db.series[i]
                           /\ AgentOf[db.series[i]] # target[d]
      BY <2>1, <2>2, <2>3, WithoutTables
    <3>2. db'.statuses = db.statuses \ {target[d]}
      BY <2>1, <2>2, <2>3, WithoutTables
    <3> QED  BY <3>1, <3>2 DEF StoreInv, EveryAgentListed
  <2>6. CommitHoldsLock'
    BY <2>2 DEF StoreInv, CommitHoldsLock
  <2> QED  BY <2>2, <2>4, <2>5, <2>6 DEF StoreInv, WorkExtends, Good
<1>8. ASSUME NEW d \in Deleters, NEW agent \in Agents, BeginDelete(d, agent) PROVE StoreInv'
  <2>1. /\ UNCHANGED <<db, work, writer, reported, batch>>
        /\ \A q \in Reporters : pc'[q] = pc[q]
    BY <1>8 DEF BeginDelete, TypeOK
  <2> QED
    BY <2>1 DEF StoreInv, CommitHoldsLock, WorkExtends, AgentAtHand, EveryAgentListed, Good, TypeOK
<1>9. ASSUME NEW d \in Deleters, DeleteFails(d) \/ ClearDone(d) PROVE StoreInv'
  <2>1. /\ UNCHANGED <<db, work, writer, reported, batch>>
        /\ \A q \in Reporters : pc'[q] = pc[q]
    BY <1>9 DEF DeleteFails, ClearDone, TypeOK
  <2> QED
    BY <2>1 DEF StoreInv, CommitHoldsLock, WorkExtends, AgentAtHand, EveryAgentListed, Good, TypeOK
<1>10. ASSUME NEW d \in Deleters, NEW key \in Series, ClearEntry(d, key) PROVE StoreInv'
  BY <1>10 DEF ClearEntry, StoreInv, CommitHoldsLock, WorkExtends, AgentAtHand, EveryAgentListed, Good
<1>11. ASSUME NEW agent \in Agents, Heartbeat(agent) PROVE StoreInv'
  <2>1. /\ db'.series = db.series /\ db'.rows = db.rows /\ db.statuses \subseteq db'.statuses
        /\ writer = NoOne /\ UNCHANGED <<work, writer, pc>>
    BY <1>11 DEF Heartbeat, TypeOK, Tables
  <2> QED  BY <2>1 DEF StoreInv, CommitHoldsLock, WorkExtends, EveryAgentListed, Good
<1>12. ASSUME Restart PROVE StoreInv'
  <2>1. db' = db /\ work' = NoTables /\ writer' = NoOne /\ \A q \in Reporters : pc'[q] = "idle"
    BY <1>12 DEF Restart
  <2> QED
    BY <2>1, EmptyTables DEF StoreInv, CommitHoldsLock, WorkExtends, EveryAgentListed, Good
<1>13. CASE UNCHANGED vars
  BY <1>13 DEF vars, StoreInv, CommitHoldsLock, WorkExtends, AgentAtHand, EveryAgentListed, Good
<1> QED
  BY <1>1, <1>2, <1>3, <1>4, <1>5, <1>6, <1>7, <1>8, <1>9, <1>10, <1>11, <1>12, <1>13
     DEF Next, ReportStep, DeleteStep
----------------------------------------------------------------------------
(* Attribution. *)

\* The tables the next writing statement sees.
Now == IF writer = NoOne THEN db ELSE work

Faithful(T) == \A row \in T.rows : T.series[row.sid] = row.of

\* A cached id names its series, unless a deletion is about to drop the entry.
CacheCoherent ==
    \A k \in Series : cache[k] # 0 =>
        \/ Now.series[cache[k]] = k
        \/ \E d \in Deleters : pc[d] = "clear" /\ k \in todo[d]

\* The id a report is about to insert with names the series of its result.
IdsCoherent == \A r \in Reporters : pc[r] = "insert" => Now.series[sid[r]] = Head(batch[r])

AttributionInv ==
    ~disturbed =>
      /\ ~(Clearing /\ Reporting)
      /\ Faithful(db) /\ Faithful(work)
      /\ CacheCoherent
      /\ IdsCoherent

LEMMA AttributionInit == Init => AttributionInv
BY EmptyTables DEF Init, AttributionInv, Faithful, CacheCoherent, IdsCoherent, Clearing, Reporting

\* A step of one reporter does not change what the others and the deleters do.
LEMMA ReporterFrame ==
    ASSUME TypeOK, NEW r \in Reporters, pc[r] # "idle",
           \A p \in (Reporters \cup Deleters) \ {r} : pc'[p] = pc[p]
    PROVE  /\ Clearing' = Clearing
           /\ Reporting
           /\ \A d \in Deleters : pc'[d] = pc[d]
BY StoreAssumption DEF StoreAssumption, Clearing, Reporting

LEMMA AttributionRollback ==
    ASSUME TypeOK, AttributionInv, NEW r \in Reporters, pc[r] # "idle", Rollback(r)
    PROVE  AttributionInv'
<1> SUFFICES ASSUME ~disturbed' PROVE AttributionInv'
  BY DEF AttributionInv
<1>1. /\ pc' = [pc EXCEPT ![r] = "idle"] /\ batch' = [batch EXCEPT ![r] = <<>>]
      /\ sid' = [sid EXCEPT ![r] = 0] /\ UNCHANGED <<db, cache, todo>>
  BY DEF Rollback, Return, deleteVars
<1>2. ~disturbed /\ Now'.series = Now.series
  <2>1. CASE writer = r
    BY <2>1, StoreAssumption DEF Rollback, Now, StoreAssumption
  <2>2. CASE writer # r
    BY <1>1, <2>2 DEF Rollback, Now
  <2> QED  BY <2>1, <2>2
<1>3. /\ \A p \in (Reporters \cup Deleters) \ {r} : pc'[p] = pc[p]
      /\ \A q \in Reporters \ {r} : batch'[q] = batch[q] /\ sid'[q] = sid[q]
      /\ pc'[r] = "idle"
  BY <1>1 DEF TypeOK
<1>4. Clearing' = Clearing /\ Reporting /\ \A d \in Deleters : pc'[d] = pc[d]
  BY <1>3, ReporterFrame
<1>5. Faithful(work)' /\ Faithful(db)'
  BY <1>1, <1>2, EmptyTables DEF Rollback, AttributionInv, Faithful
<1>6. CacheCoherent'
  BY <1>1, <1>2, <1>4 DEF AttributionInv, CacheCoherent
<1>7. IdsCoherent'
  BY <1>2, <1>3 DEF AttributionInv, IdsCoherent
<1> QED  BY <1>2, <1>4, <1>5, <1>6, <1>7 DEF AttributionInv

LEMMA AttributionUpsert ==
    ASSUME TypeOK, TypeOK', StoreInv, AttributionInv, NEW r \in Reporters, Upsert(r)
    PROVE  AttributionInv'
<1> DEFINE key == Head(batch[r])
<1> SUFFICES ASSUME ~disturbed' PROVE AttributionInv'
  BY DEF AttributionInv
<1>1. key \in Series /\ key # NoKey /\ MayWrite(r) /\ r # NoOne /\ pc[r] = "upsert"
  BY AtHand, StoreAssumption DEF Upsert, StoreAssumption
<1>2. PICK id \in Ids :
         /\ IF \E i \in Ids : Base(r).series[i] = key
            THEN Base(r).series[id] = key ELSE NewId(Base(r).series, id)
         /\ work' = [Base(r) EXCEPT !.series[id] = key]
         /\ cache' = [cache EXCEPT ![key] = id]
         /\ sid' = [sid EXCEPT ![r] = id]
  BY DEF Upsert
<1>3. Upserted(Base(r), work', id, key)
  BY <1>1, <1>2, BaseTables, UpsertTables
<1>4. /\ db' = db /\ writer' = r /\ batch' = batch /\ todo' = todo /\ disturbed' = disturbed
      /\ pc' = [pc EXCEPT ![r] = "insert"]
  BY DEF Upsert, deleteVars
<1>5. Now = Base(r) /\ Now' = work' /\ Faithful(Base(r))
  BY <1>1, <1>4 DEF Now, Base, MayWrite, AttributionInv
<1>6. /\ \A p \in (Reporters \cup Deleters) \ {r} : pc'[p] = pc[p]
      /\ pc'[r] = "insert" /\ sid'[r] = id /\ cache'[key] = id
      /\ \A q \in Reporters \ {r} : sid'[q] = sid[q]
      /\ \A k \in Series \ {key} : cache'[k] = cache[k]
  BY <1>1, <1>2, <1>4 DEF TypeOK
<1>7. Clearing' = Clearing /\ Reporting /\ \A d \in Deleters : pc'[d] = pc[d]
  BY <1>1, <1>6, ReporterFrame
<1>8. Base(r) \in Tables /\ Good(Base(r))
  BY <1>1, BaseExtends
<1> HIDE DEF key
<1>9. Faithful(work)'
  BY <1>3, <1>5, <1>8 DEF Faithful, Upserted, Good, Tables
<1>10. CacheCoherent'
  <2> SUFFICES ASSUME NEW k \in Series, cache'[k] # 0
               PROVE  \/ Now'.series[cache'[k]] = k
                      \/ \E d \in Deleters : pc'[d] = "clear" /\ k \in todo'[d]
    BY DEF CacheCoherent
  <2>1. CASE k = key
    BY <1>3, <1>5, <1>6, <2>1 DEF Upserted
  <2>2. CASE k # key
    <3>1. cache'[k] = cache[k] /\ cache[k] \in Ids /\ k # NoKey
      BY <1>6, <2>2, StoreAssumption DEF StoreAssumption, TypeOK
    <3>2. CASE Now.series[cache[k]] = k
      BY <1>3, <1>5, <3>1, <3>2 DEF Upserted
    <3>3. CASE \E d \in Deleters : pc[d] = "clear" /\ k \in todo[d]
      BY <1>4, <1>7, <3>3
    <3> QED  BY <1>4, <3>1, <3>2, <3>3 DEF AttributionInv, CacheCoherent
  <2> QED  BY <2>1, <2>2
<1>11. IdsCoherent'
  <2> SUFFICES ASSUME NEW q \in Reporters, pc'[q] = "insert"
               PROVE  Now'.series[sid'[q]] = Head(batch'[q])
    BY DEF IdsCoherent
  <2>1. CASE q = r
    BY <1>3, <1>4, <1>5, <1>6, <2>1 DEF Upserted, key
  <2>2. CASE q # r
    <3>1. pc[q] = "insert" /\ sid'[q] = sid[q] /\ sid[q] \in Ids
      BY <1>6, <2>2 DEF TypeOK
    <3>2. Now.series[sid[q]] = Head(batch[q]) /\ Head(batch[q]) # NoKey
      BY <1>4, <3>1, AtHand, StoreAssumption DEF StoreAssumption, AttributionInv, IdsCoherent
    <3> QED  BY <1>3, <1>4, <1>5, <3>1, <3>2 DEF Upserted
  <2> QED  BY <2>1, <2>2
<1> QED  BY <1>4, <1>7, <1>9, <1>10, <1>11 DEF AttributionInv, Faithful

LEMMA AttributionInsert ==
    ASSUME TypeOK, TypeOK', StoreInv, AttributionInv, NEW r \in Reporters, Insert(r)
    PROVE  AttributionInv'
<1> DEFINE key == Head(batch[r])
<1> SUFFICES ASSUME ~disturbed' PROVE AttributionInv'
  BY DEF AttributionInv
<1>1. key \in Series /\ MayWrite(r) /\ r # NoOne /\ pc[r] = "insert" /\ sid[r] \in Ids
  BY AtHand, StoreAssumption DEF Insert, StoreAssumption, TypeOK
<1>2. /\ work'.series = Base(r).series
      /\ work'.rows = Base(r).rows \cup {[sid |-> sid[r], of |-> key]}
  BY <1>1, BaseTables, InsertTables DEF Insert
<1>3. /\ UNCHANGED <<db, sid, cache, todo, disturbed>> /\ writer' = r
      /\ batch' = [batch EXCEPT ![r] = Tail(@)]
      /\ pc' = [pc EXCEPT ![r] = IF Tail(batch[r]) = <<>> THEN "commit" ELSE "lookup"]
  BY DEF Insert, deleteVars
<1>4. Now = Base(r) /\ Now' = work' /\ Faithful(Base(r))
  BY <1>1, <1>3 DEF Now, Base, MayWrite, AttributionInv
<1>5. /\ \A p \in (Reporters \cup Deleters) \ {r} : pc'[p] = pc[p]
      /\ pc'[r] # "insert"
      /\ \A q \in Reporters \ {r} : batch'[q] = batch[q]
  BY <1>1, <1>3 DEF TypeOK
<1>6. Clearing' = Clearing /\ Reporting /\ \A d \in Deleters : pc'[d] = pc[d]
  BY <1>1, <1>5, ReporterFrame
<1>7. Base(r).series[sid[r]] = key
  BY <1>1, <1>3, <1>4 DEF AttributionInv, IdsCoherent
<1> HIDE DEF key
<1>8. Faithful(work)'
  BY <1>2, <1>4, <1>7 DEF Faithful
<1>9. CacheCoherent'
  BY <1>2, <1>3, <1>4, <1>6 DEF AttributionInv, CacheCoherent
<1>10. IdsCoherent'
  BY <1>2, <1>3, <1>4, <1>5 DEF AttributionInv, IdsCoherent
<1> QED  BY <1>3, <1>6, <1>8, <1>9, <1>10 DEF AttributionInv, Faithful
LEMMA AttributionStep ==
    ASSUME TypeOK, TypeOK', StoreInv, AttributionInv, [Next]_vars
    PROVE  AttributionInv'
<1> USE DEF reportVars, deleteVars
<1> SUFFICES ASSUME ~disturbed' PROVE AttributionInv'
  BY DEF AttributionInv
<1>1. ASSUME NEW r \in Reporters, NEW results \in Batches, Begin(r, results)
      PROVE  AttributionInv'
  <2>1. /\ ~disturbed /\ ~Clearing
        /\ pc[r] = "idle" /\ pc' = [pc EXCEPT ![r] = "lookup"]
        /\ UNCHANGED <<db, work, writer, cache, sid, todo>>
        /\ \A q \in Reporters \ {r} : batch'[q] = batch[q]
    BY <1>1 DEF Begin, TypeOK
  <2>2. /\ \A d \in Deleters : pc'[d] = pc[d]
        /\ \A q \in Reporters \ {r} : pc'[q] = pc[q]
        /\ pc'[r] = "lookup"
    BY <2>1, StoreAssumption DEF TypeOK, StoreAssumption
  <2>3. ~Clearing'
    BY <2>1, <2>2 DEF Clearing
  <2>4. CacheCoherent'
    BY <2>1, <2>2 DEF AttributionInv, CacheCoherent, Now
  <2>5. IdsCoherent'
    BY <2>1, <2>2 DEF AttributionInv, IdsCoherent, Now
  <2> QED  BY <2>1, <2>3, <2>4, <2>5 DEF AttributionInv, Faithful
<1>2. ASSUME NEW r \in Reporters, LookupHit(r) \/ LookupMiss(r) PROVE AttributionInv'
  <2>1. /\ UNCHANGED <<db, work, writer, cache, batch, todo, disturbed>>
        /\ pc[r] = "lookup"
        /\ \A p \in (Reporters \cup Deleters) \ {r} : pc'[p] = pc[p]
        /\ \A q \in Reporters \ {r} : sid'[q] = sid[q]
    BY <1>2 DEF LookupHit, LookupMiss, TypeOK
  <2>2. Clearing' = Clearing /\ Reporting /\ \A d \in Deleters : pc'[d] = pc[d]
    BY <2>1, ReporterFrame
  <2>3. CacheCoherent'
    BY <2>1, <2>2 DEF AttributionInv, CacheCoherent, Now
  <2>4. ASSUME pc'[r] = "insert" PROVE Now.series[sid'[r]] = Head(batch[r])
    <3>1. sid'[r] = cache[Head(batch[r])] /\ cache[Head(batch[r])] # 0
      BY <1>2, <2>4 DEF LookupHit, LookupMiss, TypeOK
    <3>2. Head(batch[r]) \in Series
      BY <2>1, AtHand
    <3> QED  BY <2>1, <2>2, <3>1, <3>2 DEF AttributionInv, CacheCoherent, Clearing
  <2>5. IdsCoherent'
    BY <2>1, <2>4 DEF AttributionInv, IdsCoherent, Now
  <2> QED  BY <2>1, <2>2, <2>3, <2>5 DEF AttributionInv, Faithful
<1>3. ASSUME NEW r \in Reporters, Upsert(r) PROVE AttributionInv'
  BY <1>3, AttributionUpsert
<1>4. ASSUME NEW r \in Reporters, Insert(r) PROVE AttributionInv'
  BY <1>4, AttributionInsert
<1>5. ASSUME NEW r \in Reporters, Commit(r) PROVE AttributionInv'
  <2>1. writer = r /\ r # NoOne /\ pc[r] # "idle"
    BY <1>5, StoreAssumption DEF Commit, StoreInv, CommitHoldsLock, StoreAssumption
  <2>2. /\ db'.series = work.series /\ db'.rows = work.rows
        /\ work' = NoTables /\ writer' = NoOne
        /\ UNCHANGED <<cache, todo, disturbed>>
    BY <1>5 DEF Commit, TypeOK, Tables
  <2>3. /\ pc' = [pc EXCEPT ![r] = "idle"] /\ batch' = [batch EXCEPT ![r] = <<>>]
        /\ sid' = [sid EXCEPT ![r] = 0]
    BY <1>5 DEF Commit, Return
  <2>4. /\ \A p \in (Reporters \cup Deleters) \ {r} : pc'[p] = pc[p]
        /\ \A q \in Reporters \ {r} : batch'[q] = batch[q] /\ sid'[q] = sid[q]
        /\ pc'[r] = "idle"
    BY <2>3 DEF TypeOK
  <2>5. Clearing' = Clearing /\ Reporting /\ \A d \in Deleters : pc'[d] = pc[d]
    BY <2>1, <2>4, ReporterFrame
  <2>6. Now'.series = Now.series
    BY <2>1, <2>2 DEF Now
  <2>7. Faithful(db)' /\ Faithful(work)'
    BY <2>2, EmptyTables DEF AttributionInv, Faithful
  <2>8. CacheCoherent'
    BY <2>2, <2>5, <2>6 DEF AttributionInv, CacheCoherent
  <2>9. IdsCoherent'
    BY <2>2, <2>4, <2>6 DEF AttributionInv, IdsCoherent
  <2> QED  BY <2>2, <2>5, <2>7, <2>8, <2>9 DEF AttributionInv
<1>6. ASSUME NEW r \in Reporters, InsertFails(r) \/ StoreFails(r) \/ OutOfIds(r)
      PROVE  AttributionInv'
  <2>1. Rollback(r) /\ pc[r] # "idle"
    BY <1>6 DEF InsertFails, StoreFails, OutOfIds
  <2> QED  BY <2>1, AttributionRollback
<1>7. ASSUME NEW d \in Deleters, NEW agent \in Agents, BeginDelete(d, agent)
      PROVE  AttributionInv'
  <2>1. /\ UNCHANGED <<db, work, writer, cache, batch, sid, todo, disturbed>>
        /\ pc[d] = "idle" /\ pc' = [pc EXCEPT ![d] = "delete"]
    BY <1>7 DEF BeginDelete
  <2>2. /\ \A q \in Reporters : pc'[q] = pc[q]
        /\ \A e \in Deleters : (pc'[e] = "clear") <=> (pc[e] = "clear")
    BY <2>1, StoreAssumption DEF TypeOK, StoreAssumption
  <2> QED
    BY <2>1, <2>2
       DEF AttributionInv, Clearing, Reporting, Faithful, CacheCoherent, IdsCoherent, Now
<1>8. ASSUME NEW d \in Deleters, DeleteCommit(d) PROVE AttributionInv'
  <2>1. /\ pc[d] = "delete" /\ pc' = [pc EXCEPT ![d] = "clear"]
        /\ todo' = [todo EXCEPT ![d] = {k \in Series : cache[k] # 0}]
        /\ disturbed' = (disturbed \/ Reporting)
        /\ db' = Without(db, target[d]) /\ UNCHANGED <<work, cache, writer>> /\ writer = NoOne
    BY <1>8 DEF DeleteCommit
  <2>2. ~disturbed /\ ~Reporting
    BY <2>1
  <2>3. /\ ~disturbed /\ ~Reporting /\ writer = NoOne /\ writer' = NoOne
        /\ db' = Without(db, target[d]) /\ target[d] \in Agents
        /\ pc'[d] = "clear" /\ todo'[d] = {k \in Series : cache[k] # 0}
        /\ UNCHANGED <<work, cache>>
        /\ \A q \in Reporters : pc'[q] = pc[q]
    BY <2>1, <2>2, StoreAssumption DEF TypeOK, StoreAssumption
  <2>4. ~Reporting'
    BY <2>3 DEF Reporting
  <2>5. Faithful(db)' /\ Faithful(work)'
    <3>1. db \in Tables /\ Good(db)
      BY DEF TypeOK, StoreInv
    <3> QED  BY <2>3, <3>1, WithoutTables DEF AttributionInv, Faithful
  <2>6. CacheCoherent'
    BY <2>3 DEF CacheCoherent
  <2>7. IdsCoherent'
    BY <2>4 DEF IdsCoherent, Reporting
  <2> QED  BY <2>4, <2>5, <2>6, <2>7 DEF AttributionInv
<1>9. ASSUME NEW d \in Deleters, DeleteFails(d) \/ ClearDone(d) PROVE AttributionInv'
  <2>1. /\ UNCHANGED <<db, work, writer, cache, batch, sid, todo, disturbed>>
        /\ pc[d] = "clear" => todo[d] = {}
        /\ pc' = [pc EXCEPT ![d] = "idle"]
    BY <1>9 DEF DeleteFails, ClearDone
  <2>2. /\ \A q \in Reporters : pc'[q] = pc[q]
        /\ \A e \in Deleters : pc[e] = "clear" /\ todo[e] # {} => pc'[e] = "clear"
        /\ \A e \in Deleters : pc'[e] = "clear" => pc[e] = "clear"
    BY <2>1, StoreAssumption DEF TypeOK, StoreAssumption
  <2>3. ~(Clearing' /\ Reporting')
    BY <2>1, <2>2 DEF AttributionInv, Clearing, Reporting
  <2>4. CacheCoherent'
    BY <2>1, <2>2 DEF AttributionInv, CacheCoherent, Now
  <2>5. IdsCoherent'
    BY <2>1, <2>2 DEF AttributionInv, IdsCoherent, Now
  <2> QED  BY <2>1, <2>3, <2>4, <2>5 DEF AttributionInv, Faithful
<1>10. ASSUME NEW d \in Deleters, NEW key \in Series, ClearEntry(d, key) PROVE AttributionInv'
  <2>1. /\ UNCHANGED <<db, work, writer, pc, batch, sid, disturbed>>
        /\ cache'[key] = 0 /\ \A k \in Series \ {key} : cache'[k] = cache[k]
        /\ \A e \in Deleters : todo[e] \subseteq todo'[e] \cup {key}
    BY <1>10 DEF ClearEntry, TypeOK
  <2>2. CacheCoherent'
    <3> SUFFICES ASSUME NEW k \in Series, cache'[k] # 0
                 PROVE  \/ Now'.series[cache'[k]] = k
                        \/ \E e \in Deleters : pc'[e] = "clear" /\ k \in todo'[e]
      BY DEF CacheCoherent
    <3>1. k # key /\ cache'[k] = cache[k] /\ Now' = Now
      BY <2>1 DEF Now
    <3> QED  BY <2>1, <3>1 DEF AttributionInv, CacheCoherent
  <2> QED
    BY <2>1, <2>2 DEF AttributionInv, Clearing, Reporting, Faithful, IdsCoherent, Now
<1>11. ASSUME NEW agent \in Agents, Heartbeat(agent) PROVE AttributionInv'
  <2>1. /\ db'.series = db.series /\ db'.rows = db.rows /\ writer = NoOne
        /\ UNCHANGED <<work, writer, cache, pc, batch, sid, todo, disturbed>>
    BY <1>11 DEF Heartbeat, TypeOK, Tables
  <2> QED
    BY <2>1
       DEF AttributionInv, Clearing, Reporting, Faithful, CacheCoherent, IdsCoherent, Now
<1>12. ASSUME Restart PROVE AttributionInv'
  <2>1. /\ db' = db /\ work' = NoTables /\ disturbed' = disturbed
        /\ \A k \in Series : cache'[k] = 0
        /\ \A p \in Reporters \cup Deleters : pc'[p] = "idle"
    BY <1>12 DEF Restart
  <2> QED
    BY <2>1, EmptyTables
       DEF AttributionInv, Clearing, Reporting, Faithful, CacheCoherent, IdsCoherent
<1>13. CASE UNCHANGED vars
  BY <1>13
     DEF vars, AttributionInv, Clearing, Reporting, Faithful, CacheCoherent, IdsCoherent, Now
<1> QED
  BY <1>1, <1>2, <1>3, <1>4, <1>5, <1>6, <1>7, <1>8, <1>9, <1>10, <1>11, <1>12, <1>13
     DEF Next, ReportStep, DeleteStep
----------------------------------------------------------------------------
(* The theorems. *)

\* Each of the store's properties, as invariants of the specification.
LEMMA Invariant == Spec => [](TypeOK /\ StoreInv /\ AttributionInv)
<1>1. Init => TypeOK /\ StoreInv /\ AttributionInv
  BY TypeInit, StoreInit, AttributionInit
<1>2. TypeOK /\ StoreInv /\ AttributionInv /\ [Next]_vars
      => (TypeOK /\ StoreInv /\ AttributionInv)'
  BY TypeStep, StoreStep, AttributionStep
<1> QED  BY <1>1, <1>2, PTL DEF Spec

\* Committed rows always have their series and series keys are unique, whatever reports,
\* deletions, failures and restarts interleave.
THEOREM Consistent == Spec => []TablesConsistent
<1>1. StoreInv => TablesConsistent
  BY DEF StoreInv, Good, TablesConsistent
<1> QED  BY <1>1, Invariant, PTL

\* An agent with data is always listed, and under the name DeleteAgent deletes, if that name
\* has no outer spaces: the heartbeat is written under the trimmed name.
THEOREM Listed == Spec => []EveryAgentListed
<1>1. StoreInv => EveryAgentListed
  BY DEF StoreInv
<1> QED  BY <1>1, Invariant, PTL

\* Results are stored under the series they were reported for, unless a transaction that
\* had created a series rolled back or a report overlapped the end of a deletion.
THEOREM Attribution == Spec => []AttributedUnlessDisturbed
<1>1. AttributionInv => AttributedUnlessDisturbed
  BY DEF AttributionInv, AttributedUnlessDisturbed, Attributed, Faithful
<1> QED  BY <1>1, Invariant, PTL

\* Only the deletion of its agent removes a committed row.
THEOREM RowsAreKept == Spec => RowsLeaveWithAgent
<1>1. ASSUME TypeOK, StoreInv, [Next]_vars PROVE [LeavesOnlyWithAgent]_vars
  <2>1. ASSUME NEW r \in Reporters, ReportStep(r) PROVE db.rows \subseteq db'.rows
    <3>1. CASE Commit(r)
      <4>1. writer = r /\ r # NoOne
        BY <1>1, <3>1, StoreAssumption DEF Commit, StoreInv, CommitHoldsLock, StoreAssumption
      <4>2. db'.rows = work.rows
        BY <1>1, <3>1 DEF Commit, TypeOK, Tables
      <4> QED  BY <1>1, <4>1, <4>2 DEF StoreInv, WorkExtends
    <3>2. CASE ~Commit(r)
      BY <2>1, <3>2
         DEF ReportStep, Begin, LookupHit, LookupMiss, Upsert, Insert, InsertFails, StoreFails,
             OutOfIds, Rollback
    <3> QED  BY <3>1, <3>2
  <2>2. ASSUME NEW d \in Deleters, DeleteStep(d), ~DeleteCommit(d) PROVE db' = db
    BY <2>2 DEF DeleteStep, BeginDelete, DeleteFails, ClearDone, ClearEntry
  <2>3. ASSUME NEW d \in Deleters, DeleteCommit(d) PROVE LeavesOnlyWithAgent
    <3>1. /\ pc[d] = "delete" /\ pc'[d] = "clear"
          /\ db'.rows = {row \in db.rows : Owner(db, row) # target[d]}
      BY <1>1, <2>3 DEF DeleteCommit, Without, TypeOK
    <3> QED  BY <3>1 DEF LeavesOnlyWithAgent
  <2>4. ASSUME NEW agent \in Agents, Heartbeat(agent) PROVE db'.rows = db.rows
    BY <1>1, <2>4 DEF Heartbeat, TypeOK, Tables
  <2>5. ASSUME Restart PROVE db' = db
    BY <2>5 DEF Restart
  <2>6. db.rows \subseteq db'.rows => LeavesOnlyWithAgent
    BY DEF LeavesOnlyWithAgent
  <2> QED  BY <1>1, <2>1, <2>2, <2>3, <2>4, <2>5, <2>6 DEF Next
<1>2. Spec => [][LeavesOnlyWithAgent]_vars
  BY <1>1, Invariant, PTL DEF Spec
<1> QED  BY <1>2 DEF RowsLeaveWithAgent
============================================================================
