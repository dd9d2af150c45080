---------------------------- MODULE SeriesStore ----------------------------
(***************************************************************************)
(* The SQLite tables and the in-memory series cache of SQLiteStore, under  *)
(* concurrent SaveResults and DeleteAgent calls.                           *)
(*                                                                         *)
(* A result row names its series (agent, target, ...) by an integer id.    *)
(* seriesID looks the id up in seriesCache, a sync.Map outside the         *)
(* database, and upserts the series on a miss; it fills the cache at once, *)
(* while the transaction that created the series may still roll back.      *)
(* DeleteAgent empties the cache after its transaction committed.          *)
(*                                                                         *)
(* SQLite admits one writer at a time: a transaction takes the write lock  *)
(* at its first statement that writes, sees the tables as committed then,  *)
(* and holds it until it commits or rolls back.  Ids are INTEGER PRIMARY   *)
(* KEY without AUTOINCREMENT: a new row gets one more than the largest id  *)
(* in the table, so the ids of deleted rows come back.                     *)
(*                                                                         *)
(* The series keep the name of their agent as it was reported; the         *)
(* heartbeat and the deletion trim it.  Nothing refuses a name with outer  *)
(* spaces.                                                                 *)
(*                                                                         *)
(* The retention cleaner, which removes rows by age, has a module of its   *)
(* own; here rows go away with their agent only.                           *)
(***************************************************************************)
EXTENDS Naturals, Sequences, FiniteSets

CONSTANTS
    Agents,      \* agent names, as they are reported
    Trimmed,     \* the names without their outer spaces (strings.TrimSpace)
    Series,      \* series keys: agent, IP, target, address, port, labels
    AgentOf,     \* the agent a series belongs to
    Reporters,   \* concurrent SaveResults calls
    Deleters,    \* concurrent DeleteAgent calls
    NoOne,       \* no process
    NoKey,       \* an unused row of result_series
    MaxConns,    \* db.SetMaxOpenConns
    MaxId,       \* bound: largest series id
    MaxBatch,    \* bound: results of one report
    MaxFaults    \* bound: storage errors and restarts

ASSUME StoreAssumption ==
    /\ AgentOf \in [Series -> Agents]
    /\ Trimmed \in [Agents -> Agents]
    /\ \A agent \in Agents : Trimmed[Trimmed[agent]] = Trimmed[agent]
    /\ NoKey \notin Series
    /\ NoOne \notin Reporters
    /\ Reporters \cap Deleters = {}
    /\ MaxId \in Nat \ {0} /\ MaxConns \in Nat /\ MaxBatch \in Nat /\ MaxFaults \in Nat

VARIABLES
    db,         \* the tables as committed
    work,       \* the tables as the writing transaction sees them
    writer,     \* the reporter that holds the write lock
    cache,      \* seriesCache: 0 where it has no entry
    pc,         \* where each call stands
    batch,      \* reporters: the results still to insert, by series
    reported,   \* reporters: the agents of the results inserted so far
    sid,        \* reporters: the series id of the result at hand
    target,     \* deleters: the agent to delete, its name trimmed
    todo,       \* deleters: the cache entries their Range will visit
    disturbed,  \* history: an event of AttributedUnlessDisturbed happened
    faults      \* history: storage errors and restarts so far

vars == <<db, work, writer, cache, pc, batch, reported, sid, target, todo, disturbed, faults>>
reportVars == <<batch, reported, sid>>
deleteVars == <<target, todo>>

Ids == 1 .. MaxId

(***************************************************************************)
(* rows stands for both tables that reference result_series, results and   *)
(* result_rollups; a row is its series id and, as history, the series the  *)
(* agent reported it for.                                                  *)
(***************************************************************************)
NoTables == [series |-> [i \in Ids |-> NoKey], rows |-> {}, statuses |-> {}]

Init ==
    /\ db = NoTables /\ work = NoTables /\ writer = NoOne
    /\ cache = [k \in Series |-> 0]
    /\ pc = [p \in Reporters \cup Deleters |-> "idle"]
    /\ batch = [r \in Reporters |-> <<>>] /\ reported = [r \in Reporters |-> {}]
    /\ sid = [r \in Reporters |-> 0]
    /\ target = [d \in Deleters |-> NoOne] /\ todo = [d \in Deleters |-> {}]
    /\ disturbed = FALSE /\ faults = 0

Fault == faults < MaxFaults /\ faults' = faults + 1

\* Open transactions, each on a connection of its own.
Connections ==
    Cardinality({r \in Reporters : pc[r] # "idle"} \cup {d \in Deleters : pc[d] = "delete"})

\* What the next statement of reporter r sees once it has the write lock.
Base(r) == IF writer = r THEN work ELSE db

\* The call returns and its variables with it.
Return(r) ==
    /\ pc' = [pc EXCEPT ![r] = "idle"]
    /\ batch' = [batch EXCEPT ![r] = <<>>]
    /\ reported' = [reported EXCEPT ![r] = {}]
    /\ sid' = [sid EXCEPT ![r] = 0]

\* Faulty variant: no write lock.
WritesTogether(r) == r \in Reporters

MayWrite(r) == writer \in {r, NoOne}

\* The agent a row is attributed to: that of its series.
Owner(tables, row) == AgentOf[tables.series[row.sid]]

Clearing == \E d \in Deleters : pc[d] = "clear"
Reporting == \E r \in Reporters : pc[r] # "idle"
----------------------------------------------------------------------------
(* SaveResults: one transaction for a whole report. *)

\* The report passed validation; SaveResults opens its transaction.
Begin(r, results) ==
    /\ pc[r] = "idle"
    /\ Connections < MaxConns
    /\ pc' = [pc EXCEPT ![r] = "lookup"]
    /\ batch' = [batch EXCEPT ![r] = results]
    /\ disturbed' = (disturbed \/ Clearing)
    /\ UNCHANGED <<db, work, writer, cache, reported, sid, deleteVars, faults>>

\* seriesID, a hit: the cached id is used as it is.
LookupHit(r) ==
    /\ pc[r] = "lookup"
    /\ cache[Head(batch[r])] # 0
    /\ sid' = [sid EXCEPT ![r] = cache[Head(batch[r])]]
    /\ pc' = [pc EXCEPT ![r] = "insert"]
    /\ UNCHANGED <<db, work, writer, cache, batch, reported, deleteVars, disturbed, faults>>

LookupMiss(r) ==
    /\ pc[r] = "lookup"
    /\ cache[Head(batch[r])] = 0
    /\ pc' = [pc EXCEPT ![r] = "upsert"]
    /\ UNCHANGED <<db, work, writer, cache, reportVars, deleteVars, disturbed, faults>>

\* The id SQLite gives a new row.
NewId(series, id) ==
    /\ \A i \in Ids : series[i] # NoKey => i < id
    /\ id > 1 => series[id - 1] # NoKey

\* Faulty variant: a plain INSERT, without the ON CONFLICT clause.
AlwaysInsertSeries(r) ==
    /\ pc[r] = "upsert"
    /\ MayWrite(r)
    /\ \E id \in Ids :
         /\ NewId(Base(r).series, id)
         /\ work' = [Base(r) EXCEPT !.series[id] = Head(batch[r])]
         /\ cache' = [cache EXCEPT ![Head(batch[r])] = id]
         /\ sid' = [sid EXCEPT ![r] = id]
    /\ writer' = r
    /\ pc' = [pc EXCEPT ![r] = "insert"]
    /\ UNCHANGED <<db, batch, reported, deleteVars, disturbed, faults>>

\* seriesID after a miss: find or create the series, then seriesCache.Store, still
\* inside the transaction.
Upsert(r) ==
    /\ pc[r] = "upsert"
    /\ MayWrite(r)
    /\ LET key == Head(batch[r])
           series == Base(r).series
       IN  \E id \in Ids :
             /\ IF \E i \in Ids : series[i] = key THEN series[id] = key ELSE NewId(series, id)
             /\ work' = [Base(r) EXCEPT !.series[id] = key]
             /\ cache' = [cache EXCEPT ![key] = id]
             /\ sid' = [sid EXCEPT ![r] = id]
    /\ writer' = r
    /\ pc' = [pc EXCEPT ![r] = "insert"]
    /\ UNCHANGED <<db, batch, reported, deleteVars, disturbed, faults>>

\* Faulty variant: the loop runs once too often.
InsertOneMore(r) ==
    /\ pc[r] = "insert"
    /\ MayWrite(r)
    /\ Base(r).series[sid[r]] # NoKey
    /\ work' = [Base(r) EXCEPT !.rows = @ \cup {[sid |-> sid[r], of |-> Head(batch[r])]}]
    /\ reported' = [reported EXCEPT ![r] = @ \cup {AgentOf[Head(batch[r])]}]
    /\ writer' = r
    /\ batch' = [batch EXCEPT ![r] = Tail(@)]
    /\ pc' = [pc EXCEPT ![r] = IF batch[r] = <<>> THEN "commit" ELSE "lookup"]
    /\ UNCHANGED <<db, cache, sid, deleteVars, disturbed, faults>>

\* INSERT INTO results; the foreign key must exist.
Insert(r) ==
    /\ pc[r] = "insert"
    /\ MayWrite(r)
    /\ Base(r).series[sid[r]] # NoKey
    /\ LET key == Head(batch[r])
       IN  /\ work' = [Base(r) EXCEPT !.rows = @ \cup {[sid |-> sid[r], of |-> key]}]
           /\ reported' = [reported EXCEPT ![r] = @ \cup {AgentOf[key]}]
    /\ writer' = r
    /\ batch' = [batch EXCEPT ![r] = Tail(@)]
    /\ pc' = [pc EXCEPT ![r] = IF Tail(batch[r]) = <<>> THEN "commit" ELSE "lookup"]
    /\ UNCHANGED <<db, cache, sid, deleteVars, disturbed, faults>>

\* Faulty variant: the heartbeat is left to the next fetch of the tasks.
CommitWithoutHeartbeat(r) ==
    /\ pc[r] = "commit"
    /\ db' = work
    /\ work' = NoTables /\ writer' = NoOne
    /\ Return(r)
    /\ UNCHANGED <<cache, deleteVars, disturbed, faults>>

\* The heartbeat rows of the report's agents, and COMMIT.
Commit(r) ==
    /\ pc[r] = "commit"
    /\ db' = [work EXCEPT !.statuses = @ \cup {Trimmed[agent] : agent \in reported[r]}]
    /\ work' = NoTables /\ writer' = NoOne
    /\ Return(r)
    /\ UNCHANGED <<cache, deleteVars, disturbed, faults>>

\* The deferred tx.Rollback of a failed report.  The cache is not rolled back.
Rollback(r) ==
    /\ Return(r)
    /\ IF writer = r
       THEN /\ work' = NoTables /\ writer' = NoOne
            /\ disturbed' = (disturbed \/ work.series # db.series)
       ELSE UNCHANGED <<work, writer, disturbed>>
    /\ UNCHANGED <<db, cache, deleteVars>>

\* The foreign key does not exist: "FOREIGN KEY constraint failed".
InsertFails(r) ==
    /\ pc[r] = "insert"
    /\ MayWrite(r)
    /\ Base(r).series[sid[r]] = NoKey
    /\ Rollback(r)
    /\ UNCHANGED faults

\* A full disk, an I/O error, or no write lock within busy_timeout.
StoreFails(r) ==
    /\ pc[r] # "idle"
    /\ Fault
    /\ Rollback(r)

\* Bound: the ids end at MaxId (SQLite's at 2^63 - 1); a report that needs one more fails.
OutOfIds(r) ==
    /\ pc[r] = "upsert"
    /\ MayWrite(r)
    /\ Base(r).series[MaxId] # NoKey
    /\ \A i \in Ids : Base(r).series[i] # Head(batch[r])
    /\ Rollback(r)
    /\ UNCHANGED faults
----------------------------------------------------------------------------
(* DeleteAgent, heartbeats and restarts. *)

BeginDelete(d, agent) ==
    /\ pc[d] = "idle"
    /\ Connections < MaxConns
    /\ pc' = [pc EXCEPT ![d] = "delete"]
    /\ target' = [target EXCEPT ![d] = Trimmed[agent]]
    /\ UNCHANGED <<db, work, writer, cache, reportVars, todo, disturbed, faults>>

\* The tables without an agent's rows, series and heartbeat.
Without(tables, agent) ==
    [series |-> [i \in Ids |->
                   IF tables.series[i] # NoKey /\ AgentOf[tables.series[i]] = agent
                   THEN NoKey ELSE tables.series[i]],
     rows |-> {row \in tables.rows : Owner(tables, row) # agent},
     statuses |-> tables.statuses \ {agent}]

\* The four DELETE statements and COMMIT: they hold the write lock throughout.
DeleteCommit(d) ==
    /\ pc[d] = "delete"
    /\ writer = NoOne
    /\ db' = Without(db, target[d])
    /\ pc' = [pc EXCEPT ![d] = "clear"]
    /\ todo' = [todo EXCEPT ![d] = {k \in Series : cache[k] # 0}]
    /\ disturbed' = (disturbed \/ Reporting)
    /\ UNCHANGED <<work, writer, cache, reportVars, target, faults>>

DeleteFails(d) ==
    /\ pc[d] = "delete"
    /\ Fault
    /\ pc' = [pc EXCEPT ![d] = "idle"]
    /\ target' = [target EXCEPT ![d] = NoOne]
    /\ UNCHANGED <<db, work, writer, cache, reportVars, todo, disturbed>>

\* seriesCache.Range: every entry present when it starts is visited, an entry stored
\* meanwhile may be.
ClearEntry(d, key) ==
    /\ pc[d] = "clear"
    /\ cache[key] # 0 \/ key \in todo[d]
    /\ cache' = [cache EXCEPT ![key] = 0]
    /\ todo' = [todo EXCEPT ![d] = @ \ {key}]
    /\ UNCHANGED <<db, work, writer, pc, reportVars, target, disturbed, faults>>

\* Faulty variant: DeleteAgent returns without emptying the cache.
ReturnsUncleared(d) ==
    /\ pc[d] = "clear"
    /\ pc' = [pc EXCEPT ![d] = "idle"]
    /\ target' = [target EXCEPT ![d] = NoOne]
    /\ UNCHANGED <<db, work, writer, cache, reportVars, todo, disturbed, faults>>

ClearDone(d) ==
    /\ pc[d] = "clear"
    /\ todo[d] = {}
    /\ pc' = [pc EXCEPT ![d] = "idle"]
    /\ target' = [target EXCEPT ![d] = NoOne]
    /\ UNCHANGED <<db, work, writer, cache, reportVars, todo, disturbed, faults>>

\* SaveAgentHeartbeat: one statement, its own transaction.
Heartbeat(agent) ==
    /\ writer = NoOne
    /\ db' = [db EXCEPT !.statuses = @ \cup {Trimmed[agent]}]
    /\ UNCHANGED <<work, writer, cache, pc, reportVars, deleteVars, disturbed, faults>>

\* The supervisor dies and starts again: what was committed stays, the rest is gone.
Restart ==
    /\ Fault
    /\ work' = NoTables /\ writer' = NoOne
    /\ cache' = [k \in Series |-> 0]
    /\ pc' = [p \in Reporters \cup Deleters |-> "idle"]
    /\ batch' = [r \in Reporters |-> <<>>] /\ reported' = [r \in Reporters |-> {}]
    /\ sid' = [r \in Reporters |-> 0]
    /\ target' = [d \in Deleters |-> NoOne] /\ todo' = [d \in Deleters |-> {}]
    /\ UNCHANGED <<db, disturbed>>
----------------------------------------------------------------------------
Batches == UNION {[1 .. n -> Series] : n \in 1 .. MaxBatch}

ReportStep(r) ==
    \/ \E results \in Batches : Begin(r, results)
    \/ LookupHit(r) \/ LookupMiss(r) \/ Upsert(r) \/ Insert(r) \/ Commit(r)
    \/ InsertFails(r) \/ StoreFails(r) \/ OutOfIds(r)

DeleteStep(d) ==
    \/ \E agent \in Agents : BeginDelete(d, agent)
    \/ DeleteCommit(d) \/ DeleteFails(d) \/ ClearDone(d)
    \/ \E key \in Series : ClearEntry(d, key)

Next ==
    \/ \E r \in Reporters : ReportStep(r)
    \/ \E d \in Deleters : DeleteStep(d)
    \/ \E agent \in Agents : Heartbeat(agent)
    \/ Restart

Spec == Init /\ [][Next]_vars
----------------------------------------------------------------------------
(* Properties. *)

Tables == [series : [Ids -> Series \cup {NoKey}],
           rows : SUBSET [sid : Ids, of : Series],
           statuses : SUBSET Agents]

ReportStages == {"idle", "lookup", "upsert", "insert", "commit"}
DeleteStages == {"idle", "delete", "clear"}

\* Every variable has its type; a call that needs a result or an agent at hand has one,
\* and only a call under way holds the write lock.
TypeOK ==
    /\ db \in Tables /\ work \in Tables
    /\ writer \in Reporters \cup {NoOne}
    /\ cache \in [Series -> Ids \cup {0}]
    /\ pc \in [Reporters \cup Deleters -> ReportStages \cup DeleteStages]
    /\ \A r \in Reporters : pc[r] \in ReportStages
    /\ \A d \in Deleters : pc[d] \in DeleteStages
    /\ batch \in [Reporters -> Seq(Series)]
    /\ reported \in [Reporters -> SUBSET Agents]
    /\ sid \in [Reporters -> Ids \cup {0}]
    /\ target \in [Deleters -> Agents \cup {NoOne}]
    /\ todo \in [Deleters -> SUBSET Series]
    /\ disturbed \in BOOLEAN /\ faults \in Nat
    /\ \A r \in Reporters : pc[r] \in {"lookup", "upsert", "insert"} => batch[r] # <<>>
    /\ \A r \in Reporters : pc[r] = "insert" => sid[r] \in Ids
    /\ \A d \in Deleters : pc[d] # "idle" => target[d] \in Agents
    /\ writer # NoOne => pc[writer] # "idle"

\* Every committed row has its series, and no two series rows have the same key: the
\* foreign keys, the upsert and the order of DeleteAgent's statements together.
TablesConsistent ==
    /\ \A row \in db.rows : db.series[row.sid] # NoKey
    /\ \A i, j \in Ids : db.series[i] = db.series[j] /\ db.series[i] # NoKey => i = j

\* Trimming leaves the name as it is.
Plain(agent) == Trimmed[agent] = agent

\* An agent that has data is in agent_statuses, where the dashboard and DeleteAgent
\* find it: a series and the heartbeat of its agent come and go together.  This is true
\* of names without outer spaces only: data under any other name are listed, if at all,
\* under the trimmed one, and no deletion takes them.
EveryAgentListed ==
    \A i \in Ids :
        db.series[i] # NoKey /\ Plain(AgentOf[db.series[i]])
            => AgentOf[db.series[i]] \in db.statuses

\* Each row that leaves the committed tables does so in a deletion of its own agent.
LeavesOnlyWithAgent ==
    \A row \in db.rows \ db'.rows :
      \E d \in Deleters : pc[d] = "delete" /\ pc'[d] = "clear" /\ Owner(db, row) = target[d]

\* A committed row goes away only with its agent: no rollback, no concurrent report
\* and no deletion of another agent takes it along.
RowsLeaveWithAgent == [][LeavesOnlyWithAgent]_vars

\* Every committed row belongs to the series it was reported for.
Attributed == \A row \in db.rows : db.series[row.sid] = row.of

\* Attribution can only go wrong after one of two events: a transaction that had created
\* a series rolled back, or a report overlapped the end of a DeleteAgent (its commit,
\* or the clearing of the cache after it).
AttributedUnlessDisturbed == disturbed \/ Attributed
============================================================================
