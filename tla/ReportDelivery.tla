--------------------------- MODULE ReportDelivery ---------------------------
(***************************************************************************)
(* One agent, the HTTP connection and the supervisor's report handler.     *)
(*                                                                         *)
(* The agent (cmd/agent/main.go) loops: fetch the tasks, probe every       *)
(* target, append the results to its in-memory queue, and post the queue   *)
(* to /api/report in batches of BatchSize, oldest first, dropping a batch  *)
(* from the queue when it is answered with 2xx.  Any error ends the cycle  *)
(* and keeps the queue for the next one.                                   *)
(*                                                                         *)
(* A request the agent gave up on (its 10 s client timeout, a lost answer) *)
(* goes on inside the supervisor: the handler never looks at the request   *)
(* context.  So several requests may be in flight, and they may carry the  *)
(* same results.                                                           *)
(*                                                                         *)
(* Results are numbered in the order they are produced; log[i] is what the *)
(* properties need of result i.                                            *)
(***************************************************************************)
EXTENDS Naturals, Sequences, Functions, FiniteSets

CONSTANTS
    Targets,      \* most tasks the supervisor hands out in one round
    BatchSize,    \* uploadBatchSize
    MaxPending,   \* cfg.MaxPendingResults
    BodyLimit,    \* how many long results fit in one body (maxReportBodyBytes)
    InFlight,     \* bound: requests in the network or in a handler at once
    Rounds,       \* bound: probe rounds that produce results
    Kinds,        \* bound: the kinds of result the probes produce
    MaxFaults,    \* bound: faults of the network, the processes and the disk
    FailureCap    \* bound: consecutiveFailures saturates here

\* "up": the probe reached its target.  "down": it never did (SuccessCount = 0).
\* "refused": validateReportResult rejects it, now and on every retry
\* (an overlong label or name, params.count above 10000).
Outcomes == {"up", "down", "refused"}

\* A long result is valid by itself, but so many labels and so long an error text that
\* a batch full of them exceeds the body; a full batch of others never does.
Kind == [outcome : Outcomes, long : BOOLEAN]

ASSUME DeliveryAssumption ==
    /\ Targets \in Nat /\ Rounds \in Nat /\ MaxFaults \in Nat /\ InFlight \in Nat
    /\ BatchSize \in Nat \ {0}
    /\ MaxPending \in Nat \ {0}     \* LoadAgent replaces any other value by 1000
    /\ BodyLimit \in Nat \ {0}      \* the limits of one result lie far below that of a body
    /\ Kinds \subseteq Kind
    /\ FailureCap \in Nat

VARIABLES
    log,        \* history: every result produced, in order
    pending,    \* the agent's queue of result numbers, oldest first
    pc,         \* where the agent's loop stands
    failures,   \* consecutiveFailures
    cur,        \* the request the agent is waiting for, 0 when it waits for none
    post,       \* the requests: where each stands and the batch it carries
    stored,     \* results with at least one row in the results table
    twice,      \* results with several rows
    gone,       \* history: results the agent discarded (overflow, process end)
    doubtful,   \* history: results of a request whose outcome the agent never learned
    faults      \* history: faults so far

agentVars == <<log, pending, pc, failures, cur, gone>>
vars == <<log, pending, pc, failures, cur, post, stored, twice, gone, doubtful, faults>>

Slots == 1 .. InFlight

Smaller(a, b) == IF a < b THEN a ELSE b

Idle == [stage |-> "idle", batch |-> <<>>]

LastRound == IF log = <<>> THEN 0 ELSE log[Len(log)].round

Init ==
    /\ log = <<>> /\ pending = <<>>
    /\ pc = "fetch" /\ failures = 0 /\ cur = 0
    /\ post = [h \in Slots |-> Idle]
    /\ stored = {} /\ twice = {} /\ gone = {} /\ doubtful = {}
    /\ faults = 0

\* Results whose fate the agent no longer learns when it loses its request.
InDoubt == IF pc = "await" THEN Range(post[cur].batch) ELSE {}

Fault == faults < MaxFaults /\ faults' = faults + 1
----------------------------------------------------------------------------
(* The agent. *)

\* Every error of a cycle: the queue stays, the loop sleeps for retrySeconds.
CycleFails ==
    /\ pc' = "sleep"
    /\ failures' = Smaller(failures + 1, FailureCap)
    /\ UNCHANGED <<log, pending, gone>>

FetchTasks ==
    /\ pc = "fetch"
    /\ pc' = "probe"
    /\ UNCHANGED <<log, pending, failures, cur, post, stored, twice, gone, doubtful, faults>>

FetchFails ==
    /\ pc = "fetch"
    /\ Fault
    /\ CycleFails
    /\ UNCHANGED <<cur, post, stored, twice, doubtful>>

\* Faulty variant of AppendPending: a full queue turns away the new results.
KeepOldest(queue, batch) ==
    LET all == queue \o batch
    IN  SubSeq(all, 1, Smaller(Len(all), MaxPending))

\* appendPendingResults: the newest MaxPending results stay.
AppendPending(queue, batch) ==
    LET all == queue \o batch
    IN  SubSeq(all, Len(all) - Smaller(Len(all), MaxPending) + 1, Len(all))

\* A round probes n tasks; n = 0 when the supervisor has no targets.  A round
\* cut short by a signal returns fewer results than there were tasks.
Probe(n, kind) ==
    /\ pc = "probe"
    /\ n > 0 => LastRound < Rounds
    /\ LET fresh == [i \in 1 .. n |-> Len(log) + i]
       IN  /\ log' = log \o [i \in 1 .. n |->
                               [outcome |-> kind[i].outcome, long |-> kind[i].long,
                                round |-> LastRound + 1]]
           /\ pending' = AppendPending(pending, fresh)
           /\ gone' = gone \cup ((Range(pending) \cup Range(fresh)) \ Range(pending'))
    /\ IF pending' = <<>>
       THEN pc' = "sleep" /\ failures' = 0
       ELSE pc' = "upload" /\ UNCHANGED failures
    /\ UNCHANGED <<cur, post, stored, twice, doubtful, faults>>

\* uploadPendingResults posts pending[:n], n = min(uploadBatchSize, len).
NextBatch(queue) == SubSeq(queue, 1, Smaller(BatchSize, Len(queue)))

\* Which free slot carries a request means nothing: the lowest one does.
Free(h) == post[h] = Idle /\ \A k \in 1 .. h - 1 : post[k] # Idle


Send(h) ==
    /\ pc = "upload"
    /\ Free(h)
    /\ post' = [post EXCEPT ![h] = [stage |-> "sent", batch |-> NextBatch(pending)]]
    /\ cur' = h
    /\ pc' = "await"
    /\ UNCHANGED <<log, pending, failures, stored, twice, gone, doubtful, faults>>

\* Faulty variant of Trim: it takes the batch off the wrong end.
TrimTail(queue, batch) == SubSeq(queue, 1, Len(queue) - Len(batch))

\* pending = pending[n:]
Trim(queue, batch) == SubSeq(queue, Len(batch) + 1, Len(queue))

\* 2xx: the batch leaves the queue; an empty queue ends the cycle with success.
Accepted ==
    /\ pc = "await"
    /\ post[cur].stage = "answered"
    /\ pending' = Trim(pending, post[cur].batch)
    /\ IF pending' = <<>>
       THEN pc' = "sleep" /\ failures' = 0
       ELSE pc' = "upload" /\ UNCHANGED failures
    /\ post' = [post EXCEPT ![cur] = Idle]
    /\ cur' = 0
    /\ UNCHANGED <<log, stored, twice, gone, doubtful, faults>>

\* Faulty variant of Rejected: any answer counts as delivered.
RejectedTrims ==
    /\ pc = "await"
    /\ post[cur].stage = "refused"
    /\ pc' = "sleep" /\ failures' = 0
    /\ pending' = Trim(pending, post[cur].batch)
    /\ post' = [post EXCEPT ![cur] = Idle]
    /\ cur' = 0
    /\ UNCHANGED <<log, stored, twice, gone, doubtful, faults>>

\* 400 or 500: the queue stays and so does the batch at its head.
Rejected ==
    /\ pc = "await"
    /\ post[cur].stage = "refused"
    /\ CycleFails
    /\ post' = [post EXCEPT ![cur] = Idle]
    /\ cur' = 0
    /\ UNCHANGED <<stored, twice, doubtful, faults>>

\* The client's timeout, or a connection that breaks before the answer is read.
\* The request itself goes on, unattended.
GiveUp ==
    /\ pc = "await"
    /\ Fault
    /\ CycleFails
    /\ doubtful' = doubtful \cup InDoubt
    /\ cur' = 0
    /\ UNCHANGED <<post, stored, twice>>

Wake ==
    /\ pc = "sleep"
    /\ pc' = "fetch"
    /\ UNCHANGED <<log, pending, failures, cur, post, stored, twice, gone, doubtful, faults>>

\* The agent process ends (a signal, -once, a crash) and is started again.
AgentRestarts ==
    /\ Fault
    /\ gone' = gone \cup Range(pending)
    /\ pending' = <<>>
    /\ doubtful' = doubtful \cup InDoubt
    /\ pc' = "fetch" /\ failures' = 0 /\ cur' = 0
    /\ UNCHANGED <<log, post, stored, twice>>
----------------------------------------------------------------------------
(* The network and the supervisor's report handler. *)

\* The request never reaches the supervisor; the agent, if it still waits, learns
\* that it failed.
RequestLost(h) ==
    /\ post[h].stage = "sent"
    /\ Fault
    /\ post' = [post EXCEPT ![h] = Idle]
    /\ IF cur = h THEN CycleFails /\ cur' = 0 ELSE UNCHANGED agentVars
    /\ UNCHANGED <<stored, twice, doubtful>>

Invalid(batch) == \E i \in Range(batch) : log[i].outcome = "refused"

\* MaxBytesReader: the body of the batch is longer than the handler reads.
TooLarge(batch) == Cardinality({i \in Range(batch) : log[i].long}) > BodyLimit

Unacceptable(batch) == Invalid(batch) \/ TooLarge(batch)

\* One invalid result, or too large a body, refuses the whole batch, before anything is
\* written.
Refuse(h) ==
    /\ post[h].stage = "sent"
    /\ Unacceptable(post[h].batch)
    /\ post' = [post EXCEPT ![h].stage = "refused"]
    /\ UNCHANGED <<agentVars, stored, twice, doubtful, faults>>

\* SaveResults commits one row for every result of the batch ...
Save(h) ==
    /\ post[h].stage = "sent"
    /\ ~Unacceptable(post[h].batch)
    /\ post' = [post EXCEPT ![h].stage = "saved"]
    /\ twice' = twice \cup (stored \cap Range(post[h].batch))
    /\ stored' = stored \cup Range(post[h].batch)
    /\ UNCHANGED <<agentVars, doubtful, faults>>

\* Faulty variant of SaveFails: the first row was written outside the transaction.
PartialSave(h) ==
    /\ post[h].stage = "sent"
    /\ ~Unacceptable(post[h].batch)
    /\ Fault
    /\ post' = [post EXCEPT ![h].stage = "refused"]
    /\ twice' = twice \cup (stored \cap {post[h].batch[1]})
    /\ stored' = stored \cup {post[h].batch[1]}
    /\ UNCHANGED <<agentVars, doubtful>>

\* ... or rolls back and answers 500.  (A 400 that a retry does not get again, because
\* the agent's clock was ahead of the accepted range, has the same effect.)
SaveFails(h) ==
    /\ post[h].stage = "sent"
    /\ ~Unacceptable(post[h].batch)
    /\ Fault
    /\ post' = [post EXCEPT ![h].stage = "refused"]
    /\ UNCHANGED <<agentVars, stored, twice, doubtful>>

\* After the commit: clear the results cache, update the agent's connectivity,
\* broadcast, write the answer.
Answer(h) ==
    /\ post[h].stage = "saved"
    /\ post' = [post EXCEPT ![h].stage = "answered"]
    /\ UNCHANGED <<agentVars, stored, twice, doubtful, faults>>

\* The answer to a request nobody waits for is discarded.
Discard(h) ==
    /\ post[h].stage \in {"answered", "refused"}
    /\ cur # h
    /\ post' = [post EXCEPT ![h] = Idle]
    /\ UNCHANGED <<agentVars, stored, twice, doubtful, faults>>

\* The supervisor stops and comes back: every request inside it dies where it
\* stands, what was committed stays.
SupervisorRestarts ==
    /\ Fault
    /\ post' = [h \in Slots |-> Idle]
    /\ IF pc = "await" THEN CycleFails /\ cur' = 0 ELSE UNCHANGED agentVars
    /\ doubtful' = doubtful \cup InDoubt
    /\ UNCHANGED <<stored, twice>>
----------------------------------------------------------------------------
SomeProbe == \E n \in 0 .. Targets : \E kind \in [1 .. n -> Kinds] : Probe(n, kind)

AgentStep ==
    \/ FetchTasks \/ SomeProbe \/ Accepted \/ Rejected \/ Wake
    \/ \E h \in Slots : Send(h)

HandlerStep(h) == Refuse(h) \/ Save(h) \/ Answer(h) \/ Discard(h)

FaultStep ==
    \/ FetchFails \/ GiveUp \/ AgentRestarts \/ SupervisorRestarts
    \/ \E h \in Slots : RequestLost(h) \/ SaveFails(h)

Next ==
    \/ AgentStep
    \/ \E h \in Slots : HandlerStep(h)
    \/ FaultStep

\* The agent's loop and each handler goroutine keep running; faults are never owed.
Fairness ==
    /\ WF_vars(AgentStep)
    /\ \A h \in Slots : WF_vars(HandlerStep(h))

Spec == Init /\ [][Next]_vars
FairSpec == Spec /\ Fairness
----------------------------------------------------------------------------
(* Properties. *)

Results == 1 .. Len(log)

RequestType ==
    [stage : {"idle", "sent", "refused", "saved", "answered"}, batch : Seq(Results)]

\* Every variable has its type, and the agent waits exactly while it has a request.
TypeOK ==
    /\ log \in Seq([outcome : Outcomes, long : BOOLEAN, round : Nat])
    /\ pending \in Seq(Results)
    /\ pc \in {"fetch", "probe", "upload", "await", "sleep"}
    /\ failures \in Nat
    /\ cur \in IF pc = "await" THEN Slots ELSE {0}
    /\ post \in [Slots -> RequestType]
    /\ stored \subseteq Results /\ twice \subseteq stored
    /\ gone \subseteq Results /\ doubtful \subseteq Results
    /\ faults \in Nat

\* The queue is always the newest results in the order they were produced, with no
\* gap and no repetition, and never longer than MaxPending: retries, trims after a
\* partial upload and overflow together never reorder it or skip a result.
PendingIsNewest ==
    /\ Len(pending) <= MaxPending
    /\ \A i \in 1 .. Len(pending) : pending[i] = Len(log) - Len(pending) + i

\* No result vanishes: each one has a row, or is still queued, or was discarded by
\* an overflow or by the end of the agent process.
NothingVanishes == Results \subseteq stored \cup Range(pending) \cup gone

\* A result gets a second row only if the agent once gave up on a request carrying
\* it without learning the outcome.  A retry after a 400, a 500 or a lost request
\* never duplicates.
DuplicatesOnlyAfterDoubt == twice \subseteq doubtful

\* The head of the queue is refused on every retry.
Stuck == Unacceptable(NextBatch(pending))


\* What the reporting path promises: see AtLeastOnce.
Promise == INSTANCE AtLeastOnce
             WITH Capacity <- MaxPending, RoundSize <- Targets, produced <- Len(log),
                  held <- Range(pending), lost <- gone

\* The queue, the retries and the handler implement that promise.
ImplementsPromise == Promise!Spec
============================================================================
