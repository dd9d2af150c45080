----------------------------- MODULE ProbePool -----------------------------
(***************************************************************************)
(* The agent's probe pool (probeTasks): a feeder goroutine hands the tasks *)
(* of a round to workers over an unbuffered channel, the workers put their *)
(* results into a buffered one, and the caller collects until that is      *)
(* closed.  A signal cancels the context at any moment.                    *)
(*                                                                         *)
(* Tasks are numbered in the order they are fed; a result is the number of *)
(* its task.                                                               *)
(***************************************************************************)
EXTENDS Naturals, Sequences, FiniteSets, Functions

CONSTANTS
    MaxTasks,       \* bound: tasks of a round
    Concurrencies,  \* the values probe_concurrency takes, 0 for any that is not positive
    Default         \* workers for 0

ASSUME PoolAssumption ==
    /\ MaxTasks \in Nat /\ Concurrencies \subseteq Nat
    /\ Default \in Nat \ {0}

VARIABLES
    tasks,      \* number of tasks
    workers,    \* the worker goroutines
    cancelled,  \* ctx.Done() is closed
    fed,        \* tasks handed to workers so far
    feeder,     \* where the feeder stands: feed, wait, done
    worker,     \* where each worker stands: ready, check, probe, send, gone
    job,        \* the task each worker has, 0 for none
    results,    \* the buffered channel
    closed,     \* results is closed
    batch,      \* what the caller has collected
    returned    \* probeTasks has returned

feederVars == <<fed, feeder, closed>>
workerVars == <<worker, job>>
callerVars == <<batch, returned>>
vars == <<tasks, workers, cancelled, feederVars, workerVars, results, callerVars>>

Tasks == 1 .. tasks

\* The configured concurrency, but never more workers than tasks.
PoolSize(n, concurrency) ==
    LET wanted == IF concurrency = 0 THEN Default ELSE concurrency
    IN  IF wanted > n THEN n ELSE wanted

\* With no worker there is no task: the call returns at once.
Init ==
    /\ tasks \in 0 .. MaxTasks
    /\ \E concurrency \in Concurrencies : workers = 1 .. PoolSize(tasks, concurrency)
    /\ cancelled = FALSE
    /\ fed = 0 /\ feeder = (IF workers = {} THEN "done" ELSE "feed")
    /\ worker = [w \in workers |-> "ready"] /\ job = [w \in workers |-> 0]
    /\ results = << >> /\ closed = (workers = {})
    /\ batch = << >> /\ returned = FALSE
----------------------------------------------------------------------------
(* The feeder. *)

\* jobs <- task, which needs a worker that waits for one.
Hand(w) ==
    /\ feeder = "feed" /\ fed < tasks
    /\ worker[w] = "ready"
    /\ fed' = fed + 1
    /\ worker' = [worker EXCEPT ![w] = "check"]
    /\ job' = [job EXCEPT ![w] = fed + 1]
    /\ UNCHANGED <<tasks, workers, cancelled, feeder, closed, results, callerVars>>

\* Faulty variant of StopFeeding: it waits for every task to be taken.
StopWhenFed ==
    /\ feeder = "feed" /\ fed = tasks
    /\ feeder' = "wait"
    /\ UNCHANGED <<tasks, workers, cancelled, fed, closed, workerVars, results, callerVars>>

\* The other branch of the select.  close(jobs) follows in both cases.
StopFeeding ==
    /\ feeder = "feed" /\ (fed = tasks \/ cancelled)
    /\ feeder' = "wait"
    /\ UNCHANGED <<tasks, workers, cancelled, fed, closed, workerVars, results, callerVars>>

\* Faulty variant of Close: it does not wait for the workers.
CloseEarly ==
    /\ feeder = "wait"
    /\ feeder' = "done" /\ closed' = TRUE
    /\ UNCHANGED <<tasks, workers, cancelled, fed, workerVars, results, callerVars>>

\* wg.Wait() and close(results)
Close ==
    /\ feeder = "wait"
    /\ \A w \in workers : worker[w] = "gone"
    /\ feeder' = "done" /\ closed' = TRUE
    /\ UNCHANGED <<tasks, workers, cancelled, fed, workerVars, results, callerVars>>
----------------------------------------------------------------------------
(* The workers. *)

Become(w, stage) == worker' = [worker EXCEPT ![w] = stage]

\* Faulty variant of Check: it asks whether the channel of jobs was closed.
CheckFeeder(w) ==
    /\ worker[w] = "check"
    /\ IF feeder # "feed"
       THEN Become(w, "gone") /\ job' = [job EXCEPT ![w] = 0]
       ELSE Become(w, "probe") /\ UNCHANGED job
    /\ UNCHANGED <<tasks, workers, cancelled, feederVars, results, callerVars>>

\* A worker looks at the context before it probes; a task it has taken is dropped then.
Check(w) ==
    /\ worker[w] = "check"
    /\ IF cancelled
       THEN Become(w, "gone") /\ job' = [job EXCEPT ![w] = 0]
       ELSE Become(w, "probe") /\ UNCHANGED job
    /\ UNCHANGED <<tasks, workers, cancelled, feederVars, results, callerVars>>

\* tcpPing returns in any case: each attempt has a timeout, and a cancelled one an error.
Probe(w) ==
    /\ worker[w] = "probe"
    /\ Become(w, "send")
    /\ UNCHANGED <<tasks, workers, cancelled, feederVars, job, results, callerVars>>

\* Faulty variant of Deliver: a cancelled worker goes without its result.
DeliverUnlessCancelled(w) ==
    /\ worker[w] = "send"
    /\ IF cancelled THEN UNCHANGED results ELSE results' = Append(results, job[w])
    /\ Become(w, "ready") /\ job' = [job EXCEPT ![w] = 0]
    /\ UNCHANGED <<tasks, workers, cancelled, feederVars, callerVars>>

\* results <- result, which has room for the results of all tasks.
Deliver(w) ==
    /\ worker[w] = "send"
    /\ Len(results) < tasks
    /\ results' = Append(results, job[w])
    /\ Become(w, "ready") /\ job' = [job EXCEPT ![w] = 0]
    /\ UNCHANGED <<tasks, workers, cancelled, feederVars, callerVars>>

\* jobs is closed and empty.
Leave(w) ==
    /\ worker[w] = "ready" /\ feeder # "feed"
    /\ Become(w, "gone")
    /\ UNCHANGED <<tasks, workers, cancelled, feederVars, job, results, callerVars>>
----------------------------------------------------------------------------
(* The caller and the signal. *)

Collect ==
    /\ ~returned /\ results # << >>
    /\ batch' = Append(batch, Head(results))
    /\ results' = Tail(results)
    /\ UNCHANGED <<tasks, workers, cancelled, feederVars, workerVars, returned>>

\* The range over results ends when the channel is closed and empty.
Return ==
    /\ ~returned /\ closed /\ results = << >>
    /\ returned' = TRUE
    /\ UNCHANGED <<tasks, workers, cancelled, feederVars, workerVars, results, batch>>

Cancel ==
    /\ ~cancelled
    /\ cancelled' = TRUE
    /\ UNCHANGED <<tasks, workers, feederVars, workerVars, results, callerVars>>

FeederStep == StopFeeding \/ Close \/ \E w \in workers : Hand(w)
WorkerStep(w) == Check(w) \/ Probe(w) \/ Deliver(w) \/ Leave(w)
CallerStep == Collect \/ Return

Next ==
    \/ FeederStep \/ CallerStep \/ Cancel
    \/ \E w \in workers : WorkerStep(w)

\* Feeder, workers and caller keep running; nobody owes a signal.
Fairness ==
    /\ WF_vars(FeederStep) /\ WF_vars(CallerStep)
    /\ \A w \in 1 .. MaxTasks : WF_vars(w \in workers /\ WorkerStep(w))

Spec == Init /\ [][Next]_vars
FairSpec == Spec /\ Fairness
----------------------------------------------------------------------------
(* Properties. *)

\* Every variable has its type, and a worker has a task exactly while it works on one.
TypeOK ==
    /\ tasks \in Nat /\ workers \subseteq Tasks /\ (workers = {} => tasks = 0)
    /\ cancelled \in BOOLEAN /\ closed \in BOOLEAN /\ returned \in BOOLEAN
    /\ fed \in 0 .. tasks /\ feeder \in {"feed", "wait", "done"}
    /\ worker \in [workers -> {"ready", "check", "probe", "send", "gone"}]
    /\ job \in [workers -> 0 .. fed]
    /\ \A w \in workers : job[w] = 0 <=> worker[w] \in {"ready", "gone"}
    /\ results \in Seq(1 .. fed) /\ batch \in Seq(1 .. fed)

\* A result is never sent on the closed channel, which would end the process: the
\* channel is closed only after the last worker has left.
NoSendAfterClose == closed => \A w \in workers : worker[w] = "gone"

\* Every task that was handed out is in one place: with a worker, in the channel or in
\* the batch; only a cancelled context makes a worker drop one.  So no result is lost or
\* repeated between the goroutines, and a round no signal cut short returns a result for
\* every task (TestProbeTasksLimitsConcurrencyAndKeepsAllResults, on one schedule).
At(task) ==
    Cardinality({w \in workers : job[w] = task})
      + Cardinality({i \in DOMAIN results : results[i] = task})
      + Cardinality({i \in DOMAIN batch : batch[i] = task})

EachOnce ==
    \A task \in Tasks :
        /\ At(task) <= (IF task <= fed THEN 1 ELSE 0)
        /\ ~cancelled /\ (task <= fed \/ returned) => At(task) = 1

Probed(task) ==
    \/ \E w \in workers : job[w] = task /\ worker[w] = "send"
    \/ task \in Range(results) \cup Range(batch)

ProbesStay == \A task \in Tasks : Probed(task) => Probed(task)'

\* A probe that has come to its end is never lost again, whether the round is cancelled or
\* not: from its worker it goes to the channel, and from there to the batch.
ProbedIsKept == [][ProbesStay]_vars

\* The call returns, whenever the signal comes: feeder, workers and caller never wait
\* for one another for ever.
Returns == <>returned
============================================================================
