--------------------------- MODULE ProbePool_proofs ---------------------------
(***************************************************************************)
(* Proofs about the probe pool, for any number of tasks and workers.       *)
(***************************************************************************)
EXTENDS ProbePool, SequenceTheorems, FiniteSetTheorems, TLAPS

Placed(task) ==
    \/ \E w \in workers : job[w] = task
    \/ \E i \in DOMAIN results : results[i] = task
    \/ \E i \in DOMAIN batch : batch[i] = task

\* No two workers have the same task, ...
WorkersApart == \A v, w \in workers : job[v] = job[w] /\ job[v] # 0 => v = w

\* ... no task has two results, ...
ResultsApart ==
    /\ \A i, j \in DOMAIN results : results[i] = results[j] => i = j
    /\ \A i, j \in DOMAIN batch : batch[i] = batch[j] => i = j
    /\ \A i \in DOMAIN results, j \in DOMAIN batch : results[i] # batch[j]

\* ... and none has a result while a worker has it.
Moved ==
    \A w \in workers :
        /\ \A i \in DOMAIN results : results[i] # job[w]
        /\ \A i \in DOMAIN batch : batch[i] # job[w]

\* Only a signal makes a worker drop a task, or the feeder keep one.
NoneDropped ==
    ~cancelled =>
        /\ \A task \in 1 .. fed : Placed(task)
        /\ feeder # "feed" => fed = tasks

\* The order in which the goroutines end.
Ending ==
    /\ closed => feeder = "done" /\ \A w \in workers : worker[w] = "gone"
    /\ returned => closed /\ results = << >>

\* The inductive invariant.
Placing == WorkersApart /\ ResultsApart /\ Moved /\ NoneDropped /\ Ending
----------------------------------------------------------------------------
(* Types. *)

\* A pool has no worker only when there is no task.
LEMMA PoolSizes ==
    ASSUME NEW n \in Nat, NEW concurrency \in Concurrencies
    PROVE  /\ PoolSize(n, concurrency) \in 0 .. n
           /\ PoolSize(n, concurrency) = 0 => n = 0
  BY PoolAssumption DEF PoolAssumption, PoolSize

LEMMA InitTyped == Init => TypeOK
<1> SUFFICES ASSUME Init PROVE TypeOK
  OBVIOUS
<1>1. tasks \in Nat
  BY PoolAssumption DEF Init, PoolAssumption
<1>2. PICK concurrency \in Concurrencies : workers = 1 .. PoolSize(tasks, concurrency)
  BY DEF Init
<1>3. workers \subseteq Tasks /\ (workers = {} => tasks = 0)
  <2>1. PoolSize(tasks, concurrency) \in 0 .. tasks
        /\ (PoolSize(tasks, concurrency) = 0 => tasks = 0)
    BY <1>1, PoolSizes
  <2>2. workers = {} => PoolSize(tasks, concurrency) = 0
    <3> SUFFICES ASSUME PoolSize(tasks, concurrency) # 0 PROVE 1 \in workers
      OBVIOUS
    <3> QED  BY <1>1, <1>2, <2>1
  <2> QED  BY <1>1, <1>2, <2>1, <2>2 DEF Tasks
<1>4. cancelled \in BOOLEAN /\ returned \in BOOLEAN
  BY Zenon DEF Init
<1>5. closed \in BOOLEAN
  BY Zenon DEF Init
<1>6. fed \in 0 .. tasks /\ feeder \in {"feed", "wait", "done"}
  BY <1>1 DEF Init
<1>7. /\ worker \in [workers -> {"ready", "check", "probe", "send", "gone"}]
      /\ job \in [workers -> 0 .. fed]
      /\ \A w \in workers : job[w] = 0 <=> worker[w] \in {"ready", "gone"}
  BY DEF Init
<1>8. results \in Seq(1 .. fed) /\ batch \in Seq(1 .. fed)
  BY DEF Init
<1> QED  BY <1>1, <1>3, <1>4, <1>5, <1>6, <1>7, <1>8 DEF TypeOK

LEMMA TypeStep == TypeOK /\ [Next]_vars => TypeOK'
<1> SUFFICES ASSUME TypeOK, [Next]_vars PROVE TypeOK'
  OBVIOUS
<1>1. ASSUME NEW w \in workers, Hand(w) PROVE TypeOK'
  <2>1. fed' \in 0 .. tasks' /\ fed' = fed + 1 /\ fed \in Nat /\ tasks' = tasks
    BY <1>1 DEF Hand, TypeOK
  <2>2. 1 .. fed \subseteq 1 .. fed' /\ 0 .. fed \subseteq 0 .. fed' /\ fed' \in 0 .. fed' /\ fed' # 0
    BY <2>1
  <2>3. results' \in Seq(1 .. fed') /\ batch' \in Seq(1 .. fed')
    <3>1. Seq(1 .. fed) \subseteq Seq(1 .. fed')
      BY ONLY <2>2, SeqMonotonic
    <3> QED  BY <1>1, <3>1 DEF Hand, TypeOK, callerVars
  <2>4. /\ worker' \in [workers' -> {"ready", "check", "probe", "send", "gone"}]
        /\ job' \in [workers' -> 0 .. fed']
        /\ \A v \in workers' : job'[v] = 0 <=> worker'[v] \in {"ready", "gone"}
    BY <1>1, <2>1, <2>2 DEF Hand, TypeOK
  <2>5. UNCHANGED <<tasks, workers, cancelled, closed, returned, feeder>>
    BY <1>1 DEF Hand, callerVars
  <2> QED  BY <2>1, <2>3, <2>4, <2>5 DEF TypeOK, Tasks
<1>2. ASSUME StopFeeding PROVE TypeOK'
  BY <1>2 DEF StopFeeding, TypeOK, Tasks, workerVars, callerVars
<1>3. ASSUME Close PROVE TypeOK'
  BY <1>3 DEF Close, TypeOK, Tasks, workerVars, callerVars
<1>4. ASSUME NEW w \in workers, Check(w) PROVE TypeOK'
  <2>1. /\ worker' \in [workers' -> {"ready", "check", "probe", "send", "gone"}]
        /\ job' \in [workers' -> 0 .. fed']
        /\ \A v \in workers' : job'[v] = 0 <=> worker'[v] \in {"ready", "gone"}
    <3>1. CASE cancelled
      <4>1. /\ worker' = [worker EXCEPT ![w] = "gone"] /\ job' = [job EXCEPT ![w] = 0]
            /\ UNCHANGED <<workers, fed>>
        BY <1>4, <3>1 DEF Check, Become, feederVars
      <4>2. 0 \in 0 .. fed
        BY DEF TypeOK
      <4> QED  BY <4>1, <4>2 DEF TypeOK
    <3>2. CASE ~cancelled
      BY <1>4, <3>2 DEF Check, Become, TypeOK, feederVars
    <3> QED  BY <3>1, <3>2
  <2> QED  BY <1>4, <2>1 DEF Check, TypeOK, Tasks, feederVars, callerVars
<1>5. ASSUME NEW w \in workers, Probe(w) PROVE TypeOK'
  <2>1. /\ worker' \in [workers' -> {"ready", "check", "probe", "send", "gone"}]
        /\ job' \in [workers' -> 0 .. fed']
        /\ \A v \in workers' : job'[v] = 0 <=> worker'[v] \in {"ready", "gone"}
    BY <1>5 DEF Probe, Become, TypeOK, feederVars
  <2> QED  BY <1>5, <2>1 DEF Probe, TypeOK, Tasks, feederVars, callerVars
<1>6. ASSUME NEW w \in workers, Deliver(w) PROVE TypeOK'
  <2>1. /\ worker' \in [workers' -> {"ready", "check", "probe", "send", "gone"}]
        /\ job' \in [workers' -> 0 .. fed']
        /\ \A v \in workers' : job'[v] = 0 <=> worker'[v] \in {"ready", "gone"}
    BY <1>6 DEF Deliver, Become, TypeOK, feederVars
  <2>2. job[w] \in 1 .. fed /\ fed' = fed
    BY <1>6 DEF Deliver, TypeOK, feederVars
  <2>3. results' \in Seq(1 .. fed')
    BY <1>6, <2>2, AppendProperties DEF Deliver, TypeOK
  <2> QED  BY <1>6, <2>1, <2>3 DEF Deliver, TypeOK, Tasks, feederVars, callerVars
<1>7. ASSUME NEW w \in workers, Leave(w) PROVE TypeOK'
  <2>1. /\ worker' \in [workers' -> {"ready", "check", "probe", "send", "gone"}]
        /\ job' \in [workers' -> 0 .. fed']
        /\ \A v \in workers' : job'[v] = 0 <=> worker'[v] \in {"ready", "gone"}
    BY <1>7 DEF Leave, Become, TypeOK, feederVars
  <2> QED  BY <1>7, <2>1 DEF Leave, TypeOK, Tasks, feederVars, callerVars
<1>8. ASSUME Collect PROVE TypeOK'
  <2>1. results' \in Seq(1 .. fed) /\ batch' \in Seq(1 .. fed)
    BY <1>8, HeadTailProperties, AppendProperties DEF Collect, TypeOK
  <2> QED  BY <1>8, <2>1 DEF Collect, TypeOK, Tasks, feederVars, workerVars
<1>9. ASSUME Return PROVE TypeOK'
  BY <1>9 DEF Return, TypeOK, Tasks, feederVars, workerVars
<1>10. ASSUME Cancel PROVE TypeOK'
  BY <1>10 DEF Cancel, TypeOK, Tasks, feederVars, workerVars, callerVars
<1>11. CASE UNCHANGED vars
  BY <1>11 DEF vars, TypeOK, Tasks, feederVars, workerVars, callerVars
<1> QED  BY <1>1, <1>2, <1>3, <1>4, <1>5, <1>6, <1>7, <1>8, <1>9, <1>10, <1>11
         DEF Next, FeederStep, CallerStep, WorkerStep

\* Every variable of the pool has its type, and a worker has a task exactly while it
\* works on one.
THEOREM TypeCorrect == Spec => []TypeOK
  BY InitTyped, TypeStep, PTL DEF Spec
----------------------------------------------------------------------------
(* Where the tasks are. *)

\* Sequences are read by their indices.
LEMMA Indices ==
    ASSUME TypeOK
    PROVE  /\ DOMAIN results = 1 .. Len(results) /\ Len(results) \in Nat
           /\ DOMAIN batch = 1 .. Len(batch) /\ Len(batch) \in Nat
           /\ \A i \in DOMAIN results : results[i] \in 1 .. fed
           /\ \A i \in DOMAIN batch : batch[i] \in 1 .. fed
  BY DEF TypeOK

\* What a worker delivers comes last in the channel ...
LEMMA Delivered ==
    ASSUME TypeOK, NEW w \in workers, Deliver(w)
    PROVE  /\ DOMAIN results' = 1 .. Len(results) + 1
           /\ DOMAIN results = 1 .. Len(results) /\ Len(results) \in Nat
           /\ \A i \in DOMAIN results : results'[i] = results[i]
           /\ results'[Len(results) + 1] = job[w]
<1>1. results \in Seq(1 .. fed) /\ results' = Append(results, job[w]) /\ worker[w] = "send"
  BY DEF Deliver, TypeOK
<1>2. job[w] \in 0 .. fed /\ job[w] # 0 /\ fed \in Nat
  BY <1>1 DEF TypeOK
<1>3. job[w] \in 1 .. fed
  BY <1>2
<1> QED  BY <1>1, <1>3, AppendProperties, LenProperties

\* ... and what the caller takes, the first, comes last in the batch.
LEMMA Collected ==
    ASSUME TypeOK, Collect
    PROVE  /\ Len(results) \in Nat \ {0} /\ Len(batch) \in Nat
           /\ DOMAIN results = 1 .. Len(results) /\ DOMAIN batch = 1 .. Len(batch)
           /\ DOMAIN results' = 1 .. Len(results) - 1
           /\ \A i \in DOMAIN results' : results'[i] = results[i + 1]
           /\ DOMAIN batch' = 1 .. Len(batch) + 1
           /\ \A i \in DOMAIN batch : batch'[i] = batch[i]
           /\ batch'[Len(batch) + 1] = results[1]
<1>1. /\ results \in Seq(1 .. fed) /\ batch \in Seq(1 .. fed) /\ results # << >>
      /\ results' = Tail(results) /\ batch' = Append(batch, Head(results))
  BY DEF Collect, TypeOK
<1>2. /\ Head(results) \in 1 .. fed /\ Tail(results) \in Seq(1 .. fed)
      /\ Len(Tail(results)) = Len(results) - 1
      /\ \A i \in 1 .. Len(Tail(results)) : Tail(results)[i] = results[i + 1]
  BY <1>1, HeadTailProperties
<1>3. Head(results) = results[1]
  BY <1>1
<1>4. Len(results) \in Nat \ {0}
  BY <1>1
<1>5. DOMAIN Tail(results) = 1 .. Len(results) - 1
  BY <1>2, LenProperties
<1> QED  BY <1>1, <1>2, <1>3, <1>4, <1>5, AppendProperties, LenProperties

LEMMA InitPlacing == Init => Placing
<1> SUFFICES ASSUME Init PROVE Placing
  OBVIOUS
<1>1. \A w \in workers : job[w] = 0
  BY DEF Init
<1>2. DOMAIN results = {} /\ DOMAIN batch = {} /\ fed = 0 /\ results = << >>
  BY DEF Init
<1>3. WorkersApart /\ ResultsApart /\ Moved
  BY <1>1, <1>2 DEF WorkersApart, ResultsApart, Moved
<1>4. feeder # "feed" => fed = tasks
  <2>1. feeder # "feed" => workers = {}
    BY DEF Init
  <2> QED  BY <2>1, InitTyped, <1>2 DEF TypeOK
<1>5. NoneDropped
  BY <1>2, <1>4 DEF NoneDropped
<1>6. closed = (workers = {}) /\ feeder = (IF workers = {} THEN "done" ELSE "feed")
      /\ returned = FALSE
  BY DEF Init
<1>7. Ending
  BY <1>6 DEF Ending
<1> QED  BY <1>3, <1>5, <1>7 DEF Placing

LEMMA HandPlaces ==
    ASSUME TypeOK, Placing, NEW w \in workers, Hand(w)
    PROVE  Placing'
<1>1. /\ fed \in Nat /\ tasks \in Nat /\ fed' = fed + 1 /\ job' = [job EXCEPT ![w] = fed + 1]
      /\ job \in [workers -> 0 .. fed]
      /\ UNCHANGED <<workers, results, batch, feeder, closed, returned, cancelled, tasks>>
  BY DEF Hand, TypeOK, callerVars
<1>2. \A v \in workers : job[v] \in Nat /\ job[v] <= fed
  BY <1>1
<1>3. job'[w] = fed + 1 /\ \A v \in workers : v # w => job'[v] = job[v]
  BY <1>1
<1>4. \A i \in DOMAIN results : results[i] <= fed /\ results[i] \in Nat
  BY Indices
<1>5. \A i \in DOMAIN batch : batch[i] <= fed /\ batch[i] \in Nat
  BY Indices
<1>6. WorkersApart'
  BY <1>1, <1>2, <1>3 DEF WorkersApart, Placing
<1>7. ResultsApart'
  BY <1>1 DEF ResultsApart, Placing
<1>8. Moved'
  BY <1>1, <1>3, <1>4, <1>5 DEF Moved, Placing
<1>9. job[w] = 0 /\ feeder = "feed" /\ worker[w] # "gone"
  BY DEF Hand, TypeOK
<1>10. NoneDropped'
  <2> SUFFICES ASSUME ~cancelled, NEW task \in 1 .. fed' PROVE Placed(task)'
    BY <1>1, <1>9 DEF NoneDropped
  <2>1. CASE task = fed + 1
    BY <1>1, <1>3, <2>1 DEF Placed
  <2>2. CASE task \in 1 .. fed
    <3>1. Placed(task)
      BY <2>2 DEF NoneDropped, Placing
    <3> QED  BY <1>1, <1>3, <1>9, <2>2, <3>1 DEF Placed
  <2> QED  BY <1>1, <2>1, <2>2
<1>11. Ending'
  BY <1>1, <1>9 DEF Ending, Placing
<1> QED  BY <1>6, <1>7, <1>8, <1>10, <1>11 DEF Placing

LEMMA CheckPlaces ==
    ASSUME TypeOK, Placing, NEW w \in workers, Check(w)
    PROVE  Placing'
<1>1. UNCHANGED <<tasks, workers, cancelled, fed, feeder, closed, results, batch, returned>>
  BY DEF Check, feederVars, callerVars
<1>2. worker[w] = "check" /\ job \in [workers -> 0 .. fed]
  BY DEF Check, TypeOK
<1>3. \A v \in workers : job'[v] = job[v] \/ job'[v] = 0
  BY <1>2 DEF Check
<1>4. ~cancelled => job' = job
  BY DEF Check
<1>5. \A i \in DOMAIN results : results[i] # 0
  BY Indices
<1>6. \A i \in DOMAIN batch : batch[i] # 0
  BY Indices
<1>7. WorkersApart' /\ ResultsApart' /\ Moved'
  BY <1>1, <1>3, <1>5, <1>6 DEF WorkersApart, ResultsApart, Moved, Placing
<1>8. NoneDropped'
  BY <1>1, <1>4 DEF NoneDropped, Placing, Placed
<1>9. Ending'
  BY <1>1, <1>2 DEF Ending, Placing
<1> QED  BY <1>7, <1>8, <1>9 DEF Placing

LEMMA DeliverPlaces ==
    ASSUME TypeOK, Placing, NEW w \in workers, Deliver(w)
    PROVE  Placing'
<1> DEFINE last == Len(results) + 1
<1>1. UNCHANGED <<tasks, workers, cancelled, fed, feeder, closed, batch, returned>>
  BY DEF Deliver, feederVars, callerVars
<1>2. /\ worker[w] = "send" /\ job \in [workers -> 0 .. fed] /\ job' = [job EXCEPT ![w] = 0]
      /\ job[w] # 0
  BY DEF Deliver, TypeOK
<1>3. /\ DOMAIN results' = DOMAIN results \cup {last} /\ last \notin DOMAIN results
      /\ \A i \in DOMAIN results : results'[i] = results[i]
      /\ results'[last] = job[w]
  <2>1. 1 .. last = (1 .. Len(results)) \cup {last} /\ last \notin 1 .. Len(results)
    BY Delivered
  <2> QED  BY <2>1, Delivered
<1> HIDE DEF last
<1>4. job'[w] = 0 /\ \A v \in workers : v # w => job'[v] = job[v]
  BY <1>2
<1>5. \A i \in DOMAIN results : results[i] # 0
  BY Indices
<1>6. \A i \in DOMAIN batch : batch[i] # 0
  BY Indices
<1>7. WorkersApart'
  BY <1>1, <1>4 DEF WorkersApart, Placing
<1>8. ResultsApart'
  BY <1>1, <1>3 DEF ResultsApart, Moved, Placing
<1>9. Moved'
  BY <1>1, <1>2, <1>3, <1>4, <1>5, <1>6 DEF Moved, WorkersApart, Placing
<1>10. NoneDropped'
  <2>1. ASSUME NEW task, Placed(task) PROVE Placed(task)'
    BY <1>1, <1>3, <1>4, <2>1 DEF Placed
  <2> QED  BY <1>1, <2>1 DEF NoneDropped, Placing
<1>11. Ending'
  BY <1>1, <1>2 DEF Ending, Placing
<1> QED  BY <1>7, <1>8, <1>9, <1>10, <1>11 DEF Placing

LEMMA CollectPlaces ==
    ASSUME TypeOK, Placing, Collect
    PROVE  Placing'
<1> DEFINE last == Len(batch) + 1
<1>1. UNCHANGED <<tasks, workers, cancelled, fed, feeder, closed, returned, worker, job>>
  BY DEF Collect, feederVars, workerVars
<1>2. /\ DOMAIN batch' = DOMAIN batch \cup {last} /\ last \notin DOMAIN batch
      /\ \A i \in DOMAIN batch : batch'[i] = batch[i]
      /\ batch'[last] = results[1]
  BY Collected
<1> HIDE DEF last
<1>3. /\ 1 \in DOMAIN results
      /\ \A i \in DOMAIN results' : /\ i + 1 \in DOMAIN results /\ i + 1 # 1 /\ i \in Nat
                                    /\ results'[i] = results[i + 1]
  BY Collected
<1>4. \A i \in DOMAIN results : i = 1 \/ \E j \in DOMAIN results' : results'[j] = results[i]
  <2> SUFFICES ASSUME NEW i \in DOMAIN results, i # 1
               PROVE  i - 1 \in DOMAIN results' /\ results'[i - 1] = results[i]
    OBVIOUS
  <2> QED  BY Collected
<1>5. WorkersApart'
  BY <1>1 DEF WorkersApart, Placing
<1>6. ResultsApart'
  <2>1. ASSUME NEW i \in DOMAIN results', NEW j \in DOMAIN results', results'[i] = results'[j]
        PROVE  i = j
    <3>1. i + 1 = j + 1
      BY <1>3, <2>1 DEF ResultsApart, Placing
    <3> QED  BY <1>3, <3>1
  <2>2. \A i, j \in DOMAIN batch' : batch'[i] = batch'[j] => i = j
    BY <1>2, <1>3 DEF ResultsApart, Placing
  <2>3. \A i \in DOMAIN results', j \in DOMAIN batch' : results'[i] # batch'[j]
    BY <1>2, <1>3 DEF ResultsApart, Placing
  <2> QED  BY <2>1, <2>2, <2>3 DEF ResultsApart
<1>7. Moved'
  BY <1>1, <1>2, <1>3 DEF Moved, Placing
<1>8. NoneDropped'
  <2>1. ASSUME NEW task, Placed(task) PROVE Placed(task)'
    BY <1>1, <1>2, <1>4, <2>1 DEF Placed
  <2> QED  BY <1>1, <2>1 DEF NoneDropped, Placing
<1>9. Ending'
  <2>1. ~returned /\ results # << >>
    BY DEF Collect
  <2> QED  BY <1>1, <2>1 DEF Ending, Placing
<1> QED  BY <1>5, <1>6, <1>7, <1>8, <1>9 DEF Placing

LEMMA PlacingStep == TypeOK /\ Placing /\ [Next]_vars => Placing'
<1> SUFFICES ASSUME TypeOK, Placing, [Next]_vars PROVE Placing'
  OBVIOUS
<1>1. ASSUME StopFeeding \/ Close PROVE Placing'
  <2>1. UNCHANGED <<tasks, workers, cancelled, fed, results, batch, returned, worker, job>>
    BY <1>1 DEF StopFeeding, Close, workerVars, callerVars
  <2>2. WorkersApart' /\ ResultsApart' /\ Moved'
    BY <2>1 DEF WorkersApart, ResultsApart, Moved, Placing
  <2>3. NoneDropped'
    BY <1>1, <2>1 DEF NoneDropped, Placed, Placing, StopFeeding, Close
  <2>4. Ending'
    <3>1. CASE StopFeeding
      BY <2>1, <3>1 DEF Ending, Placing, StopFeeding
    <3>2. CASE Close
      BY <2>1, <3>2 DEF Ending, Placing, Close
    <3> QED  BY <1>1, <3>1, <3>2
  <2> QED  BY <2>2, <2>3, <2>4 DEF Placing
<1>2. ASSUME NEW w \in workers, Probe(w) \/ Leave(w) PROVE Placing'
  <2>1. /\ UNCHANGED <<tasks, workers, cancelled, fed, feeder, closed, results, batch, returned, job>>
        /\ worker[w] # "gone"
    BY <1>2 DEF Probe, Leave, feederVars, callerVars
  <2>2. WorkersApart' /\ ResultsApart' /\ Moved'
    BY <2>1 DEF WorkersApart, ResultsApart, Moved, Placing
  <2>3. NoneDropped' /\ Ending'
    BY <2>1 DEF NoneDropped, Placed, Ending, Placing
  <2> QED  BY <2>2, <2>3 DEF Placing
<1>3. ASSUME Return \/ Cancel \/ UNCHANGED vars PROVE Placing'
  <2>1. UNCHANGED <<tasks, workers, fed, feeder, closed, results, batch, worker, job>>
    BY <1>3 DEF Return, Cancel, vars, feederVars, workerVars, callerVars
  <2>2. WorkersApart' /\ ResultsApart' /\ Moved'
    BY <2>1 DEF WorkersApart, ResultsApart, Moved, Placing
  <2>3. ~cancelled' => ~cancelled
    BY <1>3 DEF Return, Cancel, vars
  <2>4. returned' => returned \/ (closed /\ results = << >>)
    <3>1. Return => closed /\ results = << >>
      BY DEF Return
    <3>2. Cancel \/ UNCHANGED vars => returned' = returned
      BY DEF Cancel, vars, callerVars
    <3> QED  BY <1>3, <3>1, <3>2
  <2>5. NoneDropped' /\ Ending'
    BY <2>1, <2>3, <2>4 DEF NoneDropped, Placed, Ending, Placing
  <2> QED  BY <2>2, <2>5 DEF Placing
<1> QED  BY <1>1, <1>2, <1>3, HandPlaces, CheckPlaces, DeliverPlaces, CollectPlaces
         DEF Next, FeederStep, CallerStep, WorkerStep

LEMMA Invariant == Spec => [](TypeOK /\ Placing)
  BY InitTyped, TypeStep, InitPlacing, PlacingStep, PTL DEF Spec
----------------------------------------------------------------------------
(* The properties. *)

\* The channel of results is closed only after the last worker has left, so no result is
\* sent on a closed channel.
THEOREM NoSendAfterCloseAlways == Spec => []NoSendAfterClose
<1>1. Placing => NoSendAfterClose
  BY DEF Placing, Ending, NoSendAfterClose
<1> QED  BY <1>1, Invariant, PTL

\* A set whose elements are all equal has one or none.
LEMMA AtMostOne ==
    ASSUME NEW S, \A x, y \in S : x = y
    PROVE  /\ Cardinality(S) \in {0, 1}
           /\ Cardinality(S) = 0 <=> S = {}
<1>1. CASE S = {}
  BY <1>1, FS_EmptySet
<1>2. ASSUME NEW x \in S PROVE Cardinality(S) = 1
  <2>1. S = {x}
    BY <1>2
  <2>2. Cardinality({x}) = 1
    BY FS_Singleton
  <2> QED  BY <2>1, <2>2
<1> QED  BY <1>1, <1>2

\* Every task handed out is in one place unless the round was cut short, and a round that
\* was not has a result for every task when it returns.
THEOREM EachOnceAlways == Spec => []EachOnce
<1>1. TypeOK /\ Placing => EachOnce
  <2> SUFFICES ASSUME TypeOK, Placing, NEW task \in Tasks
               PROVE  /\ At(task) <= (IF task <= fed THEN 1 ELSE 0)
                      /\ ~cancelled /\ (task <= fed \/ returned) => At(task) = 1
    BY DEF EachOnce
  <2> DEFINE W == {w \in workers : job[w] = task}
             R == {i \in DOMAIN results : results[i] = task}
             B == {i \in DOMAIN batch : batch[i] = task}
  <2>1. task \in Nat \ {0} /\ fed \in Nat
    BY DEF Tasks, TypeOK
  <2>2. \A x, y \in W : x = y
    BY <2>1 DEF Placing, WorkersApart
  <2>3. (\A x, y \in R : x = y) /\ (\A x, y \in B : x = y) /\ (R = {} \/ B = {})
    BY DEF Placing, ResultsApart
  <2>4. (W = {} \/ R = {}) /\ (W = {} \/ B = {})
    BY DEF Placing, Moved
  <2>5. ~(task <= fed) => W = {} /\ R = {} /\ B = {}
    BY SMTT(20), <2>1, Indices DEF TypeOK
  <2>6. ~cancelled /\ (task <= fed \/ returned) => W # {} \/ R # {} \/ B # {}
    <3> SUFFICES ASSUME ~cancelled, task <= fed \/ returned PROVE Placed(task)
      BY DEF Placed
    <3>1. returned => fed = tasks
      BY DEF Placing, Ending, NoneDropped
    <3>2. task \in 1 .. fed
      BY <2>1, <3>1 DEF Tasks
    <3> QED  BY <3>2 DEF Placing, NoneDropped
  <2>7. At(task) = Cardinality(W) + Cardinality(R) + Cardinality(B)
    BY DEF At
  <2> HIDE DEF W, R, B
  <2>8. Cardinality(W) \in {0, 1} /\ (Cardinality(W) = 0 <=> W = {})
    BY <2>2, AtMostOne
  <2>9. Cardinality(R) \in {0, 1} /\ (Cardinality(R) = 0 <=> R = {})
    BY <2>3, AtMostOne
  <2>10. Cardinality(B) \in {0, 1} /\ (Cardinality(B) = 0 <=> B = {})
    BY <2>3, AtMostOne
  <2> QED  BY <2>3, <2>4, <2>5, <2>6, <2>7, <2>8, <2>9, <2>10
<1> QED  BY <1>1, Invariant, PTL

\* A probe that has come to its end is never lost again.
THEOREM ProbedIsKeptAlways == Spec => ProbedIsKept
<1>1. ASSUME TypeOK, [Next]_vars PROVE [ProbesStay]_vars
  <2> SUFFICES ASSUME NEW task \in Tasks, Probed(task) PROVE Probed(task)'
    BY DEF ProbesStay
  <2>1. ASSUME NEW w \in workers, Deliver(w) PROVE Probed(task)'
    <3>1. /\ Len(results) + 1 \in DOMAIN results' /\ DOMAIN results \subseteq DOMAIN results'
          /\ \A i \in DOMAIN results : results'[i] = results[i]
          /\ results'[Len(results) + 1] = job[w]
      BY <1>1, <2>1, Delivered
    <3>2. /\ UNCHANGED <<workers, batch>>
          /\ \A v \in workers : v # w => job'[v] = job[v] /\ worker'[v] = worker[v]
      BY <1>1, <2>1 DEF Deliver, Become, TypeOK, callerVars
    <3> QED  BY <3>1, <3>2 DEF Probed, Range
  <2>2. ASSUME Collect PROVE Probed(task)'
    <3>1. /\ UNCHANGED <<workers, worker, job>>
          /\ DOMAIN batch \subseteq DOMAIN batch' /\ \A i \in DOMAIN batch : batch'[i] = batch[i]
          /\ Len(batch) + 1 \in DOMAIN batch' /\ batch'[Len(batch) + 1] = results[1]
      BY <1>1, <2>2, Collected DEF Collect, workerVars
    <3>2. \A i \in DOMAIN results : i # 1 => \E j \in DOMAIN results' : results'[j] = results[i]
      <4> SUFFICES ASSUME NEW i \in DOMAIN results, i # 1
                   PROVE  i - 1 \in DOMAIN results' /\ results'[i - 1] = results[i]
        OBVIOUS
      <4> QED  BY <1>1, <2>2, Collected
    <3> QED  BY <3>1, <3>2 DEF Probed, Range
  <2>3. ASSUME NEW w \in workers, Hand(w) \/ Check(w) \/ Probe(w) \/ Leave(w) PROVE Probed(task)'
    <3>1. UNCHANGED <<workers, results, batch>> /\ worker[w] # "send"
      BY <2>3 DEF Hand, Check, Probe, Leave, callerVars
    <3>2. \A v \in workers : v # w => job'[v] = job[v] /\ worker'[v] = worker[v]
      BY <1>1, <2>3 DEF Hand, Check, Probe, Leave, Become, TypeOK
    <3> QED  BY <3>1, <3>2 DEF Probed
  <2>4. ASSUME StopFeeding \/ Close \/ Return \/ Cancel \/ UNCHANGED vars PROVE Probed(task)'
    <3>1. UNCHANGED <<workers, worker, job, results, batch>>
      BY <2>4 DEF StopFeeding, Close, Return, Cancel, vars, workerVars, callerVars
    <3> QED  BY <3>1 DEF Probed
  <2> QED  BY <1>1, <2>1, <2>2, <2>3, <2>4 DEF Next, FeederStep, CallerStep, WorkerStep
<1> QED  BY <1>1, TypeCorrect, PTL DEF Spec, ProbedIsKept
=============================================================================
