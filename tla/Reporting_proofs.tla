-------------------------- MODULE Reporting_proofs --------------------------
(***************************************************************************)
(* Proofs about the reporting path and what the supervisor derives from    *)
(* it, for every number of targets, batch size, queue length, number of    *)
(* requests in flight, threshold and number of faults and deletions.       *)
(*                                                                         *)
(* The first part is about module ReportDelivery alone: its type, its      *)
(* invariants and the promise of AtLeastOnce.  The second is about         *)
(* AgentRegistry, which composes it with the agent's row and its           *)
(* connectivity entry.  The entry follows the commits in another order     *)
(* than they happened; what relates it to the ideal entry is a path: the   *)
(* commits that are owed lead from the one to the other, unless two were   *)
(* swapped.                                                                *)
(***************************************************************************)
EXTENDS AgentRegistry, SequenceTheorems, FiniteSetTheorems, TLAPS

LEMMA SmallerFact ==
    ASSUME NEW a \in Nat, NEW b \in Nat
    PROVE  Smaller(a, b) \in Nat /\ Smaller(a, b) <= a /\ Smaller(a, b) <= b
BY DEF Smaller

LEMMA LastElement ==
    ASSUME NEW S, NEW s \in Seq(S), s # <<>>
    PROVE  s[Len(s)] \in S
BY EmptySeq

LEMMA SplitInterval ==
    ASSUME NEW a \in Nat, NEW n \in Nat
    PROVE  1 .. (a + n) = (1 .. a) \cup ((a + 1) .. (a + n))
OBVIOUS

(***************************************************************************)
(* A queue that holds the newest results up to number `last`, in order.    *)
(***************************************************************************)
Newest(q, last) ==
    /\ q \in Seq(Nat)
    /\ Len(q) <= last
    /\ \A i \in 1 .. Len(q) : q[i] = last - Len(q) + i

\* b is the first part of q.
Prefix(b, q) ==
    /\ Len(b) <= Len(q)
    /\ \A i \in 1 .. Len(b) : b[i] = q[i]

\* The results in such a queue are an interval ending at `last`.
LEMMA NewestRange ==
    ASSUME NEW last \in Nat, NEW q, Newest(q, last)
    PROVE  Range(q) = (last - Len(q) + 1) .. last
<1>1. \A i \in 1 .. Len(q) : q[i] \in (last - Len(q) + 1) .. last
  BY DEF Newest
<1>2. \A k \in (last - Len(q) + 1) .. last :
        /\ k - (last - Len(q)) \in 1 .. Len(q)
        /\ q[k - (last - Len(q))] = k
  BY DEF Newest
<1>3. DOMAIN q = 1 .. Len(q)
  BY DEF Newest
<1> QED
  BY <1>1, <1>2, <1>3 DEF Range

\* Those in a first part of it are an interval too.
LEMMA PrefixRange ==
    ASSUME NEW last \in Nat, NEW q, Newest(q, last),
           NEW S, NEW b \in Seq(S), Prefix(b, q)
    PROVE  Range(b) = (last - Len(q) + 1) .. (last - Len(q) + Len(b))
<1> DEFINE lo == last - Len(q)
<1>1. \A i \in 1 .. Len(b) : b[i] \in (lo + 1) .. (lo + Len(b)) /\ b[i] = lo + i
  BY DEF Newest, Prefix
<1>2. \A k \in (lo + 1) .. (lo + Len(b)) : k - lo \in 1 .. Len(b) /\ b[k - lo] = k
  BY <1>1 DEF Newest
<1>3. DOMAIN b = 1 .. Len(b)
  OBVIOUS
<1>4. Range(b) \subseteq (lo + 1) .. (lo + Len(b))
  BY <1>1, <1>3 DEF Range
<1>5. (lo + 1) .. (lo + Len(b)) \subseteq Range(b)
  BY <1>2, <1>3 DEF Range
<1> QED
  BY <1>4, <1>5

\* What is left of such a queue without its first k results.
LEMMA SuffixNewest ==
    ASSUME NEW last \in Nat, NEW q, Newest(q, last), NEW k \in Nat, k <= Len(q)
    PROVE  /\ Newest(SubSeq(q, k + 1, Len(q)), last)
           /\ Len(SubSeq(q, k + 1, Len(q))) = Len(q) - k
<1>0. q \in Seq(Nat) /\ Len(q) \in Nat /\ Len(q) <= last
  BY DEF Newest
<1>1. \A i \in (k + 1) .. Len(q) : q[i] \in Nat
  BY <1>0
<1>2. /\ SubSeq(q, k + 1, Len(q)) \in Seq(Nat)
      /\ Len(SubSeq(q, k + 1, Len(q))) =
             IF k + 1 <= Len(q) THEN Len(q) - (k + 1) + 1 ELSE 0
      /\ \A i \in 1 .. Len(q) - (k + 1) + 1 :
             SubSeq(q, k + 1, Len(q))[i] = q[(k + 1) + i - 1]
  <2>1. k + 1 \in Int /\ Len(q) \in Int
    BY <1>0
  <2> QED
    BY <1>1, <2>1, SubSeqProperties
<1>3. Len(SubSeq(q, k + 1, Len(q))) = Len(q) - k
  BY <1>0, <1>2
<1>4. ASSUME NEW i \in 1 .. Len(q) - k
      PROVE  SubSeq(q, k + 1, Len(q))[i] = last - (Len(q) - k) + i
  <2>1. SubSeq(q, k + 1, Len(q))[i] = q[k + i]
    BY <1>0, <1>2
  <2>2. k + i \in 1 .. Len(q)
    BY <1>0
  <2> QED
    BY <2>1, <2>2, <1>0 DEF Newest
<1> DEFINE r == SubSeq(q, k + 1, Len(q))
<1>5. /\ r \in Seq(Nat) /\ Len(r) = Len(q) - k
      /\ \A i \in 1 .. Len(q) - k : r[i] = last - (Len(q) - k) + i
  BY <1>2, <1>3, <1>4
<1> HIDE DEF r
<1>6. Newest(r, last) /\ Len(r) = Len(q) - k
  BY <1>0, <1>5 DEF Newest
<1> QED
  BY <1>6 DEF r

\* appendPendingResults keeps the newest results.
LEMMA AppendNewest ==
    ASSUME NEW last \in Nat, NEW q, Newest(q, last), NEW n \in Nat,
           NEW fresh, fresh = [i \in 1 .. n |-> last + i]
    PROVE  /\ Newest(AppendPending(q, fresh), last + n)
           /\ Len(AppendPending(q, fresh)) = Smaller(Len(q) + n, MaxPending)
<1>0. q \in Seq(Nat) /\ Len(q) \in Nat /\ Len(q) <= last
  BY DEF Newest
<1>1. fresh \in Seq(Nat) /\ Len(fresh) = n
  OBVIOUS
<1>2. q \o fresh \in Seq(Nat) /\ Len(q \o fresh) = Len(q) + n
  BY <1>0, <1>1
<1>3. Newest(q \o fresh, last + n)
  <2>1. \A i \in 1 .. Len(q) + n : (q \o fresh)[i] = last - Len(q) + i
    BY <1>0, <1>1 DEF Newest
  <2> QED
    BY <1>0, <1>2, <2>1 DEF Newest
<1> DEFINE m == Smaller(Len(q) + n, MaxPending)
           k == Len(q) + n - m
           all == q \o fresh
<1>4. m \in Nat /\ m <= Len(q) + n
  <2>1. Len(q) + n \in Nat /\ MaxPending \in Nat
    BY <1>0, DeliveryAssumption
  <2> QED
    BY <2>1, SmallerFact
<1>5. AppendPending(q, fresh) = SubSeq(all, Len(all) - m + 1, Len(all))
  BY <1>2 DEF AppendPending
<1> HIDE DEF m, all
<1>6. k \in Nat /\ k <= Len(all) /\ Len(all) - m = k /\ Len(all) - k = m
  BY <1>0, <1>2, <1>4 DEF all
<1>7. Newest(all, last + n) /\ last + n \in Nat
  BY <1>3 DEF all
<1> HIDE DEF k
<1>8. /\ Newest(SubSeq(all, k + 1, Len(all)), last + n)
      /\ Len(SubSeq(all, k + 1, Len(all))) = m
  BY <1>6, <1>7, SuffixNewest
<1> QED
  BY <1>5, <1>6, <1>8 DEF m

\* Taking a first part off the queue leaves the newest results.
LEMMA TrimNewest ==
    ASSUME NEW last \in Nat, NEW q, Newest(q, last),
           NEW S, NEW b \in Seq(S), Prefix(b, q)
    PROVE  Newest(Trim(q, b), last) /\ Len(Trim(q, b)) = Len(q) - Len(b)
<1>1. Len(b) \in Nat /\ Len(b) <= Len(q)
  BY DEF Prefix
<1> QED
  BY <1>1, SuffixNewest DEF Trim

\* uploadPendingResults sends a first part of the queue.
LEMMA BatchIsPrefix ==
    ASSUME NEW S, NEW q \in Seq(S)
    PROVE  NextBatch(q) \in Seq(S) /\ Prefix(NextBatch(q), q)
<1> DEFINE n == Smaller(BatchSize, Len(q))
<1>1. n \in Nat /\ n <= Len(q)
  BY DeliveryAssumption DEF Smaller
<1>2. \A i \in 1 .. n : q[i] \in S
  BY <1>1
<1> HIDE DEF n
<1>3. /\ SubSeq(q, 1, n) \in Seq(S)
      /\ Len(SubSeq(q, 1, n)) = IF 1 <= n THEN n - 1 + 1 ELSE 0
      /\ \A i \in 1 .. n - 1 + 1 : SubSeq(q, 1, n)[i] = q[1 + i - 1]
  BY <1>1, <1>2, SubSeqProperties
<1>4. Len(SubSeq(q, 1, n)) = n /\ \A i \in 1 .. n : SubSeq(q, 1, n)[i] = q[i]
  BY <1>1, <1>3
<1> QED
  BY <1>1, <1>3, <1>4 DEF NextBatch, Prefix, n
----------------------------------------------------------------------------
(***************************************************************************)
(* The inductive invariant.  The parts that are not properties of their    *)
(* own say what the agent and the supervisor know of each other's state:   *)
(*  - a request past its commit has rows for its whole batch;              *)
(*  - the request the agent waits for carries the head of the queue, so    *)
(*    that trimming the queue forgets exactly what was stored;             *)
(*  - what an unattended request carries is in doubt;                      *)
(*  - a result that is both queued and stored is in doubt, unless it was   *)
(*    stored by the very request the agent is waiting for.                 *)
(***************************************************************************)
Committed(h) == post[h].stage \in {"saved", "answered"}

SavedIsStored == \A h \in Slots : Committed(h) => Range(post[h].batch) \subseteq stored

AwaitedIsHead == pc = "await" => Prefix(post[cur].batch, pending)

UnattendedInDoubt == \A h \in Slots : h # cur => Range(post[h].batch) \subseteq doubtful

QueuedAndStored ==
    \A i \in Range(pending) \cap stored :
        \/ i \in doubtful
        \/ pc = "await" /\ Committed(cur) /\ i \in Range(post[cur].batch)

IInv ==
    /\ TypeOK
    /\ PendingIsNewest
    /\ SavedIsStored
    /\ AwaitedIsHead
    /\ UnattendedInDoubt
    /\ QueuedAndStored
    /\ NothingVanishes
    /\ DuplicatesOnlyAfterDoubt

\* The queue's two descriptions agree.
LEMMA QueueIsNewest ==
    ASSUME TypeOK, PendingIsNewest
    PROVE  Newest(pending, Len(log)) /\ Len(log) \in Nat /\ Len(pending) \in Nat
<1>1. Len(log) \in Nat /\ pending \in Seq(1 .. Len(log)) /\ Len(pending) \in Nat
  BY DEF TypeOK, Results
<1>2. pending \in Seq(Nat)
  BY <1>1
<1>3. Len(pending) <= Len(log)
  <2>1. CASE Len(pending) = 0
    BY <2>1, <1>1
  <2>2. CASE Len(pending) > 0
    <3>1. 1 \in 1 .. Len(pending)
      BY <2>2, <1>1
    <3>2. pending[1] \in 1 .. Len(log)
      BY <3>1, <1>1
    <3> QED
      BY <3>1, <3>2, <1>1 DEF PendingIsNewest
  <2> QED
    BY <2>1, <2>2, <1>1
<1> QED
  BY <1>1, <1>2, <1>3 DEF Newest, PendingIsNewest

LEMMA NewestTyped ==
    ASSUME NEW last \in Nat, NEW q, Newest(q, last)
    PROVE  q \in Seq(1 .. last)
<1>1. q \in Seq(Nat) /\ Len(q) <= last
  BY DEF Newest
<1>2. \A i \in 1 .. Len(q) : q[i] \in 1 .. last
  BY <1>1 DEF Newest
<1> QED
  BY <1>1, <1>2

LEMMA InitInv == Init => IInv
<1> SUFFICES ASSUME Init PROVE IInv
  OBVIOUS
<1>1. Range(<<>>) = {}
  BY DEF Range
<1>2. TypeOK
  BY DeliveryAssumption DEF Init, TypeOK, Results, RequestType, Idle, Slots
<1>3. \A h \in Slots : post[h].batch = <<>> /\ post[h].stage = "idle"
  BY DEF Init, Idle
<1>4. PendingIsNewest /\ NothingVanishes /\ QueuedAndStored
  BY <1>1, DeliveryAssumption
     DEF Init, PendingIsNewest, NothingVanishes, QueuedAndStored, Results
<1>5. SavedIsStored /\ UnattendedInDoubt
  BY <1>1, <1>3 DEF SavedIsStored, UnattendedInDoubt, Committed
<1>6. AwaitedIsHead /\ DuplicatesOnlyAfterDoubt
  BY DEF Init, AwaitedIsHead, DuplicatesOnlyAfterDoubt
<1> QED
  BY <1>2, <1>4, <1>5, <1>6 DEF IInv

LEMMA KindsOfResults ==
    ASSUME NEW n, NEW kind \in [1 .. n -> Kinds], NEW i \in 1 .. n
    PROVE  kind[i].outcome \in Outcomes /\ kind[i].long \in BOOLEAN
<1>1. kind[i] \in Kind
  BY DeliveryAssumption
<1> QED  BY <1>1 DEF Kind

LEMMA ProbeGrowsLog ==
    ASSUME IInv, NEW n \in 0 .. Targets, NEW kind \in [1 .. n -> Kinds],
           Probe(n, kind)
    PROVE  /\ log' \in Seq([outcome : Outcomes, long : BOOLEAN, round : Nat])
           /\ Len(log') = Len(log) + n
<1>0. n \in Nat
  BY DeliveryAssumption
<1> DEFINE Entry == [outcome : Outcomes, long : BOOLEAN, round : Nat]
           new == [i \in 1 .. n |-> [outcome |-> kind[i].outcome, long |-> kind[i].long,
                                round |-> LastRound + 1]]
<1>1. log \in Seq(Entry)
  BY DEF IInv, TypeOK
<1>2. LastRound \in Nat
  <2>1. CASE log = <<>>
    BY <2>1 DEF LastRound
  <2>2. CASE log # <<>>
    <3>1. log[Len(log)] \in Entry
      BY <1>1, <2>2, LastElement
    <3> QED
      BY <2>2, <3>1 DEF LastRound
  <2> QED
    BY <2>1, <2>2
<1>3. new \in Seq(Entry) /\ Len(new) = n
  BY <1>0, <1>2, KindsOfResults
<1>4. log' = log \o new
  BY DEF Probe
<1> HIDE DEF new, Entry
<1>5. log' \in Seq(Entry) /\ Len(log') = Len(log) + n
  BY <1>1, <1>3, <1>4, ConcatProperties
<1> QED
  BY <1>5 DEF Entry

\* A round: the queue takes the fresh results in and may give the oldest ones up.
LEMMA ProbeInv ==
    ASSUME IInv, NEW n \in 0 .. Targets, NEW kind \in [1 .. n -> Kinds],
           Probe(n, kind)
    PROVE  IInv'
<1> DEFINE last == Len(log)
           fresh == [i \in 1 .. n |-> last + i]
<1>0. n \in Nat /\ last \in Nat /\ Newest(pending, last)
  BY QueueIsNewest, DeliveryAssumption DEF IInv
<1>1. log' \in Seq([outcome : Outcomes, long : BOOLEAN, round : Nat]) /\ Len(log') = last + n
  BY ProbeGrowsLog
<1>2. pending' = AppendPending(pending, fresh)
  BY DEF Probe
<1>3. Newest(pending', last + n) /\ Len(pending') = Smaller(Len(pending) + n, MaxPending)
  BY <1>0, <1>2, AppendNewest
<1>4. Len(pending') <= MaxPending
  <2>1. Len(pending) + n \in Nat /\ MaxPending \in Nat
    BY <1>0, DeliveryAssumption DEF Newest
  <2> QED
    BY <1>3, <2>1, SmallerFact
<1>5. PendingIsNewest'
  BY <1>1, <1>3, <1>4 DEF PendingIsNewest, Newest
<1>6. Range(pending) = (last - Len(pending) + 1) .. last
  BY <1>0, NewestRange
<1>7. Range(pending') = (last + n - Len(pending') + 1) .. (last + n)
  <2>1. last + n \in Nat
    BY <1>0
  <2> QED
    BY <2>1, <1>3, NewestRange
<1>8. Range(fresh) = (last + 1) .. (last + n)
  BY <1>0 DEF Range
<1>9. gone' = gone \cup ((Range(pending) \cup Range(fresh)) \ Range(pending'))
  BY DEF Probe
<1>10. /\ UNCHANGED <<cur, post, stored, twice, doubtful, faults>>
       /\ pc = "probe" /\ pc' \in {"sleep", "upload"}
       /\ failures' \in {0, failures}
  BY DEF Probe
<1>11. Results = 1 .. last /\ Results' = 1 .. (last + n) /\ Results \subseteq Results'
  BY <1>0, <1>1 DEF Results
<1>12. Results' = Results \cup Range(fresh)
  BY <1>0, <1>8, <1>11, SplitInterval
<1> HIDE DEF fresh
<1>13. TypeOK'
  <2>1. pending' \in Seq(Results')
    <3>1. last + n \in Nat
      BY <1>0
    <3> QED
      BY <3>1, <1>3, <1>11, NewestTyped
  <2>2. post' \in [Slots -> RequestType']
    <3>1. RequestType \subseteq RequestType'
      BY <1>11 DEF RequestType
    <3> QED
      BY <3>1, <1>10 DEF IInv, TypeOK
  <2>3. gone' \subseteq Results'
    <3>1. Range(pending) \subseteq Results
      BY <1>6, <1>11, <1>0 DEF Newest
    <3>2. gone \subseteq Results
      BY DEF IInv, TypeOK
    <3> QED
      BY <3>1, <3>2, <1>9, <1>12
  <2>4. stored' \subseteq Results' /\ twice' \subseteq stored' /\ doubtful' \subseteq Results'
    BY <1>10, <1>11 DEF IInv, TypeOK
  <2>5. pc' \in {"fetch", "probe", "upload", "await", "sleep"} /\ failures' \in Nat
    BY <1>10 DEF IInv, TypeOK
  <2>6. cur' = 0 /\ pc' # "await" /\ faults' \in Nat
    BY <1>10 DEF IInv, TypeOK
  <2> QED
    BY <2>1, <2>2, <2>3, <2>4, <2>5, <2>6, <1>1 DEF TypeOK
<1>14. NothingVanishes'
  BY <1>9, <1>10, <1>12 DEF IInv, NothingVanishes
<1>15. QueuedAndStored'
  <2>1. Range(pending') \cap stored' \subseteq Range(pending) \cap stored
    <3>1. stored \subseteq 1 .. last
      BY <1>11 DEF IInv, TypeOK
    <3>2. Len(pending') <= Len(pending) + n
      BY <1>3, <1>0, SmallerFact, DeliveryAssumption DEF Newest, Smaller
    <3> QED
      BY <3>1, <3>2, <1>6, <1>7, <1>10, <1>0, <1>3 DEF Newest
  <2> QED
    BY <2>1, <1>10 DEF IInv, QueuedAndStored
<1>16. SavedIsStored' /\ UnattendedInDoubt' /\ AwaitedIsHead' /\ DuplicatesOnlyAfterDoubt'
  BY <1>10 DEF IInv, SavedIsStored, UnattendedInDoubt, AwaitedIsHead,
               DuplicatesOnlyAfterDoubt, Committed
<1> QED
  BY <1>5, <1>13, <1>14, <1>15, <1>16 DEF IInv

LEMMA EmptyRange == Range(<<>>) = {}
BY DEF Range

\* What is known while the agent waits for an answer.
LEMMA Waiting ==
    ASSUME IInv, pc = "await"
    PROVE  /\ cur \in Slots
           /\ post[cur].batch \in Seq(Results)
           /\ Prefix(post[cur].batch, pending)
           /\ Newest(pending, Len(log)) /\ Len(log) \in Nat
           /\ Range(post[cur].batch) \subseteq Range(pending)
<1>1. cur \in Slots /\ post[cur] \in RequestType
  BY DEF IInv, TypeOK
<1>2. post[cur].batch \in Seq(Results)
  BY <1>1 DEF RequestType
<1>3. Prefix(post[cur].batch, pending)
  BY DEF IInv, AwaitedIsHead
<1>4. Newest(pending, Len(log)) /\ Len(log) \in Nat
  BY QueueIsNewest DEF IInv
<1>5. Range(post[cur].batch) \subseteq Range(pending)
  <2>1. /\ Range(pending) = (Len(log) - Len(pending) + 1) .. Len(log)
        /\ Range(post[cur].batch) =
             (Len(log) - Len(pending) + 1) .. (Len(log) - Len(pending) + Len(post[cur].batch))
    BY <1>2, <1>3, <1>4, NewestRange, PrefixRange
  <2> QED
    BY <2>1, <1>2, <1>3, <1>4 DEF Prefix, Newest
<1> QED
  BY <1>1, <1>2, <1>3, <1>4, <1>5

\* Posting the head of the queue.
LEMMA SendInv ==
    ASSUME IInv, NEW h \in Slots, Send(h)
    PROVE  IInv'
<1> USE DEF IInv
<1> DEFINE batch == NextBatch(pending)
<1>1. /\ pc = "upload" /\ pc' = "await" /\ cur' = h
      /\ UNCHANGED <<log, pending, failures, stored, twice, gone, doubtful, faults>>
      /\ post' = [post EXCEPT ![h] = [stage |-> "sent", batch |-> batch]]
      /\ post \in [Slots -> RequestType] /\ cur = 0 /\ 0 \notin Slots
  BY DEF Send, TypeOK, Slots
<1>2. batch \in Seq(Results) /\ Prefix(batch, pending)
  BY BatchIsPrefix DEF TypeOK
<1> HIDE DEF batch
<1>3. /\ post'[h] = [stage |-> "sent", batch |-> batch]
      /\ \A k \in Slots : k # h => post'[k] = post[k]
  BY <1>1
<1>4. TypeOK'
  <2>1. [stage |-> "sent", batch |-> batch] \in RequestType
    BY <1>2 DEF RequestType
  <2>2. post' \in [Slots -> RequestType]
    BY <1>1, <2>1
  <2> QED
    BY <1>1, <2>2 DEF TypeOK, Results, RequestType
<1>5. AwaitedIsHead'
  BY <1>1, <1>2, <1>3 DEF AwaitedIsHead, Prefix
<1>6. SavedIsStored'
  BY <1>1, <1>3 DEF SavedIsStored, Committed
<1>7. UnattendedInDoubt'
  BY <1>1, <1>3 DEF UnattendedInDoubt
<1>8. QueuedAndStored'
  BY <1>1 DEF QueuedAndStored
<1>9. PendingIsNewest' /\ NothingVanishes' /\ DuplicatesOnlyAfterDoubt'
  BY <1>1 DEF PendingIsNewest, NothingVanishes, DuplicatesOnlyAfterDoubt, Results
<1> QED
  BY <1>4, <1>5, <1>6, <1>7, <1>8, <1>9

\* A 2xx answer: what leaves the queue was stored.
LEMMA AcceptedInv ==
    ASSUME IInv, Accepted
    PROVE  IInv'
<1> USE DEF IInv
<1> DEFINE batch == post[cur].batch
<1>1. /\ pc = "await" /\ post[cur].stage = "answered"
      /\ pc' \in {"sleep", "upload"} /\ failures' \in {0, failures} /\ cur' = 0
      /\ UNCHANGED <<log, stored, twice, gone, doubtful, faults>>
      /\ pending' = Trim(pending, batch)
      /\ post' = [post EXCEPT ![cur] = Idle]
  BY DEF Accepted
<1>2. /\ cur \in Slots /\ batch \in Seq(Results) /\ Prefix(batch, pending)
      /\ Newest(pending, Len(log)) /\ Len(log) \in Nat
  BY <1>1, Waiting
<1>3. Newest(pending', Len(log)) /\ Len(pending') = Len(pending) - Len(batch)
  BY <1>1, <1>2, TrimNewest
<1>4. /\ Range(pending) = (Len(log) - Len(pending) + 1) .. Len(log)
      /\ Range(pending') = (Len(log) - Len(pending') + 1) .. Len(log)
      /\ Range(batch) = (Len(log) - Len(pending) + 1) .. (Len(log) - Len(pending) + Len(batch))
  BY <1>2, <1>3, NewestRange, PrefixRange
<1>5. Len(batch) \in Nat /\ Len(batch) <= Len(pending) /\ Len(pending) \in Nat
  BY <1>2 DEF Prefix, Newest
<1>6. /\ Range(pending') \subseteq Range(pending)
      /\ Range(pending) \subseteq Range(pending') \cup Range(batch)
      /\ Range(pending') \cap Range(batch) = {}
  BY <1>2, <1>3, <1>4, <1>5
<1>7. \A k \in Slots : post'[k] = IF k = cur THEN Idle ELSE post[k]
  BY <1>1 DEF TypeOK
<1>8. Range(batch) \subseteq stored
  BY <1>1, <1>2 DEF SavedIsStored, Committed
<1> HIDE DEF batch
<1>9. TypeOK'
  <2>1. Idle \in RequestType
    BY DEF Idle, RequestType
  <2>2. post' \in [Slots -> RequestType]
    BY <1>1, <2>1 DEF TypeOK
  <2>3. pending' \in Seq(Results)
    BY <1>2, <1>3, NewestTyped DEF Results
  <2> QED
    BY SMTT(20), <1>1, <2>2, <2>3 DEF TypeOK, Results, RequestType
<1>10. PendingIsNewest'
  BY <1>1, <1>2, <1>3, <1>5, DeliveryAssumption DEF PendingIsNewest, Newest
<1>11. NothingVanishes'
  BY <1>1, <1>6, <1>8 DEF NothingVanishes, Results
<1>12. QueuedAndStored'
  BY <1>1, <1>6 DEF QueuedAndStored, batch
<1>13. UnattendedInDoubt'
  BY <1>1, <1>7, EmptyRange DEF UnattendedInDoubt, Idle
<1>14. SavedIsStored'
  BY <1>1, <1>7 DEF SavedIsStored, Committed, Idle
<1>15. AwaitedIsHead' /\ DuplicatesOnlyAfterDoubt'
  BY <1>1 DEF AwaitedIsHead, DuplicatesOnlyAfterDoubt
<1> QED
  BY <1>9, <1>10, <1>11, <1>12, <1>13, <1>14, <1>15

LEMMA CycleFailsTyped ==
    ASSUME TypeOK, CycleFails
    PROVE  pc' = "sleep" /\ failures' \in Nat /\ UNCHANGED <<log, pending, gone>>
BY DeliveryAssumption DEF CycleFails, TypeOK, Smaller

\* Steps of the agent that touch neither the queue nor a request.
LEMMA QuietInv ==
    ASSUME IInv, FetchTasks \/ FetchFails \/ Wake
    PROVE  IInv'
<1>1. /\ pc # "await" /\ pc' \in {"fetch", "probe", "sleep"}
      /\ failures' \in Nat /\ faults' \in Nat
      /\ UNCHANGED <<log, pending, cur, post, stored, twice, gone, doubtful>>
  BY CycleFailsTyped DEF IInv, TypeOK, FetchTasks, FetchFails, Wake, Fault
<1> QED
  BY <1>1 DEF IInv, TypeOK, PendingIsNewest, SavedIsStored, AwaitedIsHead, UnattendedInDoubt,
              QueuedAndStored, NothingVanishes, DuplicatesOnlyAfterDoubt, Committed,
              Results, RequestType

\* The agent learns that the supervisor stored nothing: the answer was an error, or
\* the request it waits for never arrived.
LEMMA RejectedInv ==
    ASSUME IInv,
           \/ Rejected
           \/ \E h \in Slots : RequestLost(h) /\ cur = h
    PROVE  IInv'
<1> USE DEF IInv
<1>1. /\ pc = "await" /\ cur \in Slots /\ post[cur].stage \in {"refused", "sent"}
      /\ pc' = "sleep" /\ failures' \in Nat /\ cur' = 0 /\ faults' \in Nat
      /\ UNCHANGED <<log, pending, stored, twice, gone, doubtful>>
      /\ post' = [post EXCEPT ![cur] = Idle]
  BY CycleFailsTyped DEF Rejected, RequestLost, TypeOK, Fault, Slots
<1>2. \A k \in Slots : post'[k] = IF k = cur THEN Idle ELSE post[k]
  BY <1>1 DEF TypeOK
<1>3. TypeOK'
  <2>1. Idle \in RequestType
    BY DEF Idle, RequestType
  <2>2. post' \in [Slots -> RequestType]
    BY <1>1, <2>1 DEF TypeOK
  <2> QED
    BY <1>1, <2>2 DEF TypeOK, Results, RequestType
<1>4. QueuedAndStored'
  BY <1>1 DEF QueuedAndStored, Committed
<1>5. UnattendedInDoubt'
  BY <1>1, <1>2, EmptyRange DEF UnattendedInDoubt, Idle
<1>6. SavedIsStored'
  BY <1>1, <1>2 DEF SavedIsStored, Committed, Idle
<1>7. PendingIsNewest' /\ NothingVanishes' /\ AwaitedIsHead' /\ DuplicatesOnlyAfterDoubt'
  BY <1>1 DEF PendingIsNewest, NothingVanishes, AwaitedIsHead, DuplicatesOnlyAfterDoubt, Results
<1> QED
  BY <1>3, <1>4, <1>5, <1>6, <1>7

\* The agent stops waiting without an answer: what it waited for is in doubt.
LEMMA GiveUpInv ==
    ASSUME IInv, GiveUp
    PROVE  IInv'
<1> USE DEF IInv
<1>1. /\ pc = "await" /\ cur \in Slots
      /\ pc' = "sleep" /\ failures' \in Nat /\ cur' = 0 /\ faults' \in Nat
      /\ UNCHANGED <<log, pending, post, stored, twice, gone>>
      /\ doubtful' = doubtful \cup Range(post[cur].batch)
  BY CycleFailsTyped DEF GiveUp, InDoubt, TypeOK, Fault
<1>2. Range(post[cur].batch) \subseteq Results
  <2>1. post[cur].batch \in Seq(Results)
    BY <1>1, Waiting
  <2> QED
    BY <2>1 DEF Range
<1>3. TypeOK'
  BY <1>1, <1>2 DEF TypeOK, Results, RequestType
<1>4. QueuedAndStored' /\ UnattendedInDoubt' /\ SavedIsStored'
  BY <1>1 DEF QueuedAndStored, UnattendedInDoubt, SavedIsStored, Committed
<1>5. PendingIsNewest' /\ NothingVanishes' /\ AwaitedIsHead' /\ DuplicatesOnlyAfterDoubt'
  BY <1>1 DEF PendingIsNewest, NothingVanishes, AwaitedIsHead, DuplicatesOnlyAfterDoubt, Results
<1> QED
  BY <1>3, <1>4, <1>5

LEMMA InDoubtFact ==
    ASSUME IInv
    PROVE  /\ InDoubt \subseteq Results
           /\ \A h \in Slots : Range(post[h].batch) \subseteq doubtful \cup InDoubt
<1>1. CASE pc = "await"
  <2>1. post[cur].batch \in Seq(Results)
    BY <1>1, Waiting
  <2>2. InDoubt = Range(post[cur].batch)
    BY <1>1 DEF InDoubt
  <2> QED
    BY <2>1, <2>2 DEF IInv, UnattendedInDoubt, Range
<1>2. CASE pc # "await"
  <2>1. cur = 0 /\ 0 \notin Slots
    BY <1>2 DEF IInv, TypeOK, Slots
  <2> QED
    BY <1>2, <2>1 DEF InDoubt, IInv, UnattendedInDoubt
<1> QED
  BY <1>1, <1>2

\* The agent process ends: the queue is discarded.
LEMMA AgentRestartsInv ==
    ASSUME IInv, AgentRestarts
    PROVE  IInv'
<1> USE DEF IInv
<1>1. /\ pc' = "fetch" /\ failures' = 0 /\ cur' = 0 /\ faults' \in Nat
      /\ pending' = <<>> /\ gone' = gone \cup Range(pending)
      /\ doubtful' = doubtful \cup InDoubt
      /\ UNCHANGED <<log, post, stored, twice>>
  BY DEF AgentRestarts, TypeOK, Fault
<1>2. Range(pending) \subseteq Results
  BY DEF TypeOK, Range
<1>3. TypeOK'
  <2>1. <<>> \in Seq(Results)
    OBVIOUS
  <2> QED
    BY <1>1, <1>2, <2>1, InDoubtFact DEF TypeOK, Results, RequestType
<1>4. PendingIsNewest' /\ QueuedAndStored'
  BY <1>1, EmptyRange, DeliveryAssumption DEF PendingIsNewest, QueuedAndStored
<1>5. NothingVanishes'
  BY <1>1, EmptyRange DEF NothingVanishes, Results
<1>6. UnattendedInDoubt'
  BY <1>1, InDoubtFact DEF UnattendedInDoubt
<1>7. SavedIsStored' /\ AwaitedIsHead' /\ DuplicatesOnlyAfterDoubt'
  BY <1>1 DEF SavedIsStored, AwaitedIsHead, DuplicatesOnlyAfterDoubt, Committed
<1> QED
  BY <1>3, <1>4, <1>5, <1>6, <1>7

\* The supervisor restarts: no request is left, and what the agent waited for is in doubt.
LEMMA SupervisorRestartsInv ==
    ASSUME IInv, SupervisorRestarts
    PROVE  IInv'
<1> USE DEF IInv
<1>1. /\ pc' = (IF pc = "await" THEN "sleep" ELSE pc)
      /\ failures' \in Nat /\ cur' = 0 /\ faults' \in Nat
      /\ UNCHANGED <<log, pending, gone, stored, twice>>
      /\ doubtful' = doubtful \cup InDoubt
      /\ post' = [h \in Slots |-> Idle]
  BY CycleFailsTyped DEF SupervisorRestarts, TypeOK, Fault, agentVars
<1>2. TypeOK'
  <2>1. Idle \in RequestType
    BY DEF Idle, RequestType
  <2>2. post' \in [Slots -> RequestType] /\ doubtful' \subseteq Results
    BY <1>1, <2>1, InDoubtFact DEF TypeOK
  <2>3. pc' \in {"fetch", "probe", "upload", "sleep"}
    BY <1>1 DEF TypeOK
  <2> QED
    BY <1>1, <2>2, <2>3 DEF TypeOK, Results, RequestType
<1>3. QueuedAndStored'
  BY <1>1 DEF QueuedAndStored, InDoubt
<1>4. UnattendedInDoubt' /\ SavedIsStored'
  BY <1>1, EmptyRange DEF UnattendedInDoubt, SavedIsStored, Committed, Idle
<1>5. PendingIsNewest' /\ NothingVanishes' /\ AwaitedIsHead' /\ DuplicatesOnlyAfterDoubt'
  BY <1>1 DEF PendingIsNewest, NothingVanishes, AwaitedIsHead, DuplicatesOnlyAfterDoubt, Results
<1> QED
  BY <1>2, <1>3, <1>4, <1>5

\* The commit of a batch.  A result that gets a second row was in doubt: an unattended
\* request carries only such results, and one the agent waits for carries queued results.
LEMMA SaveInv ==
    ASSUME IInv, NEW h \in Slots, Save(h)
    PROVE  IInv'
<1> USE DEF IInv
<1> DEFINE ids == Range(post[h].batch)
<1>1. /\ post[h].stage = "sent"
      /\ UNCHANGED <<log, pending, pc, failures, cur, gone, doubtful, faults>>
      /\ post' = [post EXCEPT ![h].stage = "saved"]
      /\ twice' = twice \cup (stored \cap ids)
      /\ stored' = stored \cup ids
  BY DEF Save, agentVars
<1>2. /\ post'[h].stage = "saved" /\ post'[h].batch = post[h].batch
      /\ \A k \in Slots : k # h => post'[k] = post[k]
  BY <1>1 DEF TypeOK, RequestType
<1>3. ids \subseteq Results
  <2>1. post[h].batch \in Seq(Results)
    BY DEF TypeOK, RequestType
  <2> QED
    BY <2>1 DEF Range
<1>4. \A k \in Slots : Range(post'[k].batch) = Range(post[k].batch)
  BY <1>2
<1>5. stored \cap ids \subseteq doubtful
  <2>1. CASE cur # h
    BY <2>1 DEF UnattendedInDoubt
  <2>2. CASE cur = h
    <3>1. pc = "await"
      BY <2>2 DEF TypeOK, Slots
    <3>2. ids \subseteq Range(pending)
      BY <2>2, <3>1, Waiting
    <3> QED
      BY <1>1, <2>2, <3>2 DEF QueuedAndStored, Committed
  <2> QED
    BY <2>1, <2>2
<1> HIDE DEF ids
<1>6. TypeOK'
  <2>1. post' \in [Slots -> RequestType]
    BY <1>1 DEF TypeOK, RequestType
  <2> QED
    BY <1>1, <1>3, <2>1 DEF TypeOK, Results, RequestType
<1>7. SavedIsStored'
  BY <1>1, <1>2 DEF SavedIsStored, Committed, ids
<1>8. UnattendedInDoubt'
  BY <1>1, <1>4 DEF UnattendedInDoubt
<1>9. QueuedAndStored'
  <2> SUFFICES ASSUME NEW i \in Range(pending), i \in stored \/ i \in ids, i \notin doubtful
               PROVE  pc = "await" /\ post'[cur].stage \in {"saved", "answered"}
                      /\ i \in Range(post'[cur].batch)
    BY <1>1 DEF QueuedAndStored, Committed
  <2>1. CASE i \in stored
    <3>1. pc = "await" /\ Committed(cur) /\ i \in Range(post[cur].batch)
      BY <2>1 DEF QueuedAndStored
    <3>2. cur \in Slots /\ cur # h
      BY <3>1, <1>1 DEF TypeOK, Committed
    <3> QED
      BY <3>1, <3>2, <1>2 DEF Committed
  <2>2. CASE i \in ids
    <3>1. cur = h
      BY <2>2 DEF UnattendedInDoubt, ids
    <3>2. pc = "await"
      BY <3>1 DEF TypeOK, Slots
    <3> QED
      BY <2>2, <3>1, <3>2, <1>2 DEF ids
  <2> QED
    BY <2>1, <2>2
<1>10. AwaitedIsHead'
  <2>1. pc = "await" => post'[cur].batch = post[cur].batch
    BY <1>2 DEF TypeOK
  <2> QED
    BY <1>1, <2>1 DEF AwaitedIsHead, Prefix
<1>11. DuplicatesOnlyAfterDoubt'
  BY <1>1, <1>5 DEF DuplicatesOnlyAfterDoubt
<1>12. PendingIsNewest' /\ NothingVanishes'
  BY <1>1 DEF PendingIsNewest, NothingVanishes, Results
<1> QED
  BY <1>6, <1>7, <1>8, <1>9, <1>10, <1>11, <1>12

\* The handler moves on without writing: it refuses, it rolls back, or it answers.
LEMMA StageInv ==
    ASSUME IInv, NEW h \in Slots, Refuse(h) \/ SaveFails(h) \/ Answer(h)
    PROVE  IInv'
<1> USE DEF IInv
<1>1. /\ UNCHANGED <<log, pending, pc, failures, cur, gone, stored, twice, doubtful>>
      /\ faults' \in Nat
      /\ \E s \in {"refused", "answered"} :
            /\ post' = [post EXCEPT ![h].stage = s]
            /\ s = "answered" => post[h].stage = "saved"
      /\ post[h].stage \in {"sent", "saved"}
      /\ post[h].stage = "saved" => post'[h].stage = "answered"
  BY DEF Refuse, SaveFails, Answer, agentVars, TypeOK, RequestType, Fault
<1>2. /\ post'[h].batch = post[h].batch
      /\ post'[h].stage = "answered" <=> post[h].stage = "saved"
      /\ post'[h].stage \in {"refused", "answered"}
      /\ \A k \in Slots : k # h => post'[k] = post[k]
  BY <1>1 DEF TypeOK, RequestType
<1>3. \A k \in Slots : post'[k].batch = post[k].batch /\ (Committed(k)' <=> Committed(k))
  BY <1>1, <1>2 DEF Committed
<1>4. TypeOK'
  <2>1. post' \in [Slots -> RequestType]
    BY <1>1 DEF TypeOK, RequestType
  <2> QED
    BY <1>1, <2>1 DEF TypeOK, Results, RequestType
<1>5. SavedIsStored' /\ UnattendedInDoubt'
  BY <1>1, <1>3 DEF SavedIsStored, UnattendedInDoubt
<1>6. AwaitedIsHead' /\ QueuedAndStored'
  <2>1. pc = "await" => /\ post'[cur].batch = post[cur].batch
                        /\ post'[cur].stage \in {"saved", "answered"} <=> Committed(cur)
    BY <1>3 DEF TypeOK, Committed
  <2> QED
    BY <1>1, <2>1 DEF AwaitedIsHead, QueuedAndStored, Prefix, Committed
<1>7. PendingIsNewest' /\ NothingVanishes' /\ DuplicatesOnlyAfterDoubt'
  BY <1>1 DEF PendingIsNewest, NothingVanishes, DuplicatesOnlyAfterDoubt, Results
<1> QED
  BY <1>4, <1>5, <1>6, <1>7

\* An unattended request ends.
LEMMA DiscardInv ==
    ASSUME IInv, NEW h \in Slots, Discard(h) \/ (RequestLost(h) /\ cur # h)
    PROVE  IInv'
<1> USE DEF IInv
<1>1. /\ UNCHANGED <<log, pending, pc, failures, cur, gone, stored, twice, doubtful>>
      /\ faults' \in Nat /\ cur # h
      /\ post' = [post EXCEPT ![h] = Idle]
  BY DEF Discard, RequestLost, agentVars, TypeOK, Fault
<1>2. \A k \in Slots : post'[k] = IF k = h THEN Idle ELSE post[k]
  BY <1>1 DEF TypeOK
<1>3. TypeOK'
  <2>1. Idle \in RequestType
    BY DEF Idle, RequestType
  <2>2. post' \in [Slots -> RequestType]
    BY <1>1, <2>1 DEF TypeOK
  <2> QED
    BY <1>1, <2>2 DEF TypeOK, Results, RequestType
<1>4. SavedIsStored' /\ UnattendedInDoubt'
  BY <1>1, <1>2, EmptyRange DEF SavedIsStored, UnattendedInDoubt, Committed, Idle
<1>5. AwaitedIsHead' /\ QueuedAndStored'
  <2>1. pc = "await" => post'[cur] = post[cur]
    BY <1>1, <1>2 DEF TypeOK
  <2> QED
    BY <1>1, <2>1 DEF AwaitedIsHead, QueuedAndStored, Prefix, Committed
<1>6. PendingIsNewest' /\ NothingVanishes' /\ DuplicatesOnlyAfterDoubt'
  BY <1>1 DEF PendingIsNewest, NothingVanishes, DuplicatesOnlyAfterDoubt, Results
<1> QED
  BY <1>3, <1>4, <1>5, <1>6

LEMMA StutterInv ==
    ASSUME IInv, UNCHANGED vars
    PROVE  IInv'
BY DEF vars, IInv, TypeOK, PendingIsNewest, SavedIsStored, AwaitedIsHead, UnattendedInDoubt,
       QueuedAndStored, NothingVanishes, DuplicatesOnlyAfterDoubt, Committed, Prefix,
       Results, RequestType

LEMMA NextInv == IInv /\ [Next]_vars => IInv'
<1> SUFFICES ASSUME IInv, [Next]_vars PROVE IInv'
  OBVIOUS
<1>1. CASE FetchTasks \/ FetchFails \/ Wake
  BY <1>1, QuietInv
<1>2. CASE SomeProbe
  BY <1>2, ProbeInv DEF SomeProbe
<1>3. CASE Accepted
  BY <1>3, AcceptedInv
<1>4. CASE Rejected
  BY <1>4, RejectedInv
<1>5. CASE GiveUp
  BY <1>5, GiveUpInv
<1>6. CASE AgentRestarts
  BY <1>6, AgentRestartsInv
<1>7. CASE SupervisorRestarts
  BY <1>7, SupervisorRestartsInv
<1>8. ASSUME NEW h \in Slots, Send(h) PROVE IInv'
  BY <1>8, SendInv
<1>9. ASSUME NEW h \in Slots, RequestLost(h) PROVE IInv'
  BY <1>9, RejectedInv, DiscardInv
<1>10. ASSUME NEW h \in Slots, Save(h) PROVE IInv'
  BY <1>10, SaveInv
<1>11. ASSUME NEW h \in Slots, Refuse(h) \/ SaveFails(h) \/ Answer(h) PROVE IInv'
  BY <1>11, StageInv
<1>12. ASSUME NEW h \in Slots, Discard(h) PROVE IInv'
  BY <1>12, DiscardInv
<1>13. CASE UNCHANGED vars
  BY <1>13, StutterInv
<1> QED
  BY <1>1, <1>2, <1>3, <1>4, <1>5, <1>6, <1>7, <1>8, <1>9, <1>10, <1>11, <1>12, <1>13
     DEF Next, AgentStep, HandlerStep, FaultStep

LEMMA Invariance == Spec => []IInv
BY InitInv, NextInv, PTL DEF Spec

\* Type correctness.
THEOREM TypeCorrect == Spec => []TypeOK
BY Invariance, PTL DEF IInv

\* The queue holds the newest results in order, whatever was retried or dropped.
THEOREM QueueOrdered == Spec => []PendingIsNewest
BY Invariance, PTL DEF IInv

\* Every result ever produced is stored, queued, or was discarded by the agent itself.
THEOREM NoSilentLoss == Spec => []NothingVanishes
BY Invariance, PTL DEF IInv

\* A second row needs a request whose outcome the agent never learned.
THEOREM DuplicatesExplained == Spec => []DuplicatesOnlyAfterDoubt
BY Invariance, PTL DEF IInv
----------------------------------------------------------------------------
(***************************************************************************)
(* Every step implements the promise of AtLeastOnce: a round is Produce, a *)
(* commit is Store, a 2xx answer is Release, the end of the agent process  *)
(* is Stop, and everything else is invisible.                              *)
(***************************************************************************)
LEMMA ProbeRefines ==
    ASSUME IInv, NEW n \in 0 .. Targets, NEW kind \in [1 .. n -> Kinds],
           Probe(n, kind)
    PROVE  Promise!Next
<1> DEFINE last == Len(log)
           fresh == [i \in 1 .. n |-> last + i]
<1>0. n \in Nat /\ last \in Nat /\ Newest(pending, last) /\ Len(pending) \in Nat
      /\ MaxPending \in Nat
  BY QueueIsNewest, DeliveryAssumption DEF IInv
<1>1. Len(log') = last + n
  BY ProbeGrowsLog
<1>2. pending' = AppendPending(pending, fresh)
  BY DEF Probe
<1>3. Newest(pending', last + n) /\ Len(pending') = Smaller(Len(pending) + n, MaxPending)
  BY <1>0, <1>2, AppendNewest
<1>4. /\ Range(pending) = (last - Len(pending) + 1) .. last
      /\ Range(pending') = (last + n - Len(pending') + 1) .. (last + n)
  <2>1. last + n \in Nat
    BY <1>0
  <2> QED
    BY <2>1, <1>0, <1>3, NewestRange
<1>5. Range(fresh) = (last + 1) .. (last + n)
  BY <1>0 DEF Range
<1>6. gone' = gone \cup ((Range(pending) \cup Range(fresh)) \ Range(pending'))
  BY DEF Probe
<1> DEFINE all == Range(pending) \cup ((last + 1) .. (last + n))
<1>7. Len(pending) <= last
  BY <1>0 DEF Newest
<1>8. /\ \A i \in all : i \in Range(pending') <=> i + MaxPending > last + n
      /\ Range(pending') \subseteq all
  <2> HIDE DEF fresh, last
  <2>1. all = (last - Len(pending) + 1) .. (last + n)
    BY <1>0, <1>4, <1>7
  <2>2. CASE Len(pending) + n <= MaxPending
    <3>1. Len(pending') = Len(pending) + n
      BY <2>2, <1>0, <1>3 DEF Smaller
    <3> QED
      BY <2>1, <2>2, <3>1, <1>0, <1>4, <1>7
  <2>3. CASE Len(pending) + n > MaxPending
    <3>1. Len(pending') = MaxPending
      BY <2>3, <1>0, <1>3 DEF Smaller
    <3> QED
      BY <2>1, <2>3, <3>1, <1>0, <1>4, <1>7
  <2> QED
    BY <2>2, <2>3, <1>0
<1>9. Range(pending') = {i \in all : i + MaxPending > last + n}
  BY <1>8
<1>10. gone' = gone \cup {i \in all : i + MaxPending <= last + n}
  <2>1. \A i \in all : i + MaxPending <= last + n <=> ~(i + MaxPending > last + n)
    BY <1>0, <1>4, <1>7
  <2> QED
    BY <2>1, <1>5, <1>6, <1>8
<1>11. UNCHANGED stored
  BY DEF Probe
<1>12. Promise!Produce(n)
  BY <1>1, <1>9, <1>10, <1>11 DEF Promise!Produce
<1> QED
  BY <1>12 DEF Promise!Next

LEMMA StepRefines == IInv /\ [Next]_vars => [Promise!Next]_(Promise!vars)
<1> SUFFICES ASSUME IInv, [Next]_vars PROVE Promise!Next \/ UNCHANGED Promise!vars
  OBVIOUS
<1>1. CASE SomeProbe
  BY <1>1, ProbeRefines DEF SomeProbe
<1>2. CASE Accepted
  <2> DEFINE batch == post[cur].batch
  <2>1. /\ pc = "await" /\ post[cur].stage = "answered" /\ pending' = Trim(pending, batch)
        /\ UNCHANGED <<log, stored, gone>>
    BY <1>2 DEF Accepted
  <2>2. /\ cur \in Slots /\ batch \in Seq(Results) /\ Prefix(batch, pending)
        /\ Newest(pending, Len(log)) /\ Len(log) \in Nat
        /\ Range(batch) \subseteq Range(pending)
    BY <2>1, Waiting
  <2>3. Newest(pending', Len(log)) /\ Len(pending') = Len(pending) - Len(batch)
    BY <2>1, <2>2, TrimNewest
  <2>4. Range(batch) \subseteq stored
    BY <2>1, <2>2 DEF IInv, SavedIsStored, Committed
  <2>5. Range(pending') = Range(pending) \ Range(batch)
    <3>1. /\ Range(pending) = (Len(log) - Len(pending) + 1) .. Len(log)
          /\ Range(pending') = (Len(log) - Len(pending') + 1) .. Len(log)
          /\ Range(batch) =
               (Len(log) - Len(pending) + 1) .. (Len(log) - Len(pending) + Len(batch))
      BY <2>2, <2>3, NewestRange, PrefixRange
    <3>2. Len(batch) \in Nat /\ Len(batch) <= Len(pending) /\ Len(pending) \in Nat
      BY <2>2 DEF Prefix, Newest
    <3> HIDE DEF batch
    <3> QED
      BY <3>1, <3>2, <2>2, <2>3
  <2>6. Range(batch) \in SUBSET (1 .. Len(log))
    <3>1. batch \in Seq(1 .. Len(log))
      BY <2>2 DEF Results
    <3> QED
      BY <3>1 DEF Range
  <2>7. Promise!Release(Range(batch))
    BY <2>1, <2>2, <2>4, <2>5 DEF Promise!Release
  <2> QED
    BY <2>6, <2>7 DEF Promise!Next
<1>3. ASSUME NEW h \in Slots, Save(h)
      PROVE  Promise!Next
  <2>1. Range(post[h].batch) \in SUBSET (1 .. Len(log))
    <3>1. post[h].batch \in Seq(1 .. Len(log))
      BY DEF IInv, TypeOK, RequestType, Results
    <3> QED
      BY <3>1 DEF Range
  <2>2. Promise!Store(Range(post[h].batch))
    BY <1>3, <2>1 DEF Promise!Store, Save, agentVars
  <2> QED
    BY <2>1, <2>2 DEF Promise!Next
<1>4. CASE AgentRestarts
  <2>1. Promise!Stop
    BY <1>4, EmptyRange DEF Promise!Stop, AgentRestarts
  <2> QED
    BY <2>1 DEF Promise!Next
<1>5. CASE FetchTasks \/ FetchFails \/ Wake \/ Rejected \/ GiveUp \/ SupervisorRestarts
  BY <1>5 DEF FetchTasks, FetchFails, Wake, Rejected, GiveUp, SupervisorRestarts,
              CycleFails, agentVars, Promise!vars
<1>6. ASSUME NEW h \in Slots,
             \/ Send(h) \/ RequestLost(h) \/ Refuse(h) \/ SaveFails(h)
             \/ Answer(h) \/ Discard(h)
      PROVE  UNCHANGED Promise!vars
  BY <1>6 DEF Send, RequestLost, Refuse, SaveFails, Answer, Discard, CycleFails, agentVars,
              Promise!vars
<1>7. CASE UNCHANGED vars
  BY <1>7 DEF vars, Promise!vars
<1> QED
  BY <1>1, <1>2, <1>3, <1>4, <1>5, <1>6, <1>7
     DEF Next, AgentStep, HandlerStep, FaultStep

\* The agent's loop and the report handler implement at-least-once delivery of all but
\* the results the agent gives up.
THEOREM Implementation == Spec => ImplementsPromise
<1>1. Init => Promise!Init
  BY EmptyRange DEF Init, Promise!Init
<1> QED
  BY <1>1, StepRefines, Invariance, PTL DEF Spec, ImplementsPromise, Promise!Spec
----------------------------------------------------------------------------
(* The agent registry. *)

Commits == Slots \cup Deletions
Entries == [failures : 0 .. Threshold, status : {"unknown", "ok", "checking", "failed"}]

\* What a commit means for the entry, and what becomes of the entry e by it.
Verdict(c) ==
    IF c \in Deletions
    THEN IF spaced THEN "none" ELSE "deletion"
    ELSE IF RoundFailed(post[c].batch) THEN "bad" ELSE "good"

VerdictType == {"deletion", "none", "bad", "good"}

Outcome(e, verdict) ==
    CASE verdict = "deletion" -> Unknown
      [] verdict = "none" -> e
      [] verdict = "bad" -> Advance(e, TRUE)
      [] verdict = "good" -> Advance(e, FALSE)

\* Every commit is owed once, by the handler that stands between commit and map.
Owed ==
    /\ owed \in Seq(Commits)
    /\ \A i, j \in 1 .. Len(owed) : owed[i] = owed[j] => i = j
    /\ \A c \in Range(owed) : c >= -deletions
    /\ \A h \in Slots : post[h].stage = "saved" <=> h \in Range(owed)
    /\ overtaken \subseteq Range(owed)

\* In order, the commits owed lead from the entry to the ideal one.
Path ==
    ~disorder =>
        \E f \in [0 .. Len(owed) -> Entries] :
            /\ f[0] = conn /\ f[Len(owed)] = ideal
            /\ \A i \in 1 .. Len(owed) : f[i] = Outcome(f[i - 1], Verdict(owed[i]))

\* The last commit owed that no later one overtook is the last of all.
LastCommit ==
    owed # <<>> /\ owed[Len(owed)] \notin overtaken =>
        \E e \in Entries : ideal = Outcome(e, Verdict(owed[Len(owed)]))

Listing == ~listed /\ ~spaced => ideal = Unknown

Typed ==
    /\ conn \in Entries /\ ideal \in Entries
    /\ spaced \in BOOLEAN /\ listed \in BOOLEAN /\ disorder \in BOOLEAN /\ deletions \in 0 .. MaxDeletions

Registry == Typed /\ Owed /\ Path /\ LastCommit /\ Listing

\* The rounds in the log, and those counted.
Logged ==
    /\ LastRound \in 0 .. Rounds
    /\ \A i \in Results : log[i].round \in 1 .. LastRound
    /\ badRounds \subseteq 1 .. LastRound

\* While all is calm the queue is the last round, in one request, counted once.
Serial ==
    /\ pc \in {"fetch", "probe", "sleep"} <=> pending = <<>>
    /\ Len(pending) <= Targets
    /\ \A i \in Range(pending) : log[i].round = LastRound
    /\ \A h \in Slots : h # cur => post[h] = Idle
    /\ pc = "await" => post[cur].batch = pending /\ post[cur].stage \in {"sent", "saved", "answered"}
    /\ pc = "upload" \/ (pc = "await" /\ post[cur].stage # "answered") => LastRound \notin badRounds

Counted ==
    /\ conn.failures = Smaller(Cardinality(badRounds), Threshold)
    /\ conn.status = "failed" <=> conn.failures >= Threshold

Counting == Logged /\ (Calm => Serial /\ Counted)
----------------------------------------------------------------------------
(* Sequences without repetition. *)

LEMMA Before ==
    ASSUME NEW S, NEW s \in Seq(S), NEW i \in 1 .. Len(s)
    PROVE  Range(SubSeq(s, 1, i - 1)) = {s[j] : j \in 1 .. i - 1}
<1>1. i - 1 \in Int /\ 1 \in Int /\ i - 1 \in 0 .. Len(s)
  OBVIOUS
<1>2. \A j \in 1 .. i - 1 : s[j] \in S
  OBVIOUS
<1> DEFINE m == i - 1
<1>3. m \in Int /\ m \in Nat /\ \A j \in 1 .. m : s[j] \in S
  BY <1>1, <1>2
<1> HIDE DEF m
<1>4. /\ SubSeq(s, 1, m) \in Seq(S)
      /\ Len(SubSeq(s, 1, m)) = IF 1 <= m THEN m - 1 + 1 ELSE 0
      /\ \A j \in 1 .. m - 1 + 1 : SubSeq(s, 1, m)[j] = s[1 + j - 1]
  BY <1>1, <1>3, SubSeqProperties
<1>5. DOMAIN SubSeq(s, 1, m) = 1 .. m /\ \A j \in 1 .. m : SubSeq(s, 1, m)[j] = s[j]
  BY <1>3, <1>4
<1>6. Range(SubSeq(s, 1, m)) = {s[j] : j \in 1 .. m}
  BY <1>5 DEF Range
<1> QED  BY <1>6 DEF m

LEMMA Removed ==
    ASSUME NEW S, NEW s \in Seq(S), NEW i \in 1 .. Len(s)
    PROVE  LET t == SubSeq(s, 1, i - 1) \o SubSeq(s, i + 1, Len(s))
           IN  /\ t \in Seq(S) /\ Len(t) = Len(s) - 1
               /\ \A j \in 1 .. Len(s) - 1 : t[j] = IF j < i THEN s[j] ELSE s[j + 1]
<1> DEFINE n == Len(s)
           m == i - 1
           k == i + 1
           a == SubSeq(s, 1, m)
           b == SubSeq(s, k, n)
<1>1. n \in Nat /\ m \in Int /\ k \in Int /\ n \in Int /\ m \in Nat /\ 1 \in Int /\ m + 1 = i /\ i <= n
  OBVIOUS
<1>2. (\A j \in 1 .. m : s[j] \in S) /\ (\A j \in k .. n : s[j] \in S)
  OBVIOUS
<1> HIDE DEF m, k
<1>3. /\ a \in Seq(S) /\ Len(a) = IF 1 <= m THEN m - 1 + 1 ELSE 0
      /\ \A j \in 1 .. m - 1 + 1 : a[j] = s[1 + j - 1]
  BY <1>1, <1>2, SubSeqProperties
<1>4. /\ b \in Seq(S) /\ Len(b) = IF k <= n THEN n - k + 1 ELSE 0
      /\ \A j \in 1 .. n - k + 1 : b[j] = s[k + j - 1]
  BY <1>1, <1>2, SubSeqProperties
<1> HIDE DEF a, b
<1>5. Len(a) = m /\ \A j \in 1 .. m : a[j] = s[j]
  BY <1>1, <1>3
<1>6. Len(b) = n - i /\ \A j \in 1 .. n - i : b[j] = s[i + j]
  BY <1>1, <1>4 DEF k
<1> DEFINE t == a \o b
<1>7. /\ t \in Seq(S) /\ Len(t) = Len(a) + Len(b)
      /\ \A j \in 1 .. Len(a) + Len(b) : t[j] = IF j <= Len(a) THEN a[j] ELSE b[j - Len(a)]
  BY <1>3, <1>4, ConcatProperties
<1> HIDE DEF n, t
<1>8. Len(t) = n - 1
  <2>1. Len(t) = m + (n - i)
    BY <1>5, <1>6, <1>7
  <2>2. n \in Int /\ i \in Int /\ m + 1 = i /\ m \in Int
    BY <1>1
  <2> QED  BY <2>1, <2>2
<1>9. ASSUME NEW j \in 1 .. n - 1 PROVE t[j] = IF j < i THEN s[j] ELSE s[j + 1]
  <2>1. t[j] = IF j <= m THEN a[j] ELSE b[j - m]
    BY <1>1, <1>5, <1>6, <1>7
  <2>2. CASE j <= m
    BY <1>1, <1>5, <2>1, <2>2
  <2>3. CASE ~(j <= m)
    <3>1. j - m \in 1 .. n - i /\ i + (j - m) = j + 1 /\ ~(j < i)
      BY <1>1, <2>3
    <3>2. b[j - m] = s[i + (j - m)]
      BY <1>6, <3>1
    <3> QED  BY <2>1, <2>3, <3>1, <3>2
  <2> QED  BY <2>2, <2>3
<1> QED  BY <1>7, <1>8, <1>9 DEF n, t, a, b, m, k
----------------------------------------------------------------------------
(* The entry and the commits. *)

LEMMA OutcomeFacts ==
    ASSUME NEW e \in Entries, NEW verdict \in VerdictType
    PROVE  /\ Outcome(e, verdict) \in Entries /\ Unknown \in Entries
           /\ verdict \notin {"bad", "none"} => \A x : Outcome(x, verdict) = Outcome(e, verdict)
<1>1. Threshold \in Nat /\ Threshold > 0
  BY ThresholdAssumption DEF ThresholdAssumption
<1>2. Smaller(e.failures + 1, Threshold) \in 0 .. Threshold
  BY <1>1 DEF Entries, Smaller
<1>3. Advance(e, TRUE) \in Entries
  BY <1>1, <1>2 DEF Advance, Entries
<1>4. Advance(e, FALSE) \in Entries /\ \A x : Advance(x, FALSE) = Advance(e, FALSE)
  BY <1>1 DEF Advance, Entries
<1>5. Unknown \in Entries
  BY <1>1 DEF Unknown, Entries
<1> QED  BY <1>3, <1>4, <1>5 DEF Outcome, VerdictType

LEMMA Verdicts ==
    /\ \A c : Verdict(c) \in VerdictType
    /\ \A d \in Deletions : /\ Verdict(d) = IF spaced THEN "none" ELSE "deletion"
                            /\ d < 0 /\ d \in Int
    /\ \A h \in Slots : /\ h \notin Deletions /\ h > 0 /\ h \in Int
                        /\ \A e : Outcome(e, Verdict(h)) = Advance(e, RoundFailed(post[h].batch))
<1>1. \A d \in Deletions : d < 0 /\ d \in Int
  BY DEF Deletions
<1>2. \A h \in Slots : h > 0 /\ h \in Int
  BY DeliveryAssumption DEF DeliveryAssumption, Slots
<1>3. \A h \in Slots : h \notin Deletions
  BY <1>1, <1>2
<1>4. ASSUME NEW h \in Slots, NEW e
      PROVE  Outcome(e, Verdict(h)) = Advance(e, RoundFailed(post[h].batch))
  <2>1. CASE RoundFailed(post[h].batch)
    BY <1>3, <2>1 DEF Verdict, Outcome, Advance
  <2>2. CASE ~RoundFailed(post[h].batch)
    BY <1>3, <2>2 DEF Verdict, Outcome, Advance
  <2> QED  BY <2>1, <2>2
<1> QED  BY <1>1, <1>2, <1>3, <1>4 DEF Verdict, VerdictType

\* Nothing of it changes but perhaps that the agent is listed now.
LEMMA QuietStep ==
    ASSUME Registry, UNCHANGED <<spaced, conn, owed, ideal, overtaken, disorder, deletions>>,
           listed' \in BOOLEAN, listed => listed',
           \A h \in Slots : post'[h].stage = "saved" <=> post[h].stage = "saved",
           \A c \in Range(owed) : Verdict(c)' = Verdict(c)
    PROVE  Registry'
<1>1. Typed' /\ Listing'
  BY DEF Registry, Typed, Listing
<1>2. Owed'
  BY DEF Registry, Owed
<1>3. owed \in Seq(Commits) /\ \A i \in 1 .. Len(owed) : owed[i] \in Range(owed)
  BY DEF Registry, Owed, Range
<1>4. \A i \in 1 .. Len(owed) : Verdict(owed[i])' = Verdict(owed[i])
  BY <1>3
<1>5. Path'
  BY <1>4 DEF Registry, Path
<1>6. LastCommit'
  <2>1. owed # <<>> => Len(owed) \in 1 .. Len(owed)
    BY <1>3
  <2> QED  BY <1>4, <2>1 DEF Registry, LastCommit
<1> QED  BY <1>1, <1>2, <1>5, <1>6 DEF Registry

\* A commit, which the map does not follow yet.
LEMMA CommitStep ==
    ASSUME Registry, NEW c \in Commits, c \notin Range(owed), owed' = Append(owed, c),
           ideal' = Outcome(ideal, Verdict(c)'), UNCHANGED <<spaced, conn, overtaken, disorder>>,
           listed' \in BOOLEAN, ~listed' /\ ~spaced => ideal' = Unknown,
           deletions' \in 0 .. MaxDeletions, deletions <= deletions', c >= -deletions',
           \A h \in Slots : post'[h].stage = "saved" <=> post[h].stage = "saved" \/ h = c,
           \A d \in Range(owed) : Verdict(d)' = Verdict(d)
    PROVE  Registry'
<1> DEFINE n == Len(owed)
<1>1. /\ owed \in Seq(Commits) /\ n \in Nat
      /\ conn \in Entries /\ ideal \in Entries /\ disorder \in BOOLEAN /\ deletions \in Nat
  BY DEF Registry, Owed, Typed
<1>2. /\ owed' \in Seq(Commits) /\ Len(owed') = n + 1
      /\ (\A i \in 1 .. n : owed'[i] = owed[i]) /\ owed'[n + 1] = c
  BY <1>1, AppendProperties
<1>3. Range(owed') = Range(owed) \cup {c} /\ \A i \in 1 .. n : owed[i] \in Range(owed)
  BY <1>1, <1>2 DEF Range
<1>4. PICK verdict \in VerdictType : verdict = Verdict(c)'
  <2>1. Verdict(c)' \in VerdictType
    BY DEF Verdict, VerdictType
  <2> QED  BY <2>1
<1>5. Typed' /\ Listing'
  <2>1. ideal' \in Entries
    BY <1>1, <1>4, OutcomeFacts
  <2>2. /\ conn' \in Entries /\ spaced' \in BOOLEAN /\ disorder' \in BOOLEAN
        /\ listed' \in BOOLEAN /\ deletions' \in 0 .. MaxDeletions
    BY DEF Registry, Typed
  <2>3. Listing'
    BY DEF Listing
  <2> QED  BY <2>1, <2>2, <2>3 DEF Typed
<1>6. Owed'
  <2>1. \A d \in Commits : d \in Int
    BY Verdicts DEF Commits
  <2>2. \A d \in Range(owed) : d \in Int /\ d >= -deletions
    BY <1>1, <2>1 DEF Registry, Owed, Range
  <2>3. deletions' \in Int
    OBVIOUS
  <2>4. \A d \in Range(owed') : d >= -deletions'
    BY <1>1, <1>3, <2>2, <2>3
  <2>5. \A i, j \in 1 .. Len(owed') : owed'[i] = owed'[j] => i = j
    BY <1>1, <1>2, <1>3 DEF Registry, Owed
  <2>6. \A h \in Slots : post'[h].stage = "saved" <=> h \in Range(owed')
    BY <1>3 DEF Registry, Owed
  <2>7. overtaken' \subseteq Range(owed')
    BY <1>3 DEF Registry, Owed
  <2> QED  BY <1>2, <2>4, <2>5, <2>6, <2>7 DEF Owed
<1>7. \A i \in 1 .. n : Verdict(owed[i])' = Verdict(owed[i])
  BY <1>3
<1>8. ASSUME ~disorder
      PROVE  \E g \in [0 .. Len(owed') -> Entries] :
                /\ g[0] = conn' /\ g[Len(owed')] = ideal'
                /\ \A i \in 1 .. Len(owed') : g[i] = Outcome(g[i - 1], Verdict(owed[i])')
  <2>1. PICK f \in [0 .. n -> Entries] :
          /\ f[0] = conn /\ f[n] = ideal
          /\ \A i \in 1 .. n : f[i] = Outcome(f[i - 1], Verdict(owed[i]))
    BY <1>8 DEF Registry, Path
  <2> DEFINE g == [i \in 0 .. n + 1 |-> IF i = n + 1 THEN ideal' ELSE f[i]]
  <2>2. g \in [0 .. n + 1 -> Entries]
    BY <1>1, <1>5 DEF Typed
  <2>3. g[0] = conn' /\ g[n + 1] = ideal' /\ g[n] = ideal
    BY <1>1, <2>1
  <2>4. ASSUME NEW i \in 1 .. n + 1 PROVE g[i] = Outcome(g[i - 1], Verdict(owed[i])')
    <3>1. CASE i = n + 1
      <4>1. Verdict(owed[i])' = Verdict(c)' /\ i - 1 = n
        BY <1>1, <1>2, <3>1 DEF Verdict
      <4> QED  BY <2>3, <3>1, <4>1
    <3>2. CASE i # n + 1
      <4>1. i \in 1 .. n /\ g[i] = f[i] /\ g[i - 1] = f[i - 1]
        BY <1>1, <3>2
      <4>2. Verdict(owed[i])' = Verdict(owed[i])
        BY <1>2, <1>7, <4>1 DEF Verdict
      <4> QED  BY <2>1, <4>1, <4>2
    <3> QED  BY <3>1, <3>2
  <2> HIDE DEF g
  <2> QED  BY <1>2, <2>2, <2>3, <2>4
<1>9. Path'
  BY <1>8 DEF Path
<1>10. LastCommit'
  <2>1. Verdict(owed[Len(owed)])' = Verdict(c)'
    BY <1>2 DEF Verdict
  <2> QED  BY <1>1, <2>1 DEF LastCommit
<1> QED  BY <1>5, <1>6, <1>9, <1>10 DEF Registry

\* The map follows a commit.
LEMMA FollowStep ==
    ASSUME Registry, NEW c \in Range(owed), NEW resets \in BOOLEAN,
           resets => Verdict(c) \notin {"bad", "none"},
           Follow(c, resets), conn' = Outcome(conn, Verdict(c)), UNCHANGED <<spaced, ideal, listed, deletions>>,
           \A h \in Slots : post'[h].stage = "saved" <=> post[h].stage = "saved" /\ h # c,
           \A d \in Range(owed) \ {c} : Verdict(d)' = Verdict(d)
    PROVE  Registry'
<1> DEFINE n == Len(owed)
           alone == resets /\ owed = <<c>> /\ c \notin overtaken
<1>1. /\ owed \in Seq(Commits) /\ n \in Nat
      /\ conn \in Entries /\ ideal \in Entries /\ disorder \in BOOLEAN
      /\ \A j, k \in 1 .. n : owed[j] = owed[k] => j = k
      /\ overtaken \subseteq Range(owed)
  BY DEF Registry, Owed, Typed
<1>2. Range(owed) = {owed[j] : j \in 1 .. n}
  BY <1>1 DEF Range
<1>3. PICK i \in 1 .. n : c = owed[i]
  BY <1>2
<1> DEFINE before == {owed[j] : j \in 1 .. i - 1}
<1>4. /\ SelectInSeq(owed, LAMBDA d : d = c) = i
      /\ RemoveFirst(owed, c) = SubSeq(owed, 1, i - 1) \o SubSeq(owed, i + 1, n)
  <2>1. {k \in 1 .. n : owed[k] = c} = {i}
    BY <1>1, <1>3
  <2>2. Min({i}) = i
    BY DEF Min
  <2> QED  BY <1>3, <2>1, <2>2 DEF SelectInSeq, RemoveFirst, RemoveAt
<1>5. Range(SubSeq(owed, 1, i - 1)) = before
  BY <1>1, <1>3, Before
<1>6. /\ owed' = SubSeq(owed, 1, i - 1) \o SubSeq(owed, i + 1, n)
      /\ overtaken' = (overtaken \cup before) \ {c}
      /\ disorder' = IF alone THEN FALSE ELSE disorder \/ before # {}
  BY <1>4, <1>5 DEF Follow
<1>7. /\ owed' \in Seq(Commits) /\ Len(owed') = n - 1
      /\ \A j \in 1 .. n - 1 : owed'[j] = IF j < i THEN owed[j] ELSE owed[j + 1]
  BY <1>1, <1>3, <1>6, Removed
<1>8. Range(owed') = {owed'[j] : j \in 1 .. n - 1}
  BY <1>1, <1>3, <1>7 DEF Range
<1>9. Range(owed') = Range(owed) \ {c}
  <2>1. ASSUME NEW j \in 1 .. n - 1 PROVE owed'[j] \in Range(owed) \ {c}
    BY <1>1, <1>2, <1>3, <1>7
  <2>2. ASSUME NEW j \in 1 .. n, j # i PROVE \E k \in 1 .. n - 1 : owed'[k] = owed[j]
    <3>1. CASE j < i
      BY <1>1, <1>3, <1>7, <3>1
    <3>2. CASE ~(j < i)
      <4>1. j - 1 \in 1 .. n - 1 /\ ~(j - 1 < i) /\ (j - 1) + 1 = j
        BY <1>1, <1>3, <2>2, <3>2
      <4> QED  BY <1>7, <4>1
    <3> QED  BY <3>1, <3>2
  <2>3. ASSUME NEW x \in Range(owed) \ {c} PROVE x \in Range(owed')
    <3>1. PICK j \in 1 .. n : x = owed[j] /\ j # i
      BY <1>2, <1>3
    <3> QED  BY <1>8, <2>2, <3>1
  <2>4. ASSUME NEW x \in Range(owed') PROVE x \in Range(owed) \ {c}
    BY <1>8, <2>1
  <2> QED  BY <2>3, <2>4
<1>10. PICK verdict \in VerdictType : verdict = Verdict(c)
  BY Verdicts
<1>11. Typed' /\ Listing'
  BY <1>1, <1>6, <1>10, OutcomeFacts DEF Registry, Typed, Listing
<1>12. Owed'
  <2>1. \A j, k \in 1 .. Len(owed') : owed'[j] = owed'[k] => j = k
    BY <1>1, <1>3, <1>7
  <2>2. \A h \in Slots : post'[h].stage = "saved" <=> h \in Range(owed')
    BY <1>9 DEF Registry, Owed
  <2>3. before \subseteq Range(owed)
    BY <1>1, <1>2, <1>3
  <2>4. overtaken' \subseteq Range(owed')
    BY <1>1, <1>6, <1>9, <2>3
  <2>5. \A d \in Range(owed') : d >= -deletions'
    BY <1>9 DEF Registry, Owed
  <2> QED  BY <1>7, <2>1, <2>2, <2>4, <2>5 DEF Owed
<1>13. ASSUME NEW j \in 1 .. n - 1 PROVE Verdict(owed[j])' = Verdict(owed'[j])
  <2>1. PICK d \in Range(owed) \ {c} : d = owed'[j]
    BY <1>8, <1>9
  <2>2. Verdict(d)' = Verdict(d)
    BY <2>1
  <2> QED  BY <2>1, <2>2 DEF Verdict
<1>14. LastCommit'
  <2> SUFFICES ASSUME n - 1 > 0, owed'[n - 1] \notin overtaken'
               PROVE  \E e \in Entries : ideal = Outcome(e, Verdict(owed'[n - 1]))
    BY <1>1, <1>7, <1>13 DEF LastCommit
  <2>1. i < n
    <3> SUFFICES ASSUME i = n PROVE FALSE
      BY <1>1, <1>3
    <3>1. owed'[n - 1] = owed[n - 1] /\ n - 1 \in 1 .. i - 1
      BY <1>1, <1>7
    <3>2. owed[n - 1] \in before /\ owed[n - 1] # c
      BY <1>1, <1>3, <3>1
    <3> QED  BY <1>6, <3>1, <3>2
  <2>2. owed'[n - 1] = owed[n] /\ owed[n] # c
    BY <1>1, <1>3, <1>7, <2>1
  <2>3. owed[n] \notin overtaken
    BY <1>6, <2>2
  <2>4. owed # <<>>
    BY <1>1
  <2> QED  BY <2>2, <2>3, <2>4 DEF Registry, LastCommit
<1>15. ASSUME ~disorder'
       PROVE  \E g \in [0 .. n - 1 -> Entries] :
                 /\ g[0] = conn' /\ g[n - 1] = ideal
                 /\ \A j \in 1 .. n - 1 : g[j] = Outcome(g[j - 1], Verdict(owed'[j]))
  <2>1. CASE alone
    <3>1. n = 1 /\ owed[n] = c
      BY <2>1
    <3>2. PICK e \in Entries : ideal = Outcome(e, Verdict(c))
      BY <2>1, <3>1 DEF Registry, LastCommit
    <3>3. conn' = ideal
      BY <1>1, <1>10, <2>1, <3>2, OutcomeFacts
    <3> DEFINE g == [j \in 0 .. n - 1 |-> ideal]
    <3>4. /\ g \in [0 .. n - 1 -> Entries] /\ g[0] = conn' /\ g[n - 1] = ideal
          /\ \A j \in 1 .. n - 1 : g[j] = Outcome(g[j - 1], Verdict(owed'[j]))
      BY <1>1, <3>1, <3>3
    <3> QED  BY <3>4
  <2>2. CASE ~alone
    <3>1. ~disorder /\ before = {}
      <4> HIDE DEF alone, before
      <4>1. disorder' = (disorder \/ before # {})
        BY <1>6, <2>2
      <4>2. disorder \/ before # {} => disorder'
        BY <4>1, Zenon
      <4> QED  BY <1>15, <4>2, Zenon
    <3>2. i = 1
      <4>1. i # 1 => 1 \in 1 .. i - 1
        BY <1>1
      <4>2. i # 1 => owed[1] \in before
        BY <4>1
      <4> HIDE DEF before
      <4> QED  BY <3>1, <4>2
    <3>3. PICK f \in [0 .. n -> Entries] :
            /\ f[0] = conn /\ f[n] = ideal
            /\ \A j \in 1 .. n : f[j] = Outcome(f[j - 1], Verdict(owed[j]))
      BY <3>1 DEF Registry, Path
    <3> DEFINE g == [j \in 0 .. n - 1 |-> f[j + 1]]
    <3>4. g \in [0 .. n - 1 -> Entries] /\ g[n - 1] = ideal
      BY <1>1, <1>3, <3>3
    <3>5. g[0] = conn'
      <4>1. g[0] = f[1] /\ f[1] = Outcome(f[1 - 1], Verdict(owed[1])) /\ 1 - 1 = 0
        BY <1>1, <1>3, <3>3
      <4> QED  BY <1>3, <3>2, <3>3, <4>1
    <3>6. ASSUME NEW j \in 1 .. n - 1 PROVE g[j] = Outcome(g[j - 1], Verdict(owed'[j]))
      <4>1. g[j] = f[j + 1] /\ g[j - 1] = f[j] /\ owed'[j] = owed[j + 1]
        BY <1>1, <1>7, <3>2
      <4>2. j + 1 \in 1 .. n /\ (j + 1) - 1 = j
        BY <1>1
      <4>3. f[j + 1] = Outcome(f[(j + 1) - 1], Verdict(owed[j + 1]))
        BY <3>3, <4>2
      <4> QED  BY <4>1, <4>2, <4>3
    <3> HIDE DEF g
    <3> QED  BY <3>4, <3>5, <3>6
  <2> QED  BY <2>1, <2>2
<1>16. Path'
  BY <1>7, <1>13, <1>15 DEF Path
<1> QED  BY <1>11, <1>12, <1>14, <1>16 DEF Registry
----------------------------------------------------------------------------
(* The steps. *)

LEMMA StepIsNext == [RNext]_rvars => [Next]_vars
  BY DEF RNext, rvars, cvars, vars, Heartbeat, Report, Publish, Update, DeleteCommit, DeleteEntry,
         RegistryRestarts, Forget, Elsewhere, Next, AgentStep, HandlerStep, FaultStep

\* A round that produces results is the next one.
LEMMA ProbeLog ==
    ASSUME IInv, NEW n \in 0 .. Targets, NEW kind \in [1 .. n -> Kinds], Probe(n, kind)
    PROVE  /\ Len(log) \in Nat /\ Len(log') = Len(log) + n
           /\ \A i \in 1 .. Len(log) : log'[i] = log[i]
           /\ \A i \in Len(log) + 1 .. Len(log) + n : log'[i].round = LastRound + 1
           /\ LastRound' = IF n = 0 THEN LastRound ELSE LastRound + 1
<1> DEFINE new == [i \in 1 .. n |-> [outcome |-> kind[i].outcome, long |-> kind[i].long,
                                round |-> LastRound + 1]]
           m == Len(log)
<1>1. n \in Nat /\ m \in Nat /\ log \in Seq([outcome : Outcomes, long : BOOLEAN, round : Nat])
  BY DeliveryAssumption DEF IInv, TypeOK
<1>2. log' = log \o new /\ Len(log') = m + n
  BY ProbeGrowsLog DEF Probe
<1>3. /\ new \in Seq({new[i] : i \in 1 .. n}) /\ Len(new) = n
      /\ \A i \in 1 .. n : new[i].round = LastRound + 1
  <2>1. n \in Nat
    BY <1>1
  <2>2. \A i \in 1 .. n : new[i].round = LastRound + 1
    OBVIOUS
  <2>3. new = [i \in 1 .. n |-> new[i]]
    OBVIOUS
  <2> HIDE DEF new
  <2> QED  BY <2>1, <2>2, <2>3
<1> HIDE DEF new
<1>4. \A i \in 1 .. m : log'[i] = log[i]
  BY <1>1, <1>2, <1>3
<1>5. ASSUME NEW i \in m + 1 .. m + n PROVE log'[i].round = LastRound + 1
  <2>1. i - m \in 1 .. n /\ log'[i] = new[i - m]
    BY <1>1, <1>2, <1>3
  <2> QED  BY <1>3, <2>1
<1>6. CASE n = 0
  <2>1. log' = log
    <3>1. new = <<>>
      BY <1>3, <1>6
    <3> QED  BY <1>1, <1>2, <3>1
  <2> QED  BY <1>1, <1>2, <1>4, <1>5, <1>6, <2>1 DEF LastRound
<1>7. CASE n # 0
  <2>1. Len(log') \in m + 1 .. m + n /\ log' # <<>>
    BY <1>1, <1>2, <1>7
  <2> QED  BY <1>1, <1>2, <1>4, <1>5, <1>7, <2>1 DEF LastRound
<1> QED  BY <1>6, <1>7

\* What has been logged stays as it is.
LEMMA LogGrows ==
    ASSUME IInv, [Next]_vars
    PROVE  /\ Len(log) \in Nat /\ Len(log') \in Nat /\ Len(log) <= Len(log')
           /\ \A i \in Results : i \in Results' /\ log'[i] = log[i]
           /\ log' = log \/ SomeProbe
<1>1. Len(log) \in Nat /\ log \in Seq([outcome : Outcomes, long : BOOLEAN, round : Nat])
  BY DEF IInv, TypeOK
<1>2. CASE SomeProbe
  <2>1. PICK n \in 0 .. Targets : \E kind \in [1 .. n -> Kinds] : Probe(n, kind)
    BY <1>2 DEF SomeProbe
  <2>2. n \in Nat
    BY DeliveryAssumption
  <2>3. Len(log') = Len(log) + n /\ \A i \in 1 .. Len(log) : log'[i] = log[i]
    BY <2>1, ProbeLog
  <2> QED  BY <1>1, <1>2, <2>2, <2>3 DEF Results
<1>3. CASE ~SomeProbe
  <2>1. log' = log
    BY <1>3
       DEF Next, AgentStep, HandlerStep, FaultStep, vars, FetchTasks, FetchFails, CycleFails, Send,
           Accepted, Rejected, GiveUp, Wake, AgentRestarts, RequestLost, Refuse, Save, SaveFails,
           Answer, Discard, SupervisorRestarts, agentVars
  <2> QED  BY <1>1, <2>1 DEF Results
<1> QED  BY <1>2, <1>3

LEMMA VerdictStays ==
    ASSUME IInv, [Next]_vars, UNCHANGED spaced, NEW c \in Commits,
           c \in Slots => post'[c].batch = post[c].batch
    PROVE  Verdict(c)' = Verdict(c)
<1>1. CASE c \in Deletions
  BY <1>1 DEF Verdict
<1>2. CASE c \in Slots
  <2>1. post[c].batch \in Seq(Results) /\ post'[c].batch = post[c].batch
    BY <1>2 DEF IInv, TypeOK, RequestType
  <2>2. \A i \in DOMAIN post[c].batch : log'[post[c].batch[i]] = log[post[c].batch[i]]
    BY <2>1, LogGrows
  <2>3. RoundFailed(post[c].batch)' = RoundFailed(post[c].batch)
    BY <2>1, <2>2 DEF RoundFailed
  <2> QED  BY <2>3 DEF Verdict
<1> QED  BY <1>1, <1>2 DEF Commits

\* The handlers between commit and map are left alone.
LEMMA HandlersStay ==
    ASSUME IInv, Elsewhere \/ Heartbeat \/ UNCHANGED vars, NEW h \in Slots
    PROVE  /\ post'[h].stage = "saved" <=> post[h].stage = "saved"
           /\ post[h].stage = "saved" => post'[h].batch = post[h].batch
<1>1. post \in [Slots -> RequestType] /\ (pc = "await" => cur \in Slots)
  BY DEF IInv, TypeOK
<1>2. Idle.stage = "idle"
  BY DEF Idle
<1>3. CASE UNCHANGED post
  BY <1>3
<1>4. ASSUME NEW k \in Slots, Send(k) \/ RequestLost(k) \/ Discard(k)
      PROVE  /\ post'[h].stage = "saved" <=> post[h].stage = "saved"
             /\ post[h].stage = "saved" => post'[h].batch = post[h].batch
  <2>1. \/ post' = [post EXCEPT ![k] = Idle]
        \/ post' = [post EXCEPT ![k] = [stage |-> "sent", batch |-> NextBatch(pending)]]
    BY <1>4 DEF Send, RequestLost, Discard
  <2>2. post[k].stage # "saved"
    BY <1>2, <1>4 DEF Send, Free, RequestLost, Discard
  <2> QED  BY <1>1, <1>2, <2>1, <2>2
<1>5. ASSUME NEW k \in Slots, Refuse(k) \/ SaveFails(k)
      PROVE  /\ post'[h].stage = "saved" <=> post[h].stage = "saved"
             /\ post[h].stage = "saved" => post'[h].batch = post[h].batch
  BY <1>1, <1>5 DEF Refuse, SaveFails, RequestType
<1>6. CASE Accepted \/ Rejected
  BY <1>1, <1>2, <1>6 DEF Accepted, Rejected
<1>7. SomeProbe \/ Wake \/ GiveUp \/ AgentRestarts \/ Heartbeat \/ UNCHANGED vars => UNCHANGED post
  BY DEF SomeProbe, Probe, Wake, GiveUp, AgentRestarts, Heartbeat, FetchTasks, FetchFails, vars
<1> QED  BY <1>3, <1>4, <1>5, <1>6, <1>7 DEF Elsewhere

LEMMA InitRegistry == RInit => Registry
<1> SUFFICES ASSUME RInit PROVE Registry
  OBVIOUS
<1>1. /\ owed = <<>> /\ overtaken = {} /\ conn = Unknown /\ ideal = Unknown /\ deletions = 0
      /\ spaced \in BOOLEAN /\ listed = FALSE /\ disorder = FALSE /\ \A h \in Slots : post[h].stage = "idle"
  BY DEF RInit, CInit, Init, Idle
<1>2. Unknown \in Entries
  BY ThresholdAssumption DEF Unknown, Entries
<1>3. Typed /\ Listing /\ LastCommit
  <2>1. deletions \in 0 .. MaxDeletions
    BY <1>1, RegistryAssumption
  <2> QED  BY <1>1, <1>2, <2>1 DEF Typed, Listing, LastCommit
<1>4. Range(<<>>) = {}
  BY DEF Range
<1>5. Owed
  BY <1>1, <1>4 DEF Owed
<1>6. Path
  <2> DEFINE f == [i \in 0 .. 0 |-> Unknown]
  <2>1. f \in [0 .. Len(owed) -> Entries] /\ f[0] = conn /\ f[Len(owed)] = ideal
    BY <1>1, <1>2
  <2>2. 1 .. Len(owed) = {}
    BY <1>1
  <2> HIDE DEF f
  <2> QED  BY <2>1, <2>2 DEF Path
<1> QED  BY <1>3, <1>5, <1>6 DEF Registry

LEMMA RestartStep ==
    ASSUME Registry, RegistryRestarts
    PROVE  Registry'
<1>1. /\ owed' = <<>> /\ overtaken' = {} /\ conn' = Unknown /\ ideal' = Unknown
      /\ deletions' = deletions /\ listed' = listed /\ spaced' = spaced /\ disorder' = FALSE
      /\ \A h \in Slots : post'[h].stage = "idle"
  BY DEF RegistryRestarts, Forget, SupervisorRestarts, Idle
<1>2. Unknown \in Entries
  BY ThresholdAssumption DEF Unknown, Entries
<1>3. Typed' /\ Listing' /\ LastCommit'
  BY <1>1, <1>2 DEF Registry, Typed, Listing, LastCommit
<1>4. Range(<<>>) = {}
  BY DEF Range
<1>5. Owed'
  BY <1>1, <1>4 DEF Owed
<1>6. Path'
  <2> DEFINE f == [i \in 0 .. 0 |-> Unknown]
  <2>1. f \in [0 .. Len(owed') -> Entries] /\ f[0] = conn' /\ f[Len(owed')] = ideal'
    BY <1>1, <1>2
  <2>2. 1 .. Len(owed') = {}
    BY <1>1
  <2> HIDE DEF f
  <2> QED  BY <2>1, <2>2 DEF Path
<1> QED  BY <1>3, <1>5, <1>6 DEF Registry

LEMMA ReportStep ==
    ASSUME IInv, Registry, [Next]_vars, NEW h \in Slots, Report(h)
    PROVE  Registry'
<1>1. /\ post[h].stage = "sent" /\ post' = [post EXCEPT ![h].stage = "saved"]
      /\ owed' = Append(owed, h) /\ ideal' = Advance(ideal, RoundFailed(post[h].batch))
      /\ listed' = TRUE /\ UNCHANGED <<spaced, conn, overtaken, disorder, deletions>>
  BY DEF Report, Save, connVars
<1>2. \A k \in Slots : post'[k].batch = post[k].batch
  BY <1>1 DEF IInv, TypeOK, RequestType
<1>3. \A k \in Slots : post'[k].stage = "saved" <=> post[k].stage = "saved" \/ k = h
  BY <1>1 DEF IInv, TypeOK, RequestType
<1>4. \A c \in Commits : Verdict(c)' = Verdict(c)
  BY <1>1, <1>2, VerdictStays
<1>5. h \in Commits /\ h > 0 /\ h \in Int
  BY Verdicts DEF Commits
<1>6. h \notin Range(owed) /\ Range(owed) \subseteq Commits
  BY <1>1 DEF Registry, Owed, Range
<1>7. ideal' = Outcome(ideal, Verdict(h)')
  BY <1>1, <1>4, <1>5, Verdicts
<1>8. deletions' \in 0 .. MaxDeletions /\ deletions <= deletions' /\ h >= -deletions'
  BY <1>1, <1>5 DEF Registry, Typed
<1> QED  BY <1>1, <1>3, <1>4, <1>5, <1>6, <1>7, <1>8, CommitStep

LEMMA DeleteStep ==
    ASSUME IInv, Registry, [Next]_vars, DeleteCommit
    PROVE  Registry'
<1>1. /\ deletions < MaxDeletions /\ deletions' = deletions + 1 /\ listed' = FALSE
      /\ owed' = Append(owed, -deletions') /\ ideal' = (IF spaced THEN ideal ELSE Unknown)
      /\ UNCHANGED <<post, spaced, conn, overtaken, disorder>>
  BY DEF DeleteCommit, cvars, vars, connVars
<1>2. deletions' \in 1 .. MaxDeletions /\ deletions <= deletions' /\ deletions \in Nat
  BY <1>1, RegistryAssumption DEF Registry, Typed
<1>3. PICK d \in Deletions : d = -deletions'
  BY <1>2 DEF Deletions
<1>4. \A c \in Commits : Verdict(c)' = Verdict(c)
  BY <1>1, VerdictStays
<1>5. /\ d \in Commits /\ d \notin Slots
      /\ Verdict(d) = IF spaced THEN "none" ELSE "deletion"
  BY Verdicts DEF Commits
<1>6. d \notin Range(owed) /\ Range(owed) \subseteq Commits
  <2>1. d < -deletions /\ d \in Int
    BY <1>1, <1>2, <1>3
  <2>2. \A c \in Range(owed) : c >= -deletions
    BY DEF Registry, Owed
  <2>3. Range(owed) \subseteq Commits
    BY DEF Registry, Owed, Range
  <2> QED  BY <1>2, <2>1, <2>2, <2>3
<1>7. ideal' = Outcome(ideal, Verdict(d)')
  BY <1>1, <1>4, <1>5 DEF Outcome
<1>8. deletions' \in 0 .. MaxDeletions /\ d >= -deletions'
  <2>1. PICK k \in 1 .. MaxDeletions : k = deletions'
    BY <1>2
  <2>2. d = -k
    BY <1>3, <2>1
  <2>3. d >= -k
    BY <2>2
  <2>4. d >= -deletions'
    BY <2>1, <2>3
  <2> QED  BY <1>2, <2>4
<1>9. /\ \A h \in Slots : post'[h].stage = "saved" <=> post[h].stage = "saved" \/ h = d
      /\ listed' \in BOOLEAN /\ owed' = Append(owed, d)
      /\ \A c \in Range(owed) : Verdict(c)' = Verdict(c)
  BY <1>1, <1>3, <1>4, <1>5, <1>6
<1> QED  BY <1>1, <1>2, <1>5, <1>6, <1>7, <1>8, <1>9, CommitStep

LEMMA PublishStep ==
    ASSUME IInv, Registry, [Next]_vars, NEW h \in Slots, Publish(h)
    PROVE  Registry'
<1>1. /\ post[h].stage = "saved" /\ post' = [post EXCEPT ![h].stage = "answered"]
      /\ conn' = Advance(conn, RoundFailed(post[h].batch))
      /\ Follow(h, ~RoundFailed(post[h].batch))
      /\ UNCHANGED <<spaced, ideal, listed, deletions>>
  BY DEF Publish, Update, Answer
<1>2. \A k \in Slots : post'[k].batch = post[k].batch
  BY <1>1 DEF IInv, TypeOK, RequestType
<1>3. \A k \in Slots : post'[k].stage = "saved" <=> post[k].stage = "saved" /\ k # h
  BY <1>1 DEF IInv, TypeOK, RequestType
<1>4. \A c \in Commits : Verdict(c)' = Verdict(c)
  BY <1>1, <1>2, VerdictStays
<1>5. h \in Range(owed) /\ Range(owed) \subseteq Commits
  BY <1>1 DEF Registry, Owed, Range
<1>6. PICK resets \in BOOLEAN : resets = ~RoundFailed(post[h].batch)
  OBVIOUS
<1>7. Follow(h, resets)
  BY <1>1, <1>6
<1>8. resets => Verdict(h) \notin {"bad", "none"}
  BY <1>6, Verdicts DEF Verdict
<1>9. conn' = Outcome(conn, Verdict(h))
  BY <1>1, Verdicts
<1> QED  BY <1>1, <1>3, <1>4, <1>5, <1>7, <1>8, <1>9, FollowStep

LEMMA DeleteEntryStep ==
    ASSUME IInv, Registry, [Next]_vars, NEW d \in Deletions, DeleteEntry(d)
    PROVE  Registry'
<1>1. /\ conn' = (IF spaced THEN conn ELSE Unknown) /\ Follow(d, ~spaced)
      /\ UNCHANGED <<post, spaced, ideal, listed, deletions>>
      /\ \E i \in 1 .. Len(owed) : owed[i] = d
  BY DEF DeleteEntry, Contains, vars, connVars
<1>2. \A c \in Commits : Verdict(c)' = Verdict(c)
  BY <1>1, VerdictStays
<1>3. d \in Range(owed) /\ Range(owed) \subseteq Commits
  BY <1>1 DEF Registry, Owed, Range
<1>4. Verdict(d) = (IF spaced THEN "none" ELSE "deletion") /\ d \notin Slots
  BY Verdicts
<1>5. conn' = Outcome(conn, Verdict(d))
  BY <1>1, <1>4 DEF Outcome
<1>6. PICK resets \in BOOLEAN : resets = ~spaced
  OBVIOUS
<1>7. Follow(d, resets) /\ (resets => Verdict(d) \notin {"bad", "none"})
  BY <1>1, <1>4, <1>6
<1>8. \A h \in Slots : post'[h].stage = "saved" <=> post[h].stage = "saved" /\ h # d
  BY <1>1, <1>4
<1> QED  BY <1>1, <1>2, <1>3, <1>5, <1>7, <1>8, FollowStep

LEMMA RegistryStep ==
    ASSUME IInv, Registry, [RNext]_rvars
    PROVE  Registry'
<1>1. [Next]_vars
  BY StepIsNext
<1>2. CASE Elsewhere \/ Heartbeat \/ UNCHANGED rvars
  <2>1. /\ UNCHANGED <<spaced, conn, owed, ideal, overtaken, disorder, deletions>>
        /\ listed' \in BOOLEAN /\ (listed => listed')
    BY <1>2 DEF Elsewhere, Heartbeat, connVars, registryVars, rvars, cvars, Registry, Typed
  <2>2. Elsewhere \/ Heartbeat \/ UNCHANGED vars
    BY <1>2 DEF rvars, cvars
  <2>3. \A h \in Slots : /\ post'[h].stage = "saved" <=> post[h].stage = "saved"
                         /\ post[h].stage = "saved" => post'[h].batch = post[h].batch
    BY <2>2, HandlersStay
  <2>4. \A c \in Range(owed) : c \in Commits /\ (c \in Slots => post[c].stage = "saved")
    BY DEF Registry, Owed, Range
  <2>5. \A c \in Range(owed) : Verdict(c)' = Verdict(c)
    BY <1>1, <2>1, <2>3, <2>4, VerdictStays
  <2> QED  BY <2>1, <2>3, <2>5, QuietStep
<1> QED
  BY <1>1, <1>2, RestartStep, ReportStep, DeleteStep, PublishStep, DeleteEntryStep DEF RNext
----------------------------------------------------------------------------
(* What is counted. *)

LEMMA FewerResults ==
    ASSUME NEW n \in Nat, NEW S, S \subseteq 1 .. n, NEW T, T \subseteq S
    PROVE  /\ Cardinality(T) <= Cardinality(S)
           /\ Cardinality(T) \in Nat /\ Cardinality(S) \in Nat
<1>1. IsFiniteSet(1 .. n)
  BY FS_Interval
<1>2. IsFiniteSet(S)
  BY <1>1, FS_Subset
<1>3. IsFiniteSet(T) /\ Cardinality(T) <= Cardinality(S)
  BY <1>2, FS_Subset
<1> QED  BY <1>2, <1>3, FS_CardinalityType

\* What is calm has always been.
LEMMA CalmBefore ==
    ASSUME IInv, [Next]_vars, Calm'
    PROVE  Calm /\ faults = 0 /\ faults' = 0
<1>1. faults \in Nat
  BY DEF IInv, TypeOK
<1>2. faults' \in {faults, faults + 1}
  BY DEF Next, AgentStep, HandlerStep, FaultStep, vars, FetchTasks, FetchFails, Fault, SomeProbe, Probe,
         Send, Accepted, Rejected, GiveUp, Wake, AgentRestarts, RequestLost, Refuse, Save, SaveFails,
         Answer, Discard, SupervisorRestarts
<1>3. faults' = 0 /\ faults = 0
  BY <1>1, <1>2 DEF Calm
<1>4. ASSUME NEW i \in Results
      PROVE  log[i].outcome # "refused" /\ Cardinality(LongResults(log[i].round)) <= BodyLimit
  <2> DEFINE r == log[i].round
  <2>1. i \in Results' /\ log'[i] = log[i]
    BY LogGrows
  <2>2. log[i].outcome # "refused" /\ Cardinality(LongResults(r)') <= BodyLimit
    BY <2>1 DEF Calm, LongResults
  <2>3. LongResults(r) \subseteq LongResults(r)'
    BY LogGrows DEF LongResults
  <2>4. LongResults(r)' \subseteq 1 .. Len(log') /\ Len(log') \in Nat
    BY LogGrows DEF LongResults, Results
  <2>5. Cardinality(LongResults(r)) <= Cardinality(LongResults(r)')
    BY <2>3, <2>4, FewerResults
  <2>6. Cardinality(LongResults(r)) \in Nat /\ Cardinality(LongResults(r)') \in Nat
    BY <2>3, <2>4, FewerResults
  <2> HIDE DEF r
  <2> QED  BY <2>2, <2>5, <2>6, DeliveryAssumption DEF r
<1> QED  BY <1>3, <1>4 DEF Calm

\* The request of h is the one the agent waits for, and carries its queue.
LEMMA OnlyRequest ==
    ASSUME IInv, Serial, NEW h \in Slots, post[h].stage # "idle"
    PROVE  /\ h = cur /\ pc = "await" /\ post[h].batch = pending /\ pending # <<>>
           /\ post[h].stage # "answered" => LastRound \notin badRounds
<1>1. h = cur
  BY DEF Serial, Idle
<1>2. pc = "await"
  <2>1. h # 0
    BY DeliveryAssumption DEF Slots
  <2> QED  BY <1>1, <2>1 DEF IInv, TypeOK
<1> QED  BY <1>1, <1>2 DEF Serial

\* While all is calm none of these happens.
LEMMA CalmSteps ==
    ASSUME IInv, Calm => Serial, [Next]_vars, Calm'
    PROVE  /\ ~FetchFails /\ ~GiveUp /\ ~AgentRestarts /\ ~SupervisorRestarts /\ ~Rejected
           /\ \A h \in Slots : ~RequestLost(h) /\ ~SaveFails(h) /\ ~Refuse(h) /\ ~Discard(h)
<1>1. Calm /\ Serial /\ faults = 0 /\ faults' = 0
  BY CalmBefore
<1>2. ~Fault
  BY <1>1 DEF Fault
<1>3. ~Rejected
  BY <1>1 DEF Serial, Rejected
<1>4. ASSUME NEW h \in Slots PROVE ~Refuse(h)
  <2> SUFFICES ASSUME post[h].stage = "sent" PROVE ~Unacceptable(post[h].batch)
    BY DEF Refuse
  <2> DEFINE batch == post[h].batch
             long == {i \in Range(batch) : log[i].long}
  <2>1. batch = pending /\ batch # <<>> /\ batch \in Seq(Results)
    BY <1>1, OnlyRequest DEF IInv, TypeOK
  <2>2. Range(batch) \subseteq Results /\ batch[1] \in Range(batch)
    BY <2>1 DEF Range
  <2>3. ~Invalid(batch)
    BY <1>1, <2>2 DEF Calm, Invalid
  <2>4. \A i \in Range(batch) : log[i].round = LastRound
    BY <1>1, <2>1 DEF Serial
  <2>5. long \subseteq LongResults(LastRound)
    BY <2>2, <2>4 DEF LongResults
  <2>6. Cardinality(LongResults(LastRound)) <= BodyLimit
    BY <1>1, <2>2, <2>4 DEF Calm
  <2>7. LongResults(LastRound) \subseteq 1 .. Len(log) /\ Len(log) \in Nat
    BY LogGrows DEF LongResults, Results
  <2> HIDE DEF long
  <2>8. /\ Cardinality(long) <= Cardinality(LongResults(LastRound))
        /\ Cardinality(long) \in Nat /\ Cardinality(LongResults(LastRound)) \in Nat
    BY <2>5, <2>7, FewerResults
  <2>9. ~TooLarge(batch)
    BY <2>6, <2>8, DeliveryAssumption DEF TooLarge, long
  <2> QED  BY <2>3, <2>9 DEF Unacceptable
<1>5. ASSUME NEW h \in Slots PROVE ~Discard(h)
  BY <1>1 DEF Serial, Discard, Idle
<1> QED
  BY <1>2, <1>3, <1>4, <1>5
     DEF FetchFails, GiveUp, AgentRestarts, SupervisorRestarts, RequestLost, SaveFails

\* A step that leaves the log and what is counted alone.
LEMMA LoggedStays ==
    ASSUME IInv, Logged, UNCHANGED log, badRounds' \subseteq badRounds
    PROVE  Logged'
  BY DEF Logged, LastRound, Results

\* How many results the agent still owes after a round of n.
LEMMA AppendLength ==
    ASSUME NEW last \in Nat, NEW q, Newest(q, last), NEW n \in Nat
    PROVE  Len(AppendPending(q, [i \in 1 .. n |-> last + i])) = Smaller(Len(q) + n, MaxPending)
<1> DEFINE fresh == [i \in 1 .. n |-> last + i]
<1>1. fresh = [i \in 1 .. n |-> last + i]
  OBVIOUS
<1> HIDE DEF fresh
<1>2. Len(AppendPending(q, fresh)) = Smaller(Len(q) + n, MaxPending)
  BY <1>1, AppendNewest
<1> QED  BY <1>1, <1>2

\* A round of probes is one round more; a calm agent then owes results of that round only.
LEMMA ProbeCounting ==
    ASSUME IInv, IInv', Counting, SomeProbe, [Next]_vars, UNCHANGED connVars
    PROVE  Counting'
<1>1. PICK n \in 0 .. Targets : \E kind \in [1 .. n -> Kinds] : Probe(n, kind)
  BY DEF SomeProbe
<1>2. PICK kind \in [1 .. n -> Kinds] : Probe(n, kind)
  BY <1>1
<1> DEFINE m == Len(log)
<1>3. /\ m \in Nat /\ Len(log') = m + n
      /\ \A i \in 1 .. m : log'[i] = log[i]
      /\ \A i \in m + 1 .. m + n : log'[i].round = LastRound + 1
      /\ LastRound' = IF n = 0 THEN LastRound ELSE LastRound + 1
  BY <1>2, ProbeLog
<1>4. n \in Nat /\ Rounds \in Nat /\ n <= Targets
  BY DeliveryAssumption
<1>5. LastRound \in 0 .. Rounds /\ (n > 0 => LastRound < Rounds)
  BY <1>2 DEF Counting, Logged, Probe
<1>6. Logged'
  <2>1. LastRound' \in 0 .. Rounds /\ LastRound <= LastRound'
    BY <1>3, <1>4, <1>5
  <2>2. ASSUME NEW i \in 1 .. m + n PROVE log'[i].round \in 1 .. LastRound'
    <3>1. CASE i \in 1 .. m
      <4>1. log[i].round \in 1 .. LastRound
        BY <3>1 DEF Counting, Logged, Results
      <4> QED  BY <1>3, <2>1, <3>1, <4>1
    <3>2. CASE i \in m + 1 .. m + n
      <4>1. n # 0
        BY <1>3, <3>2
      <4> QED  BY <1>3, <1>5, <3>2, <4>1
    <3> QED  BY <1>3, <1>4, <3>1, <3>2
  <2>3. badRounds' \subseteq 1 .. LastRound'
    BY <1>5, <2>1 DEF Counting, Logged, connVars
  <2> QED  BY <1>3, <2>1, <2>2, <2>3 DEF Logged, Results
<1>7. ASSUME Calm' PROVE Serial' /\ Counted'
  <2>1. Serial /\ Counted
    BY <1>7, CalmBefore DEF Counting
  <2>2. pc = "probe" /\ pending = <<>> /\ UNCHANGED <<post, cur>>
    BY <1>2, <2>1 DEF Probe, Serial
  <2>3. cur = 0
    BY <2>2 DEF IInv, TypeOK
  <2>4. IF pending' = <<>> THEN pc' = "sleep" ELSE pc' = "upload"
    BY <1>2 DEF Probe
  <2>5. PICK last \in Nat : last = m
    BY <1>3
  <2>6. Newest(pending, last)
    BY <2>5, QueueIsNewest DEF IInv
  <2>7. Len(AppendPending(pending, [i \in 1 .. n |-> last + i])) = Smaller(Len(pending) + n, MaxPending)
    BY <1>4, <2>6, AppendLength
  <2>8. Len(pending') = Smaller(n, MaxPending)
    BY <1>2, <1>4, <2>2, <2>5, <2>7 DEF Probe
  <2>9. Len(pending') \in 0 .. n
    BY <1>4, <2>8, DeliveryAssumption DEF Smaller
  <2>10. \A i \in 1 .. Len(pending') : pending'[i] \in m + 1 .. m + n
    <3>1. \A i \in 1 .. Len(pending') : pending'[i] = (m + n) - Len(pending') + i
      BY <1>3 DEF IInv, PendingIsNewest
    <3> QED  BY <1>3, <1>4, <2>9, <3>1
  <2>11. pending' \in Seq(Results')
    BY DEF IInv, TypeOK
  <2>12. \A i \in Range(pending') : i \in m + 1 .. m + n
    BY <2>10, <2>11 DEF Range
  <2>13. pending' # <<>> => n # 0
    BY <1>4, <2>9, <2>11
  <2>14. \A i \in Range(pending') : log'[i].round = LastRound'
    BY <1>3, <1>4, <2>12
  <2>15. pending' # <<>> => LastRound' \notin badRounds'
    BY <1>3, <1>5, <2>13 DEF Counting, Logged, connVars
  <2>16. Serial'
    <3>1. Len(pending') <= Targets
      BY <1>4, <2>9, DeliveryAssumption
    <3> QED  BY <2>1, <2>2, <2>3, <2>4, <2>14, <2>15, <3>1 DEF Serial
  <2>17. Counted'
    BY <2>1 DEF Counted, connVars
  <2> QED  BY <2>16, <2>17
<1> QED  BY <1>6, <1>7 DEF Counting

\* The steps of the agent and the network; while all is calm few are left.
LEMMA QuietCounting ==
    ASSUME IInv, Counting, [Next]_vars, UNCHANGED <<log, conn, badRounds>>, Calm' => Serial'
    PROVE  Counting'
<1>1. Logged'
  BY LoggedStays DEF Counting
<1>2. Calm' => Counted'
  BY CalmBefore DEF Counting, Counted
<1> QED  BY <1>1, <1>2 DEF Counting

LEMMA SendSerial ==
    ASSUME IInv, Serial, Calm, NEW h \in Slots, Send(h), UNCHANGED badRounds
    PROVE  Serial'
<1>1. /\ pc = "upload" /\ pc' = "await" /\ cur' = h /\ UNCHANGED <<log, pending>>
      /\ post' = [post EXCEPT ![h] = [stage |-> "sent", batch |-> NextBatch(pending)]]
  BY DEF Send
<1>2. cur = 0 /\ post \in [Slots -> RequestType] /\ pending \in Seq(Results)
  BY <1>1 DEF IInv, TypeOK
<1>3. NextBatch(pending) = pending
  <2>1. Len(pending) \in Nat /\ Len(pending) <= BatchSize /\ BatchSize \in Nat /\ Targets \in Nat
    BY <1>2, DeliveryAssumption DEF Serial, Calm
  <2>2. Smaller(BatchSize, Len(pending)) = Len(pending)
    BY <2>1 DEF Smaller
  <2> QED  BY <1>2, <2>2, SubSeqFull DEF NextBatch
<1>4. \A k \in Slots : k # h => post'[k] = Idle
  <2>1. h # 0 /\ \A k \in Slots : k # 0
    BY DeliveryAssumption DEF Slots
  <2> QED  BY <1>1, <1>2, <2>1 DEF Serial
<1>5. post'[h].batch = pending /\ post'[h].stage = "sent"
  BY <1>1, <1>2, <1>3
<1> QED  BY <1>1, <1>4, <1>5 DEF Serial, LastRound

LEMMA AcceptedSerial ==
    ASSUME IInv, Serial, Accepted, UNCHANGED badRounds
    PROVE  Serial'
<1>1. /\ pc = "await" /\ cur' = 0 /\ UNCHANGED log
      /\ pending' = Trim(pending, post[cur].batch) /\ post' = [post EXCEPT ![cur] = Idle]
      /\ IF pending' = <<>> THEN pc' = "sleep" ELSE pc' = "upload"
  BY DEF Accepted
<1>2. /\ cur \in Slots /\ post \in [Slots -> RequestType] /\ post[cur].batch = pending
      /\ pending \in Seq(Results) /\ Len(pending) \in Nat
  BY <1>1 DEF IInv, TypeOK, Serial
<1>3. pending' = <<>>
  <2>1. Len(pending) + 1 \in Int /\ Len(pending) \in Int /\ Len(pending) < Len(pending) + 1
    BY <1>2
  <2>2. SubSeq(pending, Len(pending) + 1, Len(pending)) = <<>>
    BY <2>1, SubSeqEmpty
  <2> QED  BY <1>1, <1>2, <2>2 DEF Trim
<1>4. pc' = "sleep"
  BY <1>1, <1>3
<1>5. \A k \in Slots : post'[k] = Idle
  BY <1>1, <1>2 DEF Serial
<1>6. Range(pending') = {}
  BY <1>3 DEF Range
<1>7. Len(pending') <= Targets
  BY <1>3, DeliveryAssumption
<1> QED  BY <1>1, <1>3, <1>4, <1>5, <1>6, <1>7 DEF Serial

LEMMA ElsewhereCounting ==
    ASSUME IInv, IInv', Counting, [Next]_vars, Elsewhere \/ Heartbeat \/ UNCHANGED cvars
    PROVE  Counting'
<1>1. UNCHANGED <<conn, badRounds>>
  BY DEF Elsewhere, Heartbeat, connVars, cvars
<1>2. CASE SomeProbe
  BY <1>1, <1>2, ProbeCounting DEF connVars
<1>3. CASE ~SomeProbe
  <2>1. log' = log
    BY <1>3, LogGrows
  <2>2. ASSUME Calm' PROVE Serial'
    <3>1. Calm /\ Serial
      BY <2>2, CalmBefore DEF Counting
    <3>2. /\ ~FetchFails /\ ~GiveUp /\ ~AgentRestarts /\ ~Rejected
          /\ \A h \in Slots : ~RequestLost(h) /\ ~SaveFails(h) /\ ~Refuse(h) /\ ~Discard(h)
      BY <2>2, CalmSteps DEF Counting
    <3>3. CASE FetchTasks \/ Wake \/ UNCHANGED vars
      BY <1>1, <3>1, <3>3 DEF FetchTasks, Wake, vars, Serial, LastRound
    <3>4. CASE Accepted
      BY <1>1, <3>1, <3>4, AcceptedSerial
    <3>5. ASSUME NEW h \in Slots, Send(h) PROVE Serial'
      BY <1>1, <3>1, <3>5, SendSerial
    <3> QED  BY <1>3, <3>2, <3>3, <3>4, <3>5 DEF Elsewhere, Heartbeat, cvars
  <2> QED  BY <1>1, <2>1, <2>2, QuietCounting
<1> QED  BY <1>2, <1>3

LEMMA ReportCounting ==
    ASSUME IInv, Counting, [Next]_vars, NEW h \in Slots, Report(h)
    PROVE  Counting'
<1>1. /\ post[h].stage = "sent" /\ post' = [post EXCEPT ![h].stage = "saved"]
      /\ UNCHANGED <<log, pending, pc, cur, conn, badRounds>>
  BY DEF Report, Save, agentVars, connVars
<1>2. ASSUME Calm' PROVE Serial'
  <2>1. Serial
    BY <1>2, CalmBefore DEF Counting
  <2>2. h = cur /\ pc = "await" /\ post[h].batch = pending /\ LastRound \notin badRounds
    BY <1>1, <2>1, OnlyRequest
  <2>3. /\ post'[h].stage = "saved" /\ post'[h].batch = pending
        /\ \A k \in Slots : k # h => post'[k] = post[k]
    BY <1>1, <2>2 DEF IInv, TypeOK, RequestType
  <2> QED  BY <1>1, <2>1, <2>2, <2>3 DEF Serial, LastRound
<1> QED  BY <1>1, <1>2, QuietCounting

\* A failed round is counted once.
LEMMA CountOne ==
    ASSUME NEW rounds, NEW last \in Nat, rounds \subseteq 1 .. last, last \notin rounds, NEW n,
           n = Smaller(Cardinality(rounds), Threshold)
    PROVE  Smaller(Cardinality(rounds \cup {last}), Threshold) = Smaller(n + 1, Threshold)
<1>1. IsFiniteSet(1 .. last)
  BY FS_Interval
<1>2. IsFiniteSet(rounds)
  BY <1>1, FS_Subset
<1>3. Cardinality(rounds) \in Nat
  BY <1>2, FS_CardinalityType
<1>4. Cardinality(rounds \cup {last}) = Cardinality(rounds) + 1
  BY <1>2, FS_AddElement
<1> QED  BY <1>3, <1>4, ThresholdAssumption DEF Smaller

LEMMA PublishCounting ==
    ASSUME IInv, Registry, Counting, [Next]_vars, NEW h \in Slots, Publish(h)
    PROVE  Counting'
<1> DEFINE batch == post[h].batch
           bad == RoundFailed(batch)
           rounds == {log[i].round : i \in Range(batch)}
<1>1. /\ post[h].stage = "saved" /\ post' = [post EXCEPT ![h].stage = "answered"]
      /\ conn' = Advance(conn, bad)
      /\ badRounds' = IF bad THEN badRounds \cup rounds ELSE {}
      /\ UNCHANGED <<log, pending, pc, cur>>
  BY DEF Publish, Update, Answer, agentVars
<1>2. batch \in Seq(Results) /\ Range(batch) \subseteq Results
  BY DEF IInv, TypeOK, RequestType, Range
<1>3. Logged'
  <2>1. rounds \subseteq 1 .. LastRound
    BY <1>2 DEF Counting, Logged
  <2> QED  BY <1>1, <2>1 DEF Counting, Logged, LastRound, Results
<1>4. ASSUME Calm' PROVE Serial' /\ Counted'
  <2>1. Serial /\ Counted
    BY <1>4, CalmBefore DEF Counting
  <2>2. /\ h = cur /\ pc = "await" /\ batch = pending /\ pending # <<>>
        /\ LastRound \notin badRounds
    BY <1>1, <2>1, OnlyRequest
  <2>3. Serial'
    <3>1. /\ post'[h].stage = "answered" /\ post'[h].batch = pending
          /\ \A k \in Slots : k # h => post'[k] = post[k]
      BY <1>1, <2>2 DEF IInv, TypeOK, RequestType
    <3> QED  BY <1>1, <2>1, <2>2, <3>1 DEF Serial, LastRound
  <2>4. Threshold \in Nat /\ Threshold > 0 /\ conn.failures \in 0 .. Threshold
    BY ThresholdAssumption DEF Registry, Typed, Entries
  <2>5. CASE bad
    <3>1. rounds = {LastRound}
      <4>1. Range(batch) # {}
        <5>1. 1 \in DOMAIN batch
          BY <1>2, <2>2
        <5> QED  BY <5>1 DEF Range
      <4>2. \A i \in Range(batch) : log[i].round = LastRound
        BY <2>1, <2>2 DEF Serial
      <4> QED  BY <4>1, <4>2
    <3>2. badRounds' = badRounds \cup {LastRound}
      BY <1>1, <2>5, <3>1
    <3>3. LastRound \in Nat /\ badRounds \subseteq 1 .. LastRound
      BY DEF Counting, Logged
    <3>4. Smaller(Cardinality(badRounds'), Threshold) = Smaller(conn.failures + 1, Threshold)
      BY <2>1, <2>2, <3>2, <3>3, CountOne DEF Counted
    <3>5. /\ conn'.failures = Smaller(conn.failures + 1, Threshold)
          /\ conn'.status = IF conn'.failures >= Threshold THEN "failed" ELSE "checking"
      BY <1>1, <2>5 DEF Advance
    <3>6. Counted'
      BY <3>4, <3>5 DEF Counted
    <3> QED  BY <2>3, <3>6
  <2>6. CASE ~bad
    <3>1. badRounds' = {} /\ conn' = [failures |-> 0, status |-> "ok"]
      BY <1>1, <2>6 DEF Advance
    <3>2. Smaller(Cardinality(badRounds'), Threshold) = 0
      BY <2>4, <3>1, FS_EmptySet DEF Smaller
    <3> QED  BY <2>3, <2>4, <3>1, <3>2 DEF Counted
  <2> QED  BY <2>5, <2>6
<1> QED  BY <1>3, <1>4 DEF Counting

LEMMA DeletionCounting ==
    ASSUME IInv, Counting, [Next]_vars, DeleteCommit \/ \E d \in Deletions : DeleteEntry(d)
    PROVE  Counting'
<1>1. CASE DeleteCommit
  <2>1. UNCHANGED <<vars, conn, badRounds>>
    BY <1>1 DEF DeleteCommit, cvars, connVars
  <2>2. Calm' => Serial'
    BY <2>1, CalmBefore DEF Counting, Serial, LastRound, vars
  <2> QED  BY <2>1, <2>2, QuietCounting DEF vars
<1>2. ASSUME NEW d \in Deletions, DeleteEntry(d), spaced PROVE Counting'
  <2>1. UNCHANGED <<vars, conn, badRounds>>
    BY <1>2 DEF DeleteEntry, connVars
  <2>2. Calm' => Serial'
    BY <2>1, CalmBefore DEF Counting, Serial, LastRound, vars
  <2> QED  BY <2>1, <2>2, QuietCounting DEF vars
<1>3. ASSUME NEW d \in Deletions, DeleteEntry(d), ~spaced PROVE Counting'
  <2>1. conn' = Unknown /\ badRounds' = {} /\ UNCHANGED vars
    BY <1>3 DEF DeleteEntry
  <2>2. Logged'
    BY <2>1, LoggedStays DEF Counting, vars
  <2>3. Calm' => Serial'
    BY <2>1, CalmBefore DEF Counting, Serial, LastRound, vars
  <2>4. Counted'
    <3>1. Smaller(Cardinality(badRounds'), Threshold) = 0
      BY <2>1, FS_EmptySet, ThresholdAssumption DEF Smaller
    <3> QED  BY <2>1, <3>1, ThresholdAssumption DEF Counted, Unknown
  <2> QED  BY <2>2, <2>3, <2>4 DEF Counting
<1> QED  BY <1>1, <1>2, <1>3

LEMMA RestartCounting ==
    ASSUME IInv, Counting, [Next]_vars, RegistryRestarts
    PROVE  Counting'
<1>1. SupervisorRestarts /\ badRounds' = {} /\ UNCHANGED log
  BY DEF RegistryRestarts, Forget, SupervisorRestarts, CycleFails, agentVars
<1>2. Logged'
  BY <1>1, LoggedStays DEF Counting
<1>3. ~Calm'
  BY <1>1, CalmSteps DEF Counting
<1> QED  BY <1>2, <1>3 DEF Counting

LEMMA InitCounting == RInit => Counting
<1> SUFFICES ASSUME RInit PROVE Counting
  OBVIOUS
<1>1. /\ log = <<>> /\ pending = <<>> /\ pc = "fetch" /\ cur = 0 /\ post = [h \in Slots |-> Idle]
      /\ conn = Unknown /\ badRounds = {}
  BY DEF RInit, CInit, Init
<1>2. Logged
  BY <1>1, DeliveryAssumption DEF Logged, LastRound, Results
<1>3. Serial
  <2>1. Range(pending) = {} /\ Len(pending) = 0
    BY <1>1 DEF Range
  <2> QED  BY <1>1, <2>1, DeliveryAssumption DEF Serial
<1>4. Counted
  <2>1. Smaller(Cardinality(badRounds), Threshold) = 0
    BY <1>1, FS_EmptySet, ThresholdAssumption DEF Smaller
  <2> QED  BY <1>1, <2>1, ThresholdAssumption DEF Counted, Unknown
<1> QED  BY <1>2, <1>3, <1>4 DEF Counting

LEMMA CountingStep ==
    ASSUME IInv, Registry, Counting, [RNext]_rvars
    PROVE  Counting'
<1>1. [Next]_vars /\ IInv'
  BY StepIsNext, NextInv
<1>2. CASE UNCHANGED rvars
  BY <1>1, <1>2, ElsewhereCounting DEF rvars
<1> QED
  BY <1>1, <1>2, ElsewhereCounting, ReportCounting, PublishCounting, DeletionCounting, RestartCounting
     DEF RNext
----------------------------------------------------------------------------
(* The theorems. *)

LEMMA RegistryAlways == RSpec => [](IInv /\ Registry /\ Counting)
<1>1. RInit => IInv
  BY InitInv DEF RInit, CInit
<1>2. IInv /\ Registry /\ Counting /\ [RNext]_rvars => (IInv /\ Registry /\ Counting)'
  BY StepIsNext, NextInv, RegistryStep, CountingStep
<1> QED  BY <1>1, <1>2, InitRegistry, InitCounting, PTL DEF RSpec

\* Every variable keeps its type, and a commit is owed exactly while its handler stands
\* between the commit and the map.
THEOREM RegistryTypeCorrect == RSpec => []RTypeOK
<1>1. ASSUME IInv, Registry, Counting PROVE RTypeOK
  <2>1. badRounds \subseteq 1 .. Rounds
    BY <1>1, DeliveryAssumption DEF Counting, Logged
  <2>2. CTypeOK
    BY <1>1, <2>1 DEF CTypeOK, IInv, Registry, Typed, Entries
  <2>3. {h \in Slots : post[h].stage = "saved"} = Range(owed) \ Deletions
    BY <1>1, Verdicts DEF Registry, Owed, Commits, Range
  <2> QED  BY <1>1, <2>2, <2>3 DEF RTypeOK, Registry, Typed, Entries
<1> QED  BY <1>1, RegistryAlways, PTL

\* Between commit and map a handler stands without a lock; still, once no handler stands
\* there, the entry is what one step for both would have made it, unless two commits were
\* followed in the wrong order and no good report or deletion has repaired that.
THEOREM AsIfAtomicAlways == RSpec => []AsIfAtomic
<1>1. ASSUME Registry PROVE AsIfAtomic
  <2> SUFFICES ASSUME owed = <<>>, ~disorder PROVE conn = ideal
    BY DEF AsIfAtomic
  <2>1. Len(owed) = 0
    OBVIOUS
  <2> QED  BY <1>1, <2>1 DEF Registry, Path
<1> QED  BY <1>1, RegistryAlways, PTL

\* handleDeleteAgent: the failures of an agent that was deleted are not counted against
\* the agent of the same name that comes next, if that name has no outer spaces: the
\* deletion trims the name, the connectivity entry has it as reported.
THEOREM UnlistedIsUnknownAlways == RSpec => []UnlistedIsUnknown
<1>1. ASSUME AsIfAtomic, Registry PROVE UnlistedIsUnknown
  BY <1>1 DEF AsIfAtomic, UnlistedIsUnknown, Registry, Listing
<1> QED  BY <1>1, AsIfAtomicAlways, RegistryAlways, PTL

\* updateAgentConnectivity counts reports, and as long as no upload was repeated and a
\* round fits in one batch and one body that is to count rounds, whatever Threshold is.
THEOREM CalmCountsRoundsAlways == RSpec => []CalmCountsRounds
<1>1. ASSUME Registry, Counting PROVE CalmCountsRounds
  <2> SUFFICES ASSUME Calm PROVE conn.status = "failed" <=> Cardinality(badRounds) >= Threshold
    BY DEF CalmCountsRounds
  <2>1. Counted /\ badRounds \subseteq 1 .. LastRound /\ LastRound \in Nat
    BY <1>1 DEF Counting, Logged
  <2>2. Cardinality(badRounds) \in Nat
    <3>1. IsFiniteSet(1 .. LastRound)
      BY <2>1, FS_Interval
    <3> QED  BY <2>1, <3>1, FS_Subset, FS_CardinalityType
  <2> QED  BY <2>1, <2>2, ThresholdAssumption DEF Counted, Smaller
<1> QED  BY <1>1, RegistryAlways, PTL
============================================================================
