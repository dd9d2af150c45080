-------------------------- MODULE Retention_proofs --------------------------
(***************************************************************************)
(* Proofs about the retention cleaner and the queries that run beside it.  *)
(*                                                                         *)
(* Three invariants, one on top of the other: Sound, what the tables are   *)
(* whatever happens; Kept, what a cleaning relies on when it deletes; and  *)
(* Once and Answering, what a query relies on when it puts its answer      *)
(* together from two reads.                                                *)
(***************************************************************************)
EXTENDS Retention, FiniteSetTheorems, TLAPS

Rows == [bucket : Int, width : Widths, of : SUBSET Instants]

End(r) == r.bucket + r.width

\* The row was not written before the end of its bucket was due.
OnTime(r) == <<r.bucket, r.width>> \notin torn

\* Rows that count saved results, each those of its own bucket.
Honest(R) ==
    /\ R \subseteq Rows /\ IsFiniteSet(R)
    /\ \A r \in R : r.of # {} /\ r.of \subseteq saved
    /\ \A r \in R : \A t \in r.of : Bucket(t, r.width) = r.bucket

Stages == {"none", "rollups", "raw"}
Queries == [stage : Stages, since : Int, cutoff : Int, rows : SUBSET Rows,
            gap : SUBSET Instants, came : SUBSET Instants]

Sound ==
    /\ now \in Instants /\ config \in Configs
    /\ raw \subseteq saved /\ saved \subseteq Instants /\ late \subseteq saved
    /\ Honest(rollups)
    /\ pc \in {"idle", "rollup", "delete", "expire"}
    /\ rawCutoff \in Int /\ retentionCutoff \in Int /\ rollupInterval \in Widths \cup {0}
    /\ pc # "idle" => /\ rawCutoff <= swept /\ retentionCutoff <= expired
                      /\ rollupInterval \in Widths
    /\ swept \in Int /\ expired \in Int /\ swept < now /\ expired <= swept
    /\ query \in Queries /\ query.since <= query.cutoff /\ query.cutoff <= now
    /\ query.stage = "rollups" => query.since < query.cutoff
    /\ Honest(query.rows)
    /\ brokeOff \in BOOLEAN /\ resized \in BOOLEAN
    /\ reloads \in 0 .. MaxReloads /\ faults \in 0 .. MaxFaults

\* At most one row for each bucket and interval.
Keyed == \A r, q \in rollups : r.bucket = q.bucket /\ r.width = q.width => r = q

\* A bucket not torn had ended at the cutoff of some cleaning, so nothing that is not late
\* still comes.
Due == \A r \in rollups \cup query.rows : OnTime(r) => End(r) <= swept

\* Such a row counts whatever of its bucket is in the raw table, late arrivals aside.
Complete ==
    \A r \in rollups, t \in raw \ late :
        OnTime(r) /\ Bucket(t, r.width) = r.bucket => t \in r.of

\* What the deletion is about to take away has been counted.
Covered ==
    pc = "delete" =>
        \A t \in raw \ late : TextBefore(t, DeleteCutoff) /\ Whole(t) => t \in Counted

Kept == Keyed /\ Due /\ Complete /\ Covered /\ KeptUnlessTorn

\* While no cleaning broke off between its two statements, a result is raw and rolled up at
\* once only between them, even in the rows a query has read, and never in two rollups.
NoOverlap ==
    ~brokeOff =>
        /\ \A r \in rollups \cup query.rows : \A t \in r.of \cap raw :
             pc = "delete" /\ TextBefore(t, DeleteCutoff)
        /\ \A r, q \in rollups : r.of \cap q.of # {} => r = q

\* While the interval stays, all rollups have it.
OneWidth ==
    ~resized => /\ \A r \in rollups : r.width = config.width
                /\ rollupInterval \in {0, config.width}

\* The rows a query has read count no result twice.
RowsApart ==
    ~(brokeOff /\ resized) => \A r, q \in query.rows : r.of \cap q.of # {} => r = q

Once == NoOverlap /\ OneWidth /\ RowsApart

\* Whether the query has seen the result, or comes to see it in the raw table.
Seen(t) == t \in raw \/ \E r \in query.rows : t \in r.of

\* A result of the range that is raw though older than the cutoff was so when the rollups
\* were read, or came since; and what is neither was seen.
Answering ==
    query.stage = "raw" =>
        /\ \A t \in raw \ (query.gap \cup query.came) :
             InRange(t) => ~TextBefore(t, query.cutoff)
        /\ ~Behind =>
             \A t \in (Owed \ late) \ (query.gap \cup query.came) :
                 Whole(t) /\ InRange(t) /\ BeginsInRange(t) => Seen(t)
----------------------------------------------------------------------------
(* Instants, texts and buckets. *)

LEMMA BucketHolds ==
    ASSUME NEW t \in Int, NEW w \in Nat \ {0}
    PROVE  Bucket(t, w) \in Int /\ Bucket(t, w) <= t /\ t < Bucket(t, w) + w
BY DEF Bucket

LEMMA TwiceIsEven ==
    ASSUME NEW m \in Int
    PROVE  2 * m \in Int /\ (2 * m) % 2 = 0
OBVIOUS

\* A multiple of an even number is even.
LEMMA EvenMultiple ==
    ASSUME NEW k \in Int, NEW w \in Nat \ {0}, w % 2 = 0
    PROVE  k * w \in Int /\ (k * w) % 2 = 0
<1>1. PICK h \in Int : w = 2 * h
  OBVIOUS
<1>2. k * h \in Int
  BY <1>1
<1>3. k * w = 2 * (k * h)
  BY <1>1
<1>4. 2 * (k * h) \in Int /\ (2 * (k * h)) % 2 = 0
  BY <1>2, TwiceIsEven
<1> QED  BY <1>3, <1>4, Zenon

LEMMA BucketEven ==
    ASSUME NEW t \in Int, NEW w \in Nat \ {0}, w % 2 = 0
    PROVE  Bucket(t, w) \in Int /\ Bucket(t, w) % 2 = 0
<1>1. t \div w \in Int
  OBVIOUS
<1> QED  BY <1>1, EvenMultiple DEF Bucket

\* The order of the texts is that of the instants, except within a second.
LEMMA LaterSecondIsLater ==
    ASSUME NEW t \in Int, NEW c \in Int
    PROVE  /\ TextBefore(t, c) => Second(t) <= Second(c)
           /\ t < c /\ c % 2 = 0 => TextBefore(t, c)
           /\ c <= t /\ t % 2 = 0 => ~TextBefore(t, c)
           /\ t <= c => Second(t) <= Second(c)
BY DEF TextBefore, Second

\* Before an even instant that is not after the cutoff is before the cutoff.
LEMMA BeforeEvenBefore ==
    ASSUME NEW t \in Int, NEW e \in Int, NEW c \in Int, t < e, e % 2 = 0, e <= c
    PROVE  TextBefore(t, c)
BY DEF TextBefore, Second

LEMMA ConfigValues ==
    ASSUME NEW c \in Configs
    PROVE  /\ c.raw \in Int /\ c.raw > 0 /\ c.full \in Int /\ c.raw <= c.full
           /\ c.width \in Widths /\ c.width \in Nat \ {0} /\ c.width % 2 = 0
<1>1. c \in Config /\ c.raw <= c.full
  BY RetentionAssumption DEF RetentionAssumption
<1> QED  BY <1>1 DEF Config, Widths

LEMMA WidthsEven ==
    ASSUME NEW w \in Widths
    PROVE  w \in Nat \ {0} /\ w % 2 = 0
BY ConfigValues DEF Widths

LEMMA TruncateBelow ==
    ASSUME NEW t \in Int, NEW w \in Widths
    PROVE  /\ Truncate(t, w) \in Int
           /\ Truncate(t, w) <= t
           /\ Truncate(t, w) % 2 = 0
<1>1. w \in Nat \ {0} /\ w % 2 = 0 /\ Phase \in Nat /\ Phase % 2 = 0
  BY RetentionAssumption, WidthsEven DEF RetentionAssumption
<1>2. t + Phase \in Int
  BY <1>1
<1>3. /\ Bucket(t + Phase, w) \in Int
      /\ Bucket(t + Phase, w) <= t + Phase
      /\ Bucket(t + Phase, w) % 2 = 0
  BY <1>1, <1>2, BucketHolds, BucketEven
<1>4. Truncate(t, w) = Bucket(t + Phase, w) - Phase
  BY DEF Truncate, Bucket
<1> QED  BY <1>1, <1>3, <1>4
----------------------------------------------------------------------------
(* What the steps do. *)

LEMMA Constants ==
    /\ Horizon \in Nat /\ MaxFaults \in Nat /\ MaxReloads \in Nat /\ Ahead \in Nat
    /\ Instants \subseteq Int
BY RetentionAssumption DEF RetentionAssumption, Instants

LEMMA LaterOf ==
    ASSUME NEW a \in Int, NEW b \in Int
    PROVE  Later(a, b) \in {a, b} /\ a <= Later(a, b) /\ b <= Later(a, b)
BY DEF Later

LEMMA DeleteCutoffBelow ==
    ASSUME Sound, pc # "idle"
    PROVE  /\ rollupInterval \in Widths
           /\ DeleteCutoff \in Int /\ DeleteCutoff % 2 = 0
           /\ DeleteCutoff <= swept /\ swept \in Int
<1>1. /\ rawCutoff \in Int /\ rawCutoff <= swept /\ swept \in Int
      /\ rollupInterval \in Widths
  BY DEF Sound
<1>2. /\ DeleteCutoff \in Int /\ DeleteCutoff <= rawCutoff /\ DeleteCutoff % 2 = 0
  BY <1>1, TruncateBelow DEF DeleteCutoff
<1> QED  BY <1>1, <1>2

LEMMA SavedAreInstants ==
    ASSUME Sound
    PROVE  /\ raw \subseteq saved /\ saved \subseteq Int /\ now \in Int
           /\ IsFiniteSet(raw) /\ Selected \subseteq raw /\ IsFiniteSet(Selected)
<1>1. /\ raw \subseteq saved /\ saved \subseteq Int /\ now \in Int
      /\ saved \subseteq 0 .. Horizon /\ Selected \subseteq raw
  BY Constants DEF Sound, Instants, Selected
<1>2. IsFiniteSet(0 .. Horizon)
  BY Constants, FS_Interval
<1>3. IsFiniteSet(raw)
  BY <1>1, <1>2, FS_Subset
<1>4. IsFiniteSet(Selected)
  BY <1>1, <1>3, FS_Subset
<1> QED  BY <1>1, <1>3, <1>4

\* A row that RollupBefore writes: no row of its bucket was there, it counts the selected
\* results of its bucket, and it is torn if its bucket ends after the cutoff.
Fresh(r) ==
    /\ r \in Rows /\ r.width = rollupInterval
    /\ r.of = {t \in Selected : Bucket(t, rollupInterval) = r.bucket} /\ r.of # {}
    /\ \A q \in rollups : ~(q.bucket = r.bucket /\ q.width = rollupInterval)
    /\ <<r.bucket, rollupInterval>> \in torn' \/ End(r) <= DeleteCutoff

LEMMA RollupWrites ==
    ASSUME Sound, RollupBefore
    PROVE  /\ rollups \subseteq rollups' /\ torn \subseteq torn'
           /\ \A r \in rollups' \ rollups : Fresh(r)
           /\ IsFiniteSet(rollups')
           /\ \A t \in Selected : \E r \in rollups' :
                r.bucket = Bucket(t, rollupInterval) /\ r.width = rollupInterval
<1> DEFINE due == {Bucket(t, rollupInterval) : t \in Selected}
           new == {b \in due : \A r \in rollups : <<r.bucket, r.width>> # <<b, rollupInterval>>}
           Row(b) == [bucket |-> b, width |-> rollupInterval,
                      of |-> {t \in Selected : Bucket(t, rollupInterval) = b}]
           f == [t \in Selected |-> Row(Bucket(t, rollupInterval))]
<1>1. /\ pc = "rollup"
      /\ rollups' = rollups \cup {Row(b) : b \in new}
      /\ torn' = torn \cup {<<b, rollupInterval>> : b \in {d \in new : d + rollupInterval > DeleteCutoff}}
  BY DEF RollupBefore
<1>2. /\ rollupInterval \in Widths /\ rollupInterval \in Int /\ DeleteCutoff \in Int
      /\ Selected \subseteq Instants /\ Selected \subseteq Int /\ IsFiniteSet(Selected)
  BY <1>1, DeleteCutoffBelow, SavedAreInstants, WidthsEven DEF Sound
<1>3. ASSUME NEW b \in new
      PROVE  b \in Int /\ Row(b).of # {} /\ Row(b) \in Rows
  <2>1. PICK t \in Selected : b = Bucket(t, rollupInterval)
    OBVIOUS
  <2>2. b \in Int
    BY <1>2, <2>1, BucketHolds, WidthsEven
  <2>3. t \in Row(b).of
    BY <2>1
  <2> QED  BY <1>2, <2>2, <2>3 DEF Rows
<1>4. ASSUME NEW b \in new PROVE Fresh(Row(b))
  <2>1. \A q \in rollups : ~(q.bucket = b /\ q.width = rollupInterval)
    OBVIOUS
  <2>2. <<b, rollupInterval>> \in torn' \/ b + rollupInterval <= DeleteCutoff
    <3>1. CASE b + rollupInterval > DeleteCutoff
      BY <1>1, <3>1
    <3>2. CASE ~(b + rollupInterval > DeleteCutoff)
      <4>1. b \in Int /\ rollupInterval \in Int /\ DeleteCutoff \in Int
        BY <1>2, <1>3
      <4>2. b + rollupInterval <= DeleteCutoff
        BY ONLY <4>1, <3>2
      <4> QED  BY <4>2
    <3> QED  BY <3>1, <3>2
  <2> QED  BY <1>3, <2>1, <2>2 DEF Fresh, End
<1>5. \A r \in rollups' \ rollups : Fresh(r)
  BY <1>1, <1>4
<1>6. IsFiniteSet(rollups')
  <2> DEFINE T == {f[t] : t \in Selected}
  <2>1. f \in Surjection(Selected, T)
    BY DEF Surjection
  <2>2. IsFiniteSet(T)
    <3> HIDE DEF T, f
    <3> QED  BY <1>2, <2>1, FS_Surjection
  <2>3. {Row(b) : b \in new} \in SUBSET T
    OBVIOUS
  <2>4. IsFiniteSet({Row(b) : b \in new})
    <3> HIDE DEF T, f, new
    <3> QED  BY <2>2, <2>3, FS_Subset
  <2>5. IsFiniteSet(rollups)
    BY DEF Sound, Honest
  <2> HIDE DEF new, Row
  <2> QED  BY <1>1, <2>4, <2>5, FS_Union
<1>7. ASSUME NEW t \in Selected
      PROVE  \E r \in rollups' : r.bucket = Bucket(t, rollupInterval) /\ r.width = rollupInterval
  <2> DEFINE b == Bucket(t, rollupInterval)
  <2>1. CASE b \in new
    <3>1. Row(b) \in rollups'
      BY <1>1, <2>1
    <3> QED  BY <3>1
  <2>2. CASE b \notin new
    <3>1. PICK r \in rollups : <<r.bucket, r.width>> = <<b, rollupInterval>>
      BY <2>2
    <3> QED  BY <1>1, <3>1
  <2> QED  BY <2>1, <2>2
<1> QED  BY <1>1, <1>5, <1>6, <1>7
----------------------------------------------------------------------------
(* What the tables are. *)

LEMMA SoundInit == Init => Sound
<1> SUFFICES ASSUME Init PROVE Sound
  OBVIOUS
<1>1. 0 \in Instants /\ 0 \in Int /\ 0 \in 0 .. MaxFaults /\ 0 \in 0 .. MaxReloads
  BY Constants DEF Instants
<1>2. /\ query \in Queries /\ query.since = 0 /\ query.cutoff = 0 /\ query.rows = {}
      /\ query.stage = "none"
  BY DEF Init, NoQuery, Queries, Stages
<1>3. Honest({})
  BY FS_EmptySet DEF Honest
<1>4. Honest(rollups) /\ Honest(query.rows)
  BY <1>2, <1>3 DEF Init
<1>5. /\ rawCutoff \in Int /\ retentionCutoff \in Int /\ rollupInterval \in Widths \cup {0}
      /\ pc = "idle"
  BY DEF Init, NoCleaning
<1>6. brokeOff \in BOOLEAN /\ resized \in BOOLEAN
  BY Zenon DEF Init
<1>7. query.since <= query.cutoff /\ query.cutoff <= now
  BY <1>2 DEF Init
<1>8. /\ now \in Instants /\ faults \in 0 .. MaxFaults /\ reloads \in 0 .. MaxReloads
      /\ config \in Configs
  BY <1>1 DEF Init
<1>9. raw = {} /\ saved = {} /\ late = {}
  BY DEF Init
<1>10. swept \in Int /\ expired \in Int /\ swept < now /\ expired <= swept
  <2>1. now = 0 /\ config \in Configs /\ swept = 0 - config.raw /\ expired = 0 - config.full
    BY DEF Init
  <2>2. config.raw \in Int /\ config.raw > 0 /\ config.full \in Int /\ config.raw <= config.full
    BY <2>1, ConfigValues
  <2> QED  BY <2>1, <2>2
<1> QED  BY <1>2, <1>4, <1>5, <1>6, <1>7, <1>8, <1>9, <1>10 DEF Sound

LEMMA SoundRollup ==
    ASSUME Sound, RollupBefore
    PROVE  Sound'
<1>1. pc = "rollup" /\ pc' = "delete"
  BY DEF RollupBefore
<1>2. UNCHANGED <<now, config, raw, rawCutoff, retentionCutoff, rollupInterval, query, saved,
                  swept, expired, late, brokeOff, resized, reloads, faults>>
  BY DEF RollupBefore
<1>3. \A r \in rollups' \ rollups :
         r \in Rows /\ r.of # {} /\ r.of \subseteq saved
         /\ \A t \in r.of : Bucket(t, r.width) = r.bucket
  <2> SUFFICES ASSUME NEW r \in rollups' \ rollups
               PROVE  /\ r \in Rows /\ r.of # {} /\ r.of \subseteq saved
                      /\ \A t \in r.of : Bucket(t, r.width) = r.bucket
    OBVIOUS
  <2>1. Fresh(r)
    BY RollupWrites
  <2>2. Selected \subseteq saved
    BY SavedAreInstants
  <2> QED  BY <2>1, <2>2 DEF Fresh
<1>4. IsFiniteSet(rollups')
  BY RollupWrites
<1>5. Honest(rollups)'
  BY <1>2, <1>3, <1>4 DEF Honest, Sound
<1>6. Honest(query.rows)'
  BY <1>2 DEF Honest, Sound
<1> QED  BY <1>1, <1>2, <1>5, <1>6 DEF Sound

LEMMA SoundExpire ==
    ASSUME Sound, DeleteRollupsBefore
    PROVE  Sound'
<1>1. rollups' \in SUBSET rollups
  BY DEF DeleteRollupsBefore
<1>2. UNCHANGED <<now, config, raw, query, historyVars>>
  BY DEF DeleteRollupsBefore
<1>3. pc' = "idle" /\ rawCutoff' = 0 /\ retentionCutoff' = 0 /\ rollupInterval' = 0
  BY DEF DeleteRollupsBefore, Finish
<1>4. IsFiniteSet(rollups')
  BY <1>1, FS_Subset DEF Sound, Honest
<1>5. Honest(rollups)' /\ Honest(query.rows)'
  BY <1>1, <1>2, <1>4 DEF Sound, Honest, historyVars
<1> QED  BY <1>2, <1>3, <1>5 DEF Sound, historyVars

\* What the steps of a query leave in it.
LEMMA AskedFields ==
    ASSUME Sound, NEW range \in Ranges, Ask(range)
    PROVE  /\ query' \in Queries /\ query'.since <= query'.cutoff /\ query'.cutoff <= now
           /\ query'.stage = "raw" => query'.since = query'.cutoff
           /\ query'.stage = "rollups" => query'.since < query'.cutoff
           /\ query'.rows = {} /\ query'.gap = {} /\ query'.came = {}
<1> DEFINE since == now - range
           from == now - config.raw
           stage == IF since < from THEN "rollups" ELSE "raw"
<1>1. query' = [stage |-> stage, since |-> since, cutoff |-> Later(since, from), rows |-> {},
                gap |-> {}, came |-> {}]
  BY DEF Ask
<1>2. since \in Int /\ from \in Int /\ since <= now /\ from <= now
  <2>1. now \in Int /\ range \in Nat /\ config.raw \in Int /\ config.raw > 0
    BY SavedAreInstants, ConfigValues, RetentionAssumption DEF Sound, RetentionAssumption
  <2> QED  BY <2>1
<1>3. /\ Later(since, from) \in Int /\ since <= Later(since, from) /\ Later(since, from) <= now
      /\ stage = "raw" => Later(since, from) = since
      /\ stage = "rollups" => since < Later(since, from)
  <2> HIDE DEF since, from
  <2> QED  BY <1>2 DEF Later
<1>4. stage \in Stages
  BY DEF Stages
<1> HIDE DEF since, from, stage
<1> QED  BY <1>1, <1>2, <1>3, <1>4 DEF Queries

LEMMA ReadFields ==
    ASSUME Sound, ReadRollups
    PROVE  /\ query.stage = "rollups" /\ query'.stage = "raw"
           /\ query'.rows = RollupRows
           /\ query'.gap = {t \in raw : TextBefore(t, query.cutoff)}
           /\ query'.came = query.came
           /\ query'.since = query.since /\ query'.cutoff = query.cutoff
BY DEF Sound, Queries, ReadRollups

LEMMA AnsweredFields ==
    ASSUME Answer
    PROVE  query'.stage = "none" /\ query'.rows = {}
BY DEF Answer, NoQuery

\* What a result that arrives does to the query.
LEMMA SavedFields ==
    ASSUME Sound, NEW t \in Instants, Save(t)
    PROVE  /\ query' \in Queries /\ query'.stage = query.stage /\ query'.rows = query.rows
           /\ query'.gap = query.gap /\ query.came \subseteq query'.came
           /\ query'.since = query.since /\ query'.cutoff = query.cutoff
           /\ /\ query.stage = "raw" /\ query.since < query.cutoff
              /\ TextBefore(t, query.cutoff)
              => t \in query'.came
<1>1. \/ query' = query
      \/ query' = [query EXCEPT !.came = query.came \cup {t}]
  BY DEF Save
<1>2. query \in Queries
  BY DEF Sound
<1>3. /\ query.stage = "raw" /\ query.since < query.cutoff /\ TextBefore(t, query.cutoff)
      => query' = [query EXCEPT !.came = query.came \cup {t}]
  BY DEF Save
<1>4. [query EXCEPT !.came = query.came \cup {t}] \in Queries
  BY <1>2 DEF Queries
<1> QED  BY <1>1, <1>2, <1>3, <1>4 DEF Queries

LEMMA SoundRead ==
    ASSUME Sound, Read
    PROVE  Sound'
<1>1. UNCHANGED <<now, config, raw, rollups, cleanVars, historyVars>>
  BY DEF Read, Ask, ReadRollups, Answer
<1>2. /\ query' \in Queries /\ query'.since <= query'.cutoff /\ query'.cutoff <= now
      /\ query'.stage = "rollups" => query'.since < query'.cutoff
      /\ query'.rows \in SUBSET (rollups \cup query.rows)
  <2>1. ASSUME NEW range \in Ranges, Ask(range)
        PROVE  /\ query' \in Queries /\ query'.since <= query'.cutoff /\ query'.cutoff <= now
               /\ query'.stage = "rollups" => query'.since < query'.cutoff
               /\ query'.rows = {}
    BY <2>1, AskedFields
  <2>2. CASE ReadRollups
    <3>1. query' = [query EXCEPT !.stage = "raw", !.rows = RollupRows,
                                 !.gap = {t \in raw : TextBefore(t, query.cutoff)}]
      BY <2>2 DEF ReadRollups
    <3>2. RollupRows \subseteq rollups /\ RollupRows \in SUBSET Rows
      BY DEF RollupRows, Sound, Honest
    <3>3. {t \in raw : TextBefore(t, query.cutoff)} \in SUBSET Instants
      BY DEF Sound
    <3> QED  BY <3>1, <3>2, <3>3 DEF Queries, Stages, Sound
  <2>3. CASE Answer
    <3>1. query' = NoQuery
      BY <2>3 DEF Answer
    <3>2. 0 <= now
      BY Constants DEF Sound, Instants
    <3> QED  BY <3>1, <3>2 DEF NoQuery, Queries, Stages
  <2> QED  BY <2>1, <2>2, <2>3 DEF Read
<1>3. Honest(rollups)'
  BY <1>1 DEF Sound, Honest, historyVars
<1>4. Honest(query.rows)'
  <2>1. IsFiniteSet(rollups \cup query.rows)
    BY FS_Union, ZenonT(30) DEF Sound, Honest
  <2>2. IsFiniteSet(query'.rows)
    BY <1>2, <2>1, FS_Subset
  <2> QED  BY <1>1, <1>2, <2>2 DEF Sound, Honest, historyVars
<1> QED  BY <1>1, <1>2, <1>3, <1>4 DEF Sound, historyVars, cleanVars

\* A cleaning that starts takes its cutoffs from the clock.
LEMMA StartedFields ==
    ASSUME Sound, StartCleaning
    PROVE  /\ pc = "idle" /\ pc' = "rollup"
           /\ UNCHANGED <<now, config, raw, rollups, query, saved, late, torn, brokeOff, resized,
                          reloads, faults>>
           /\ rawCutoff' \in Int /\ rawCutoff' <= swept'
           /\ retentionCutoff' \in Int /\ retentionCutoff' <= expired'
           /\ rollupInterval' = config.width /\ config.width \in Widths
           /\ swept' \in Int /\ swept <= swept' /\ swept' < now
           /\ expired' \in Int /\ expired <= expired' /\ expired' <= swept'
<1> DEFINE from == now - config.raw
           end == now - config.full
<1>1. /\ pc = "idle" /\ pc' = "rollup" /\ rollupInterval' = config.width
      /\ rawCutoff' = from /\ retentionCutoff' = end
      /\ swept' = Later(swept, from) /\ expired' = Later(expired, end)
      /\ UNCHANGED <<now, config, raw, rollups, query, saved, late, torn, brokeOff, resized,
                     reloads, faults>>
  BY DEF StartCleaning
<1>2. /\ swept \in Int /\ expired \in Int /\ swept < now /\ expired <= swept /\ now \in Int
      /\ config.width \in Widths
  BY SavedAreInstants, ConfigValues DEF Sound
<1>3. from \in Int /\ end \in Int /\ from < now /\ end <= from
  <2>1. /\ config.raw \in Int /\ config.raw > 0 /\ config.full \in Int
        /\ config.raw <= config.full
    BY ConfigValues DEF Sound
  <2> QED  BY <1>2, <2>1
<1> HIDE DEF from, end
<1>4. /\ swept' \in Int /\ swept <= swept' /\ from <= swept' /\ swept' < now
      /\ expired' \in Int /\ expired <= expired' /\ end <= expired' /\ expired' <= swept'
  BY <1>1, <1>2, <1>3 DEF Later
<1> QED  BY <1>1, <1>2, <1>3, <1>4

LEMMA SoundStep == Sound /\ [Next]_vars => Sound'
<1> SUFFICES ASSUME Sound, [Next]_vars PROVE Sound'
  OBVIOUS
<1> USE Constants
<1>1. CASE TimePasses
  <2>1. now' \in Instants /\ now <= now' /\ now \in Int /\ now' \in Int
    BY <1>1 DEF TimePasses, Sound, Instants
  <2>2. swept < now' /\ query.cutoff <= now'
    BY <2>1 DEF Sound, Queries
  <2>3. UNCHANGED <<config, raw, rollups, cleanVars, query, historyVars>>
    BY <1>1 DEF TimePasses
  <2>4. Honest(rollups)' /\ Honest(query.rows)'
    BY <2>3 DEF Sound, Honest, historyVars
  <2> QED  BY <2>1, <2>2, <2>3, <2>4 DEF Sound, cleanVars, historyVars
<1>2. CASE StartCleaning
  <2>1. Honest(rollups)' /\ Honest(query.rows)'
    BY <1>2, StartedFields DEF Sound, Honest
  <2> QED  BY <1>2, <2>1, StartedFields DEF Sound
<1>3. CASE RollupBefore
  BY <1>3, SoundRollup
<1>4. CASE DeleteBefore
  <2>1. /\ raw' \subseteq raw /\ pc' = "expire" /\ pc # "idle"
        /\ UNCHANGED <<now, config, rollups, rawCutoff, retentionCutoff, rollupInterval, query,
                       historyVars>>
    BY <1>4 DEF DeleteBefore
  <2>2. Honest(rollups)' /\ Honest(query.rows)'
    BY <2>1 DEF Sound, Honest, historyVars
  <2> QED  BY <2>1, <2>2 DEF Sound, historyVars
<1>5. CASE DeleteRollupsBefore
  BY <1>5, SoundExpire
<1>6. CASE BreakOff
  <2>1. faults' \in 0 .. MaxFaults
    BY <1>6 DEF BreakOff, Sound
  <2>2. brokeOff' \in BOOLEAN
    BY <1>6, Zenon DEF BreakOff
  <2>3. /\ pc' = "idle" /\ rawCutoff' = 0 /\ retentionCutoff' = 0 /\ rollupInterval' = 0
        /\ UNCHANGED <<now, config, raw, rollups, query, saved, swept, expired, late, torn,
                       resized, reloads>>
    BY <1>6 DEF BreakOff, Finish
  <2>4. Honest(rollups)' /\ Honest(query.rows)'
    BY <2>3 DEF Sound, Honest
  <2> QED  BY <2>1, <2>2, <2>3, <2>4 DEF Sound
<1>7. CASE Read
  BY <1>7, SoundRead
<1>8. ASSUME NEW t \in Instants, Save(t) PROVE Sound'
  <2>1. /\ raw' = raw \cup {t} /\ saved' = saved \cup {t} /\ late' \subseteq late \cup {t}
        /\ UNCHANGED <<now, config, rollups, cleanVars, swept, expired, torn, brokeOff, resized,
                       reloads, faults>>
    BY <1>8 DEF Save
  <2>2. /\ query' \in Queries /\ query'.rows = query.rows /\ query'.stage = query.stage
        /\ query'.since = query.since /\ query'.cutoff = query.cutoff
    BY <1>8, SavedFields
  <2>3. Honest(rollups)' /\ Honest(query.rows)'
    BY <2>1, <2>2 DEF Sound, Honest
  <2> QED  BY <2>1, <2>2, <2>3 DEF Sound, cleanVars
<1>9. ASSUME NEW c \in Configs, Reload(c) PROVE Sound'
  <2>1. /\ config' \in Configs
        /\ UNCHANGED <<now, raw, rollups, cleanVars, query, saved, swept, expired, late, torn,
                       brokeOff, faults>>
    BY <1>9 DEF Reload
  <2>2. resized' \in BOOLEAN
    BY <1>9, Zenon DEF Reload
  <2>3. reloads' \in 0 .. MaxReloads
    BY <1>9 DEF Reload, Sound
  <2>4. Honest(rollups)' /\ Honest(query.rows)'
    BY <2>1 DEF Sound, Honest
  <2> QED  BY <2>1, <2>2, <2>3, <2>4 DEF Sound, cleanVars
<1>10. CASE UNCHANGED vars
  BY <1>10 DEF Sound, Honest, vars, cleanVars, historyVars
<1> QED  BY <1>1, <1>2, <1>3, <1>4, <1>5, <1>6, <1>7, <1>8, <1>9, <1>10 DEF Next, Clean

\* The tables stay sound.
THEOREM SoundAlways == Spec => []Sound
<1> QED  BY SoundInit, SoundStep, PTL DEF Spec

\* TypeOK: every variable keeps its type, and a rollup counts results of its own bucket.
THEOREM TypeCorrect == Spec => []TypeOK
<1>1. Sound => TypeOK
  <2> SUFFICES ASSUME Sound PROVE TypeOK
    OBVIOUS
  <2>1. query.stage \in {"none", "rollups", "raw"}
    BY DEF Sound, Queries, Stages
  <2>2. \A r \in rollups : r.width \in Widths
    BY DEF Sound, Honest, Rows
  <2> QED  BY <2>1, <2>2 DEF TypeOK, Sound, Honest
<1> QED  BY <1>1, SoundAlways, PTL
----------------------------------------------------------------------------
(* What the deletion relies on. *)

\* A result that is not late when it arrives is younger than the cutoff of any cleaning.
LEMMA SavedInTime ==
    ASSUME Sound, NEW t \in Instants, Save(t), t \notin late', NEW c \in Int, c <= swept
    PROVE  t \in Int /\ c < t /\ ~TextBefore(t, c)
<1>1. t \in Int /\ swept \in Int
  BY Constants DEF Sound
<1>2. ~(Second(t) <= Second(swept))
  BY DEF Save
<1> QED  BY <1>1, <1>2 DEF TextBefore, Second

\* A row that is honest and in time for a result whose buckets are all whole.
LEMMA WholeOnTime ==
    ASSUME NEW r, r.width \in Widths, NEW t \in r.of, Bucket(t, r.width) = r.bucket, Whole(t)
    PROVE  OnTime(r)
BY DEF Whole, OnTime

LEMMA KeptInit == Init => Kept
BY DEF Init, Kept, Keyed, Due, Complete, Covered, KeptUnlessTorn, Owed, NoCleaning, NoQuery

\* Steps that leave the tables alone, those a query reads among them, and whose cutoffs
\* are at least as late.
LEMMA KeptElsewhere ==
    ASSUME Sound, Kept, UNCHANGED <<raw, rollups, saved, late, torn>>,
           query'.rows \subseteq rollups \cup query.rows,
           swept <= swept', swept' \in Int, expired <= expired', expired' \in Int,
           pc' # "delete" \/ UNCHANGED cleanVars
    PROVE  Kept'
<1>1. Keyed' /\ Complete'
  BY DEF Kept, Keyed, Complete, OnTime
<1>2. Covered'
  BY DEF Kept, Covered, Whole, Counted, DeleteCutoff, cleanVars
<1>3. Due'
  <2> SUFFICES ASSUME NEW r \in rollups \cup query.rows, OnTime(r) PROVE End(r) <= swept'
    BY DEF Due, OnTime, End
  <2>1. End(r) \in Int /\ swept \in Int
    BY WidthsEven DEF End, Sound, Honest, Rows
  <2>2. End(r) <= swept
    BY DEF Kept, Due
  <2> QED  BY <2>1, <2>2
<1>4. KeptUnlessTorn'
  <2>1. Owed' \subseteq Owed
    <3> SUFFICES ASSUME NEW t \in saved, NEW w \in Widths, Bucket(t, w) >= expired'
                 PROVE  Bucket(t, w) >= expired
      BY DEF Owed
    <3>1. Bucket(t, w) \in Int /\ expired \in Int
      BY BucketHolds, WidthsEven, SavedAreInstants DEF Sound
    <3> QED  BY <3>1
  <2> QED  BY <2>1 DEF Kept, KeptUnlessTorn, Whole, Counted
<1> QED  BY <1>1, <1>2, <1>3, <1>4 DEF Kept

LEMMA KeptRollup ==
    ASSUME Sound, Kept, RollupBefore
    PROVE  Kept'
<1>1. /\ pc = "rollup" /\ pc' = "delete"
      /\ UNCHANGED <<raw, rawCutoff, rollupInterval, query, saved, swept, expired, late>>
  BY DEF RollupBefore
<1>2. /\ rollupInterval \in Widths /\ DeleteCutoff \in Int /\ DeleteCutoff % 2 = 0
      /\ DeleteCutoff <= swept /\ swept \in Int
      /\ DeleteCutoff' = DeleteCutoff /\ Selected' = Selected
  <2>1. /\ rollupInterval \in Widths /\ DeleteCutoff \in Int /\ DeleteCutoff % 2 = 0
        /\ DeleteCutoff <= swept /\ swept \in Int
    BY <1>1, DeleteCutoffBelow
  <2> QED  BY <1>1, <2>1 DEF DeleteCutoff, Selected
<1>3. \A r \in rollups' : r \in rollups \/ Fresh(r)
  BY RollupWrites
<1>4. /\ rollups \subseteq rollups' /\ torn \subseteq torn'
      /\ \A r \in rollups : OnTime(r)' => OnTime(r)
  BY RollupWrites DEF OnTime
<1>5. Keyed'
  <2> SUFFICES ASSUME NEW r \in rollups', NEW q \in rollups',
                      r.bucket = q.bucket, r.width = q.width
               PROVE  r = q
    BY DEF Keyed
  <2>1. CASE r \in rollups /\ q \in rollups
    BY <2>1 DEF Kept, Keyed
  <2>2. CASE Fresh(r) /\ Fresh(q)
    BY <2>2 DEF Fresh, Rows
  <2>3. CASE Fresh(r) /\ q \in rollups
    BY <2>3 DEF Fresh
  <2>4. CASE r \in rollups /\ Fresh(q)
    BY <2>4 DEF Fresh
  <2> QED  BY <1>3, <2>1, <2>2, <2>3, <2>4
<1>6. Due'
  <2> SUFFICES ASSUME NEW r \in rollups' \cup query.rows, OnTime(r)'
               PROVE  End(r) <= swept
    BY <1>1 DEF Due, OnTime, End
  <2>1. CASE r \in rollups \cup query.rows
    <3>1. OnTime(r)
      BY RollupWrites DEF OnTime
    <3> QED  BY <2>1, <3>1 DEF Kept, Due
  <2>2. CASE Fresh(r)
    <3>1. End(r) <= DeleteCutoff
      BY <2>2 DEF Fresh, OnTime
    <3>2. End(r) \in Int
      BY <2>2, WidthsEven DEF Fresh, Rows, End
    <3> QED  BY <1>2, <3>1, <3>2
  <2> QED  BY <1>3, <2>1, <2>2
<1>7. Complete'
  <2> SUFFICES ASSUME NEW r \in rollups', NEW t \in raw \ late, OnTime(r)',
                      Bucket(t, r.width) = r.bucket
               PROVE  t \in r.of
    BY <1>1 DEF Complete, OnTime
  <2>1. CASE r \in rollups
    BY <1>4, <2>1 DEF Kept, Complete
  <2>2. CASE Fresh(r)
    <3>1. End(r) <= DeleteCutoff /\ r.width = rollupInterval /\ r.bucket \in Int
      BY <2>2 DEF Fresh, OnTime, Rows
    <3>2. t \in Int
      BY SavedAreInstants
    <3>3. t < End(r) /\ End(r) \in Int
      <4>1. rollupInterval \in Nat \ {0} /\ r.bucket = Bucket(t, rollupInterval)
        BY <1>2, <3>1, WidthsEven
      <4>2. t < r.bucket + rollupInterval
        BY <3>2, <4>1, BucketHolds
      <4> QED  BY <3>1, <4>1, <4>2 DEF End
    <3>4. TextBefore(t, DeleteCutoff)
      BY <1>2, <3>1, <3>2, <3>3, LaterSecondIsLater
    <3> QED  BY <2>2, <3>1, <3>4 DEF Fresh, Selected
  <2> QED  BY <1>3, <2>1, <2>2
<1>8. Covered'
  <2> SUFFICES ASSUME NEW t \in raw \ late, TextBefore(t, DeleteCutoff), Whole(t)'
               PROVE  \E r \in rollups' : t \in r.of
    BY <1>1, <1>2 DEF Covered, Counted
  <2>1. t \in Selected
    BY DEF Selected
  <2>2. PICK r \in rollups' : r.bucket = Bucket(t, rollupInterval) /\ r.width = rollupInterval
    BY <2>1, RollupWrites
  <2>3. OnTime(r)'
    BY <1>2, <2>2 DEF Whole, OnTime
  <2> QED  BY <1>1, <1>7, <2>2, <2>3 DEF Complete
<1>9. KeptUnlessTorn'
  <2>1. Counted \subseteq Counted' /\ Owed' = Owed
    BY <1>1, <1>4 DEF Counted, Owed
  <2>2. \A t : Whole(t)' => Whole(t)
    BY <1>4 DEF Whole
  <2> QED  BY <1>1, <2>1, <2>2 DEF Kept, KeptUnlessTorn
<1> QED  BY <1>5, <1>6, <1>7, <1>8, <1>9 DEF Kept

LEMMA KeptDelete ==
    ASSUME Sound, Kept, DeleteBefore
    PROVE  Kept'
<1>1. /\ pc = "delete" /\ pc' = "expire" /\ raw' = raw \ Selected
      /\ UNCHANGED <<rollups, query, saved, swept, expired, late, torn>>
  BY DEF DeleteBefore, historyVars
<1>2. Keyed' /\ Due' /\ Complete' /\ Covered'
  BY <1>1 DEF Kept, Keyed, Due, Complete, Covered, OnTime, End
<1>3. KeptUnlessTorn'
  <2>1. Counted' = Counted /\ Owed' = Owed
    BY <1>1 DEF Counted, Owed
  <2>2. \A t \in Selected \ late : Whole(t) => t \in Counted
    BY <1>1 DEF Kept, Covered, Selected
  <2> QED  BY <1>1, <2>1, <2>2 DEF Kept, KeptUnlessTorn, Whole
<1> QED  BY <1>2, <1>3 DEF Kept

LEMMA KeptExpire ==
    ASSUME Sound, Kept, DeleteRollupsBefore
    PROVE  Kept'
<1>1. /\ pc = "expire" /\ pc' = "idle"
      /\ rollups' = {r \in rollups : ~TextBefore(r.bucket, retentionCutoff)}
      /\ UNCHANGED <<raw, query, saved, swept, expired, late, torn>>
  BY DEF DeleteRollupsBefore, Finish, historyVars
<1>2. Keyed' /\ Due' /\ Complete' /\ Covered'
  BY <1>1 DEF Kept, Keyed, Due, Complete, Covered, OnTime, End
<1>3. KeptUnlessTorn'
  <2> SUFFICES ASSUME NEW t \in Owed \ late, Whole(t), NEW r \in rollups, t \in r.of
               PROVE  r \in rollups'
    BY <1>1 DEF Kept, KeptUnlessTorn, Whole, Owed, Counted
  <2>1. r.width \in Widths /\ r.bucket = Bucket(t, r.width) /\ t \in Int
    BY SavedAreInstants DEF Sound, Honest, Rows, Owed
  <2>2. r.bucket \in Int /\ r.bucket % 2 = 0
    BY <2>1, BucketEven, WidthsEven
  <2>3. r.bucket >= expired
    BY <2>1 DEF Owed
  <2>4. retentionCutoff \in Int /\ expired \in Int /\ retentionCutoff <= expired
    BY <1>1 DEF Sound
  <2>5. ~TextBefore(r.bucket, retentionCutoff)
    BY <2>2, <2>3, <2>4, LaterSecondIsLater
  <2> QED  BY <1>1, <2>5
<1> QED  BY <1>2, <1>3 DEF Kept

LEMMA KeptSave ==
    ASSUME Sound, Kept, NEW t \in Instants, Save(t)
    PROVE  Kept'
<1>1. /\ raw' = raw \cup {t} /\ saved' = saved \cup {t}
      /\ late \subseteq late' /\ late' \subseteq late \cup {t} /\ t \notin saved
      /\ UNCHANGED <<rollups, cleanVars, swept, expired, torn>>
  BY DEF Save
<1>2. Keyed' /\ Due'
  BY <1>1, SavedFields DEF Kept, Keyed, Due, OnTime, End
<1>3. Complete'
  <2> SUFFICES ASSUME NEW r \in rollups, t \notin late', OnTime(r), Bucket(t, r.width) = r.bucket
               PROVE  FALSE
    BY <1>1 DEF Kept, Complete, OnTime
  <2>1. r.width \in Widths /\ r.bucket \in Int
    BY DEF Sound, Honest, Rows
  <2>2. End(r) \in Int /\ End(r) <= swept
    BY <2>1, WidthsEven DEF Kept, Due, End
  <2>3. t < End(r)
    BY <2>1, BucketHolds, WidthsEven, Constants DEF End
  <2> QED  BY <2>2, <2>3, SavedInTime
<1>4. Covered'
  <2> SUFFICES ASSUME pc = "delete", t \notin late', TextBefore(t, DeleteCutoff)
               PROVE  FALSE
    BY <1>1 DEF Kept, Covered, Counted, Whole, DeleteCutoff, cleanVars
  <2>1. DeleteCutoff \in Int /\ DeleteCutoff <= swept
    BY DeleteCutoffBelow
  <2> QED  BY <2>1, SavedInTime
<1>5. KeptUnlessTorn'
  BY <1>1 DEF Kept, KeptUnlessTorn, Owed, Whole, Counted
<1> QED  BY <1>2, <1>3, <1>4, <1>5 DEF Kept

\* The rows of a query are rollups it has read.
LEMMA RowsRead ==
    ASSUME Sound, Read
    PROVE  query'.rows \subseteq rollups \cup query.rows
<1>1. ASSUME NEW range \in Ranges, Ask(range) PROVE query'.rows = {}
  BY <1>1, AskedFields
<1>2. CASE ReadRollups
  BY <1>2, ReadFields DEF RollupRows
<1>3. CASE Answer
  BY <1>3, AnsweredFields
<1> QED  BY <1>1, <1>2, <1>3 DEF Read

LEMMA KeptStep == Sound /\ Kept /\ [Next]_vars => Kept'
<1> SUFFICES ASSUME Sound, Kept, [Next]_vars PROVE Kept'
  OBVIOUS
<1>1. swept \in Int /\ expired \in Int /\ swept <= swept /\ expired <= expired
  BY DEF Sound
<1>2. CASE StartCleaning
  BY <1>2, StartedFields, KeptElsewhere
<1>3. CASE RollupBefore
  BY <1>3, KeptRollup
<1>4. CASE DeleteBefore
  BY <1>4, KeptDelete
<1>5. CASE DeleteRollupsBefore
  BY <1>5, KeptExpire
<1>6. CASE BreakOff
  BY <1>1, <1>6, KeptElsewhere DEF BreakOff, Finish
<1>7. CASE Read
  <2>1. UNCHANGED <<raw, rollups, cleanVars, saved, swept, expired, late, torn>>
    BY <1>7 DEF Read, Ask, ReadRollups, Answer, historyVars
  <2> QED  BY <1>1, <1>7, <2>1, RowsRead, KeptElsewhere
<1>8. ASSUME NEW t \in Instants, Save(t) PROVE Kept'
  BY <1>8, KeptSave
<1>9. CASE TimePasses \/ (\E c \in Configs : Reload(c)) \/ UNCHANGED vars
  <2>1. UNCHANGED <<raw, rollups, cleanVars, query, saved, swept, expired, late, torn>>
    BY <1>9 DEF TimePasses, Reload, vars, historyVars
  <2> QED  BY <1>1, <2>1, KeptElsewhere
<1> QED  BY <1>2, <1>3, <1>4, <1>5, <1>6, <1>7, <1>8, <1>9 DEF Next, Clean

LEMMA KeptAlways == Spec => []Kept
<1>1. Sound /\ Kept /\ [Next]_vars => Kept'
  BY KeptStep
<1> QED  BY <1>1, KeptInit, SoundAlways, PTL DEF Spec

\* README.md:133, as far as it is true: however the retention changes, a result that did not
\* arrive behind a cleaning stays in the raw table or in a rollup until its bucket expires,
\* unless the bucket was rolled up too early.
THEOREM KeptUnlessTornAlways == Spec => []KeptUnlessTorn
<1>1. Kept => KeptUnlessTorn
  BY DEF Kept
<1> QED  BY <1>1, KeptAlways, PTL
----------------------------------------------------------------------------
(* What a query relies on. *)

LEMMA OnceInit == Init => Once /\ Answering
<1> SUFFICES ASSUME Init PROVE Once /\ Answering
  OBVIOUS
<1>1. rollups = {} /\ raw = {} /\ rollupInterval = 0 /\ query.stage = "none" /\ query.rows = {}
  BY DEF Init, NoCleaning, NoQuery
<1> QED  BY <1>1 DEF Once, NoOverlap, OneWidth, RowsApart, Answering

LEMMA NoOverlapStep == Sound /\ NoOverlap /\ [Next]_vars => NoOverlap'
<1> SUFFICES ASSUME Sound, NoOverlap, [Next]_vars, ~brokeOff' PROVE NoOverlap'
  BY DEF NoOverlap
<1> DEFINE Between(t) == pc = "delete" /\ TextBefore(t, DeleteCutoff)
           Apart == \A r, q \in rollups : r.of \cap q.of # {} => r = q
           All == rollups \cup query.rows
<1>1. ~brokeOff => (\A r \in All : \A t \in r.of \cap raw : Between(t)) /\ Apart
  BY DEF NoOverlap
<1>2. CASE TimePasses \/ Read \/ (\E c \in Configs : Reload(c)) \/ UNCHANGED vars
  <2>1. UNCHANGED <<raw, rollups, cleanVars, brokeOff>>
    BY <1>2 DEF TimePasses, Read, Ask, ReadRollups, Answer, Reload, vars, historyVars
  <2>2. query'.rows \subseteq All
    <3>1. CASE Read
      BY <3>1, RowsRead
    <3>2. CASE ~Read
      BY <1>2, <3>2 DEF TimePasses, Reload, vars
    <3> QED  BY <3>1, <3>2
  <2> QED  BY <1>1, <2>1, <2>2 DEF NoOverlap, cleanVars, DeleteCutoff
<1>3. CASE StartCleaning \/ BreakOff
  <2>1. UNCHANGED <<raw, rollups, query>> /\ ~brokeOff /\ pc # "delete"
    <3>1. CASE StartCleaning
      BY <3>1, StartedFields
    <3>2. CASE BreakOff
      <4>1. brokeOff' = (brokeOff \/ pc = "delete") /\ UNCHANGED <<raw, rollups, query>>
        BY <3>2 DEF BreakOff
      <4>2. ~brokeOff /\ pc # "delete"
        BY <4>1, Zenon
      <4> QED  BY <4>1, <4>2
    <3> QED  BY <1>3, <3>1, <3>2
  <2> QED  BY <1>1, <2>1 DEF NoOverlap
<1>4. CASE RollupBefore
  <2>1. /\ pc = "rollup" /\ pc' = "delete"
        /\ UNCHANGED <<raw, rawCutoff, rollupInterval, query, brokeOff>>
        /\ \A r \in rollups' : r \in rollups \/ Fresh(r)
    BY <1>4, RollupWrites DEF RollupBefore
  <2>2. \A r \in All : r.of \cap raw = {}
    BY <1>1, <2>1
  <2>3. \A r \in rollups' : Fresh(r) => r.of \subseteq Selected /\ r.of \subseteq raw
    BY DEF Fresh, Selected
  <2>4. ASSUME NEW r \in rollups' \cup query'.rows, NEW t \in r.of \cap raw'
        PROVE  TextBefore(t, DeleteCutoff')
    BY <2>1, <2>2, <2>3 DEF Selected, DeleteCutoff
  <2>5. ASSUME NEW r \in rollups', NEW q \in rollups', r.of \cap q.of # {}
        PROVE  r = q
    <3>1. CASE r \in rollups /\ q \in rollups
      BY <1>1, <2>1, <2>5, <3>1
    <3>2. CASE Fresh(r) /\ Fresh(q)
      <4>1. r.bucket = q.bucket
        BY <2>5, <3>2 DEF Fresh
      <4> QED  BY <3>2, <4>1 DEF Fresh, Rows
    <3> QED  BY <2>1, <2>2, <2>3, <2>5, <3>1, <3>2
  <2> QED  BY <2>1, <2>4, <2>5 DEF NoOverlap
<1>5. CASE DeleteBefore
  <2>1. pc' = "expire" /\ raw' = raw \ Selected /\ UNCHANGED <<rollups, query, brokeOff>>
    BY <1>5 DEF DeleteBefore, historyVars
  <2>2. \A r \in All : r.of \cap raw' = {}
    BY <1>1, <2>1 DEF Selected
  <2> QED  BY <1>1, <2>1, <2>2 DEF NoOverlap
<1>6. CASE DeleteRollupsBefore
  <2>1. pc = "expire" /\ rollups' \subseteq rollups /\ UNCHANGED <<raw, query, brokeOff>>
    BY <1>6 DEF DeleteRollupsBefore, historyVars
  <2> QED  BY <1>1, <2>1 DEF NoOverlap
<1>7. ASSUME NEW t \in Instants, Save(t) PROVE NoOverlap'
  <2>1. /\ t \notin saved /\ raw' = raw \cup {t}
        /\ UNCHANGED <<rollups, cleanVars, brokeOff>>
    BY <1>7 DEF Save
  <2>2. query'.rows = query.rows
    BY <1>7, SavedFields
  <2>3. \A r \in All : t \notin r.of
    BY <2>1 DEF Sound, Honest
  <2> QED  BY <1>1, <2>1, <2>2, <2>3 DEF NoOverlap, cleanVars, DeleteCutoff
<1> QED  BY <1>2, <1>3, <1>4, <1>5, <1>6, <1>7 DEF Next, Clean

LEMMA OneWidthStep == Sound /\ OneWidth /\ [Next]_vars => OneWidth'
<1> SUFFICES ASSUME Sound, OneWidth, [Next]_vars, ~resized' PROVE OneWidth'
  BY DEF OneWidth
<1>1. CASE RollupBefore
  <2>1. /\ rollupInterval \in Widths /\ pc = "rollup"
        /\ UNCHANGED <<rollupInterval, config, resized>>
    BY <1>1 DEF RollupBefore, Sound
  <2>2. 0 \notin Widths
    BY WidthsEven
  <2>3. \A r \in rollups' : r \in rollups \/ r.width = rollupInterval
    BY <1>1, RollupWrites DEF Fresh
  <2> QED  BY <2>1, <2>2, <2>3 DEF OneWidth
<1>2. CASE StartCleaning \/ DeleteRollupsBefore \/ BreakOff
  <2>1. /\ rollups' \subseteq rollups /\ UNCHANGED <<config, resized>>
        /\ rollupInterval' \in {0, config.width}
    BY <1>2 DEF StartCleaning, DeleteRollupsBefore, BreakOff, Finish, historyVars
  <2> QED  BY <2>1 DEF OneWidth
<1>3. CASE TimePasses \/ DeleteBefore \/ Read \/ (\E t \in Instants : Save(t)) \/ UNCHANGED vars
  <2>1. UNCHANGED <<rollups, config, rollupInterval, resized>>
    BY <1>3 DEF TimePasses, DeleteBefore, Read, Ask, ReadRollups, Answer, Save, vars, cleanVars,
                historyVars
  <2> QED  BY <2>1 DEF OneWidth
<1>4. ASSUME NEW c \in Configs, Reload(c) PROVE OneWidth'
  <2>1. /\ resized' = (resized \/ c.width # config.width) /\ config' = c
        /\ UNCHANGED <<rollups, rollupInterval>>
    BY <1>4 DEF Reload, cleanVars
  <2>2. ~resized /\ config'.width = config.width
    BY <2>1, Zenon
  <2> QED  BY <2>1, <2>2 DEF OneWidth
<1> QED  BY <1>1, <1>2, <1>3, <1>4 DEF Next, Clean

\* What is set once stays so.
LEMMA HistoryGrows ==
    ASSUME [Next]_vars
    PROVE  ~(brokeOff /\ resized)' => ~(brokeOff /\ resized)
<1>1. CASE BreakOff
  BY <1>1, Zenon DEF BreakOff
<1>2. ASSUME NEW c \in Configs, Reload(c)
      PROVE  ~(brokeOff /\ resized)' => ~(brokeOff /\ resized)
  <2>1. resized' = (resized \/ c.width # config.width) /\ brokeOff' = brokeOff
    BY <1>2 DEF Reload
  <2> QED  BY <2>1, Zenon
<1>3. CASE ~(BreakOff \/ \E c \in Configs : Reload(c))
  <2>1. UNCHANGED <<brokeOff, resized>>
    BY <1>3 DEF Next, Clean, TimePasses, StartCleaning, RollupBefore, DeleteBefore,
                DeleteRollupsBefore, Read, Ask, ReadRollups, Answer, Save, vars, historyVars
  <2> QED  BY <2>1, Zenon
<1> QED  BY <1>1, <1>2, <1>3

LEMMA RowsApartStep == Sound /\ Kept /\ Once /\ [Next]_vars => RowsApart'
<1> SUFFICES ASSUME Sound, Kept, Once, [Next]_vars, ~(brokeOff /\ resized)' PROVE RowsApart'
  BY DEF RowsApart
<1>1. ~(brokeOff /\ resized)
  BY HistoryGrows
<1>2. CASE query'.rows \in SUBSET query.rows
  BY <1>1, <1>2 DEF Once, RowsApart
<1>3. CASE ReadRollups
  <2>1. query'.rows \subseteq rollups
    BY <1>3, ReadFields DEF RollupRows
  <2> SUFFICES ASSUME NEW r \in rollups, NEW q \in rollups, NEW t \in r.of \cap q.of
               PROVE  r = q
    BY <2>1 DEF RowsApart
  <2>2. CASE ~brokeOff
    BY <2>2 DEF Once, NoOverlap
  <2>3. CASE ~resized
    <3>1. r.width = config.width /\ q.width = config.width
      BY <2>3 DEF Once, OneWidth
    <3>2. r.bucket = Bucket(t, config.width) /\ q.bucket = Bucket(t, config.width)
      BY <3>1 DEF Sound, Honest
    <3> QED  BY <3>1, <3>2 DEF Kept, Keyed
  <2> QED  BY <1>1, <2>2, <2>3
<1>4. CASE Answer \/ \E range \in Ranges : Ask(range)
  <2>1. query'.rows = {}
    BY <1>4, AskedFields, AnsweredFields
  <2> QED  BY <1>2, <2>1
<1>5. ASSUME NEW t \in Instants, Save(t) PROVE RowsApart'
  BY <1>2, <1>5, SavedFields
<1>6. CASE ~(Read \/ \E t \in Instants : Save(t))
  <2>1. query' = query
    BY <1>6 DEF Next, Clean, TimePasses, StartCleaning, RollupBefore, DeleteBefore,
                DeleteRollupsBefore, BreakOff, Reload, vars
  <2> QED  BY <1>2, <2>1
<1> QED  BY <1>3, <1>4, <1>5, <1>6 DEF Read

LEMMA OnceAlways == Spec => []Once
<1>1. Init => Once
  BY OnceInit
<1>2. Sound /\ Kept /\ Once /\ [Next]_vars => Once'
  BY NoOverlapStep, OneWidthStep, RowsApartStep DEF Once
<1> QED  BY <1>1, <1>2, SoundAlways, KeptAlways, PTL DEF Spec

\* A whole result that a row counts is before every cutoff that no cleaning has overtaken.
LEMMA CountedBefore ==
    ASSUME Sound, Due, NEW r \in rollups \cup query.rows, NEW t \in r.of, Whole(t),
           NEW c \in Int, swept <= c
    PROVE  /\ TextBefore(t, c) /\ TextBefore(r.bucket, c)
           /\ r.width \in Widths /\ r.bucket = Bucket(t, r.width)
<1>1. r.width \in Widths /\ r.bucket \in Int /\ r.bucket = Bucket(t, r.width) /\ t \in Int
  BY SavedAreInstants DEF Sound, Honest, Rows
<1>2. r.width \in Nat \ {0} /\ r.width % 2 = 0 /\ r.bucket % 2 = 0
  BY <1>1, WidthsEven, BucketEven
<1>3. End(r) \in Int /\ End(r) % 2 = 0
  BY <1>1, <1>2 DEF End
<1>4. t < End(r) /\ r.bucket < End(r)
  <2>1. t < r.bucket + r.width
    BY <1>1, <1>2, BucketHolds
  <2> QED  BY <1>1, <1>2, <2>1 DEF End
<1>5. End(r) <= c
  <2>1. OnTime(r)
    BY <1>1, WholeOnTime
  <2>2. End(r) <= swept /\ swept \in Int
    BY <2>1 DEF Due, Sound
  <2> QED  BY <1>3, <2>2
<1> QED  BY <1>1, <1>3, <1>4, <1>5, BeforeEvenBefore

LEMMA NotBehind ==
    ASSUME Sound, ~Behind
    PROVE  query.cutoff \in Int /\ swept <= query.cutoff
<1>1. query.cutoff \in Int /\ swept \in Int
  BY DEF Sound, Queries
<1> QED  BY <1>1 DEF Behind

\* No answer counts a result twice, unless its bucket is torn, the query lies behind a
\* cleaning that has not deleted yet or one broke off before it did, or the interval was
\* changed beside one that broke off.  The retention may change at any moment.
THEOREM AnsweredOnceAlways == Spec => []AnsweredOnce
<1>1. ASSUME Sound, Due, Once PROVE AnsweredOnce
  <2> SUFFICES ASSUME query.stage = "raw", Behind => ~brokeOff /\ pc # "delete",
                      ~(brokeOff /\ resized), NEW t \in saved, Whole(t)
               PROVE  TimesAnswered(t) <= 1
    BY DEF AnsweredOnce
  <2> DEFINE C == {r \in query.rows : t \in r.of}
  <2>1. \A r, q \in C : r = q
    BY <1>1 DEF Once, RowsApart
  <2>2. CASE C = {}
    <3>1. Cardinality(C) = 0
      BY <2>2, FS_EmptySet
    <3> QED  BY <3>1 DEF TimesAnswered
  <2>3. CASE C # {}
    <3>1. PICK r \in query.rows : t \in r.of
      BY <2>3
    <3>2. C = {r}
      BY <2>1, <3>1
    <3>3. Cardinality(C) = 1
      BY <3>2, FS_Singleton
    <3>4. t \notin RawRows
      <4>1. CASE Behind
        BY <1>1, <3>1, <4>1 DEF Once, NoOverlap, RawRows
      <4>2. CASE ~Behind
        BY <1>1, <3>1, <4>2, NotBehind, CountedBefore DEF RawRows
      <4> QED  BY <4>1, <4>2
    <3> QED  BY <3>3, <3>4 DEF TimesAnswered
  <2> QED  BY <2>2, <2>3
<1>2. Kept => Due
  BY DEF Kept
<1> QED  BY <1>1, <1>2, SoundAlways, KeptAlways, OnceAlways, PTL

\* Only a cleaning that starts moves the history, and it moves it on.
LEMMA SweptGrows ==
    ASSUME Sound, [Next]_vars
    PROVE  /\ swept' \in Int /\ swept <= swept'
           /\ expired' \in Int /\ expired <= expired'
<1>1. swept \in Int /\ expired \in Int
  BY DEF Sound
<1>2. CASE StartCleaning
  BY <1>2, StartedFields
<1>3. CASE ~StartCleaning
  <2>1. swept' = swept /\ expired' = expired
    BY <1>3 DEF Next, Clean, Read, TimePasses, RollupBefore, DeleteBefore, DeleteRollupsBefore,
                BreakOff, Ask, ReadRollups, Answer, Save, Reload, vars, historyVars
  <2> QED  BY <1>1, <2>1
<1> QED  BY <1>2, <1>3

\* The query is put, or reads the rollups: whatever is kept is in one of the tables, and
\* its row is one of those the query reads.
LEMMA AnsweringAsked ==
    ASSUME Sound, Kept, NEW range \in Ranges, Ask(range)
    PROVE  Answering'
<1> SUFFICES ASSUME query'.stage = "raw" PROVE Answering'
  BY DEF Answering
<1>1. /\ UNCHANGED <<raw, rollups, saved, swept, expired, late, torn>>
      /\ query'.since = query'.cutoff /\ query'.cutoff \in Int
  BY AskedFields DEF Ask, historyVars, Queries
<1>2. ASSUME NEW t \in Owed \ late, Whole(t), InRange(t)', ~Behind'
      PROVE  t \in raw
  <2> SUFFICES ASSUME t \notin raw PROVE FALSE
    OBVIOUS
  <2>1. PICK r \in rollups : t \in r.of
    BY <1>2 DEF Kept, KeptUnlessTorn, Counted
  <2>2. swept <= query'.cutoff
    <3>1. swept \in Int
      BY DEF Sound
    <3> QED  BY <1>1, <1>2, <3>1 DEF Behind
  <2>3. TextBefore(t, query'.cutoff)
    BY <1>1, <1>2, <2>1, <2>2, CountedBefore DEF Kept
  <2> QED  BY <1>1, <1>2, <2>3 DEF InRange
<1> QED  BY <1>1, <1>2 DEF Answering, InRange, Owed, Whole, Seen

LEMMA AnsweringRead ==
    ASSUME Sound, Kept, ReadRollups
    PROVE  Answering'
<1>1. /\ UNCHANGED <<raw, rollups, saved, swept, expired, late, torn>>
      /\ query'.rows = RollupRows /\ query'.gap = {t \in raw : TextBefore(t, query.cutoff)}
      /\ query'.since = query.since /\ query'.cutoff = query.cutoff
      /\ query.since < query.cutoff
  BY ReadFields DEF ReadRollups, historyVars, Sound
<1>2. ASSUME NEW t \in Owed \ late, Whole(t), BeginsInRange(t), ~Behind, t \notin raw
      PROVE  \E r \in RollupRows : t \in r.of
  <2>1. PICK r \in rollups : t \in r.of
    BY <1>2 DEF Kept, KeptUnlessTorn, Counted
  <2>2. /\ TextBefore(r.bucket, query.cutoff)
        /\ r.width \in Widths /\ r.bucket = Bucket(t, r.width)
    BY <1>2, <2>1, NotBehind, CountedBefore DEF Kept
  <2>3. ~TextBefore(r.bucket, query.since)
    BY <1>1, <1>2, <2>2 DEF BeginsInRange
  <2> QED  BY <2>1, <2>2, <2>3 DEF RollupRows
<1> QED  BY <1>1, <1>2 DEF Answering, Owed, Whole, InRange, BeginsInRange, Behind, Seen

\* The raw results that the deletion takes from under a query have been counted, so they
\* are older than its cutoff.
LEMMA AnsweringDelete ==
    ASSUME Sound, Kept, Answering, DeleteBefore
    PROVE  Answering'
<1> SUFFICES ASSUME query.stage = "raw" PROVE Answering'
  BY DEF DeleteBefore, Answering
<1>1. /\ pc = "delete" /\ raw' = raw \ Selected
      /\ UNCHANGED <<rollups, query, saved, swept, expired, late, torn>>
  BY DEF DeleteBefore, historyVars
<1>2. ASSUME NEW t \in (Owed \ late) \ (query.gap \cup query.came), Whole(t), InRange(t),
             ~Behind, t \in Selected
      PROVE  FALSE
  <2>1. t \in raw \ late
    BY <1>2 DEF Selected
  <2>2. PICK r \in rollups : t \in r.of
    BY <1>1, <1>2, <2>1 DEF Kept, Covered, Counted, Selected
  <2>3. TextBefore(t, query.cutoff)
    BY <1>2, <2>2, NotBehind, CountedBefore DEF Kept
  <2> QED  BY <1>2, <2>1, <2>3 DEF Answering
<1> QED  BY <1>1, <1>2 DEF Answering, Owed, Whole, InRange, BeginsInRange, Behind, Seen

LEMMA AnsweringSave ==
    ASSUME Sound, Answering, NEW t \in Instants, Save(t)
    PROVE  Answering'
<1> SUFFICES ASSUME query.stage = "raw" PROVE Answering'
  BY SavedFields DEF Answering
<1>1. /\ raw' = raw \cup {t} /\ saved' = saved \cup {t} /\ late \subseteq late'
      /\ UNCHANGED <<swept, expired, torn>>
  BY DEF Save
<1>2. /\ query'.rows = query.rows /\ query'.gap = query.gap /\ query.came \subseteq query'.came
      /\ query'.since = query.since /\ query'.cutoff = query.cutoff
      /\ query.since < query.cutoff /\ TextBefore(t, query.cutoff) => t \in query'.came
  BY SavedFields
<1>3. t \in query'.came \/ (InRange(t) => ~TextBefore(t, query.cutoff))
  <2>1. CASE query.since < query.cutoff
    BY <1>2, <2>1
  <2>2. CASE ~(query.since < query.cutoff)
    <3>1. query.since \in Int /\ query.cutoff \in Int /\ query.since <= query.cutoff
      BY DEF Sound, Queries
    <3>2. query.since = query.cutoff
      BY <2>2, <3>1
    <3> QED  BY <3>2 DEF InRange
  <2> QED  BY <2>1, <2>2
<1> QED  BY <1>1, <1>2, <1>3 DEF Answering, Owed, Whole, InRange, BeginsInRange, Behind, Seen

\* The other steps leave the raw results and the query alone; the history only grows.
LEMMA AnsweringElsewhere ==
    ASSUME Sound, Answering, UNCHANGED <<raw, query, saved, late>>, torn \subseteq torn',
           swept' \in Int, swept <= swept', expired' \in Int, expired <= expired'
    PROVE  Answering'
<1> SUFFICES ASSUME query.stage = "raw" PROVE Answering'
  BY DEF Answering
<1>1. Owed' \subseteq Owed
  <2> SUFFICES ASSUME NEW t \in saved, NEW w \in Widths, Bucket(t, w) >= expired'
               PROVE  Bucket(t, w) >= expired
    BY DEF Owed
  <2>1. Bucket(t, w) \in Int /\ expired \in Int
    BY BucketHolds, WidthsEven, SavedAreInstants DEF Sound
  <2> QED  BY <2>1
<1>2. Behind => Behind'
  <2>1. query.cutoff \in Int /\ swept \in Int
    BY DEF Sound, Queries
  <2> QED  BY <2>1 DEF Behind
<1> QED  BY <1>1, <1>2 DEF Answering, Whole, InRange, BeginsInRange, Seen

LEMMA AnsweringStep == Sound /\ Kept /\ Answering /\ [Next]_vars => Answering'
<1> SUFFICES ASSUME Sound, Kept, Answering, [Next]_vars PROVE Answering'
  OBVIOUS
<1>1. ASSUME NEW range \in Ranges, Ask(range) PROVE Answering'
  BY <1>1, AnsweringAsked
<1>2. CASE ReadRollups
  BY <1>2, AnsweringRead
<1>3. CASE Answer
  BY <1>3, AnsweredFields DEF Answering
<1>4. CASE DeleteBefore
  BY <1>4, AnsweringDelete
<1>5. ASSUME NEW t \in Instants, Save(t) PROVE Answering'
  BY <1>5, AnsweringSave
<1>6. CASE ~(Read \/ DeleteBefore \/ \E t \in Instants : Save(t))
  <2>1. UNCHANGED <<raw, query, saved, late>> /\ torn \subseteq torn'
    <3>1. CASE RollupBefore
      BY <3>1, RollupWrites DEF RollupBefore
    <3>2. CASE ~RollupBefore
      BY <1>6, <3>2 DEF Next, Clean, TimePasses, StartCleaning, DeleteRollupsBefore, BreakOff,
                        Reload, vars, historyVars
    <3> QED  BY <3>1, <3>2
  <2> QED  BY <2>1, SweptGrows, AnsweringElsewhere
<1> QED  BY <1>1, <1>2, <1>3, <1>4, <1>5, <1>6 DEF Read

LEMMA AnsweringAlways == Spec => []Answering
<1>1. Init => Answering
  BY OnceInit
<1>2. Sound /\ Kept /\ Answering /\ [Next]_vars => Answering'
  BY AnsweringStep
<1> QED  BY <1>1, <1>2, SoundAlways, KeptAlways, PTL DEF Spec

\* An answer counts every result of its range that has to be kept, whatever the retention
\* was and becomes, but for those in the gap between the query's cutoff and that of the
\* last cleaning, those that come meanwhile behind the cutoff, those whose bucket began
\* before the range, late results, torn buckets, and a query behind a cleaning.
THEOREM AnswersAllButGapAlways == Spec => []AnswersAllButGap
<1>1. ASSUME Sound, Answering PROVE AnswersAllButGap
  <2> SUFFICES ASSUME query.stage = "raw", ~Behind,
                      NEW t \in Owed \ late, Whole(t), InRange(t), BeginsInRange(t),
                      t \notin query.gap \cup query.came
               PROVE  TimesAnswered(t) >= 1
    BY DEF AnswersAllButGap
  <2> DEFINE C == {r \in query.rows : t \in r.of}
  <2>1. IsFiniteSet(C) /\ Cardinality(C) \in Nat
    <3>1. IsFiniteSet(query.rows) /\ C \in SUBSET query.rows
      BY <1>1 DEF Sound, Honest
    <3> HIDE DEF C
    <3> QED  BY <3>1, FS_Subset, FS_CardinalityType
  <2>2. CASE t \in RawRows
    BY <2>1, <2>2 DEF TimesAnswered
  <2>3. CASE t \notin RawRows
    <3>1. t \notin raw
      BY <1>1, <2>3 DEF Answering, RawRows
    <3>2. C # {}
      BY <1>1, <3>1 DEF Answering, Seen
    <3>3. Cardinality(C) # 0
      <4> HIDE DEF C
      <4> QED  BY <2>1, <3>2, FS_EmptySet
    <3> QED  BY <2>1, <2>3, <3>3 DEF TimesAnswered
  <2> QED  BY <2>2, <2>3
<1> QED  BY <1>1, SoundAlways, AnsweringAlways, PTL
=============================================================================
