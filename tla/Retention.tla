----------------------------- MODULE Retention -----------------------------
(***************************************************************************)
(* The retention cleaner of the supervisor (cleanOldData) on the results   *)
(* of one series, while reports keep arriving, queries keep reading and    *)
(* the configuration is reloaded.                                          *)
(*                                                                         *)
(* Once a day it rolls the raw results older than raw_retention_days up    *)
(* into one row per bucket, deletes them, and deletes the rollups older    *)
(* than retention_days: three transactions, any of which may be the last   *)
(* one that happens.  It reads the configuration once; every query reads   *)
(* the configuration of its own moment.                                    *)
(*                                                                         *)
(* Times are stored and compared as RFC3339Nano text, which has no         *)
(* fraction when it is zero.  A tick is half a second: even instants are   *)
(* whole seconds, odd ones have a fraction.  Since "." sorts before "Z",   *)
(* "10:00:00.5Z" comes before "10:00:00Z".                                 *)
(*                                                                         *)
(* A result is named by the instant it was checked at.                     *)
(***************************************************************************)
EXTENDS Integers, FiniteSets

CONSTANTS
    Configs,     \* the configurations the file takes: raw_retention_days,
                 \* retention_days and rollup_interval_minutes, as raw, full and width
    Ranges,      \* the ranges queries ask for
    Phase,       \* how far time.Truncate's grid lies behind that of the buckets
    Ahead,       \* how far checked_at may lie in the future (10 minutes)
    Horizon,     \* bound: the last instant
    MaxResults,  \* bound: results saved
    MaxReloads,  \* bound: reloads of the configuration
    MaxFaults    \* bound: failed statements and restarts

\* What applyDefaults makes of a configuration; an interval is whole minutes.
Config == [raw : Nat \ {0}, full : Nat, width : {w \in Nat \ {0} : w % 2 = 0}]

ASSUME RetentionAssumption ==
    /\ Configs \subseteq {c \in Config : c.raw <= c.full} /\ Configs # {}
    /\ Ranges \subseteq Nat
    /\ Phase \in Nat /\ Phase % 2 = 0
    /\ Ahead \in Nat /\ Horizon \in Nat
    /\ MaxResults \in Nat /\ MaxReloads \in Nat /\ MaxFaults \in Nat

VARIABLES
    now,              \* the clock
    config,           \* the configuration in force
    raw,              \* table results
    rollups,          \* table result_rollups: bucket, interval and the results it counts
    pc,               \* the cleaner's next statement
    rawCutoff,        \* what this cleaning took from the clock and the configuration
    retentionCutoff,
    rollupInterval,
    query,            \* a query: its stage, the start of its range, its cutoff, the rollups
                      \* it has read; history: the raw results before its cutoff, those that
                      \* were there when it read the rollups and those that came later
    saved,            \* history: every result ever saved
    swept,            \* history: the latest rawCutoff of any cleaning
    expired,          \* history: the latest retentionCutoff of any cleaning
    late,             \* history: the results older than swept when they arrived
    torn,             \* history: buckets rolled up before their end was due
    brokeOff,         \* history: some cleaning ended between its rollup and its deletion
    resized,          \* history: the interval was changed
    reloads,          \* history: reloads so far
    faults            \* history: failed statements and restarts so far

cleanVars == <<pc, rawCutoff, retentionCutoff, rollupInterval>>
historyVars == <<saved, swept, expired, late, torn, brokeOff, resized, reloads, faults>>
vars == <<now, config, raw, rollups, cleanVars, query, historyVars>>

Instants == 0 .. Horizon

Widths == {c.width : c \in Configs}

Second(t) == t \div 2

\* t < c, as SQLite compares the two texts.
TextBefore(t, c) ==
    \/ Second(t) < Second(c)
    \/ Second(t) = Second(c) /\ t % 2 = 1 /\ c % 2 = 0

\* The start of the bucket: (unixepoch(checked_at) / seconds) * seconds.
Bucket(t, w) == (t \div w) * w

\* time.Truncate, which counts from the year 1.
Truncate(t, w) == ((t + Phase) \div w) * w - Phase

\* a, or b if it is later.
Later(a, b) == IF a < b THEN b ELSE a

NoCleaning == pc = "idle" /\ rawCutoff = 0 /\ retentionCutoff = 0 /\ rollupInterval = 0

NoQuery == [stage |-> "none", since |-> 0, cutoff |-> 0, rows |-> {}, gap |-> {}, came |-> {}]

\* The cleaning at start-up has found nothing.
Init ==
    /\ now = 0 /\ config \in Configs
    /\ raw = {} /\ rollups = {}
    /\ NoCleaning
    /\ query = NoQuery
    /\ saved = {} /\ swept = 0 - config.raw /\ expired = 0 - config.full
    /\ late = {} /\ torn = {} /\ brokeOff = FALSE /\ resized = FALSE
    /\ reloads = 0 /\ faults = 0
----------------------------------------------------------------------------
TimePasses ==
    /\ now < Horizon
    /\ now' = now + 1
    /\ UNCHANGED <<config, raw, rollups, cleanVars, query, historyVars>>

\* handleReport stores a result: one that waited in the agent's queue may be old.
Save(t) ==
    /\ t \notin saved /\ Cardinality(saved) < MaxResults
    /\ now - config.full <= t /\ t <= now + Ahead
    /\ raw' = raw \cup {t}
    /\ saved' = saved \cup {t}
    /\ late' = IF Second(t) <= Second(swept) THEN late \cup {t} ELSE late
    /\ query' = IF /\ query.stage = "raw" /\ query.since < query.cutoff
                  /\ TextBefore(t, query.cutoff)
               THEN [query EXCEPT !.came = @ \cup {t}] ELSE query
    /\ UNCHANGED <<now, config, rollups, cleanVars, swept, expired, torn, brokeOff, resized,
                   reloads, faults>>

\* applyReloadedConfig replaces the configuration; a cleaning under way goes on with what
\* it has read.
Reload(c) ==
    /\ c # config /\ reloads < MaxReloads
    /\ config' = c
    /\ resized' = (resized \/ c.width # config.width)
    /\ reloads' = reloads + 1
    /\ UNCHANGED <<now, raw, rollups, cleanVars, query, saved, swept, expired, late, torn,
                   brokeOff, faults>>

\* cleanOldData reads the clock and the configuration, once.
StartCleaning ==
    /\ pc = "idle"
    /\ pc' = "rollup"
    /\ rawCutoff' = now - config.raw
    /\ retentionCutoff' = now - config.full
    /\ rollupInterval' = config.width
    /\ swept' = Later(swept, now - config.raw)
    /\ expired' = Later(expired, now - config.full)
    /\ UNCHANGED <<now, config, raw, rollups, query, saved, late, torn, brokeOff, resized,
                   reloads, faults>>

\* RollupBefore rounds its cutoff down (truncateUTC), and rawDeleteCutoff is the same.
DeleteCutoff == Truncate(rawCutoff, rollupInterval)

Selected == {t \in raw : TextBefore(t, DeleteCutoff)}

\* Faulty variant: the rows are not grouped, every new bucket counts all of them.
RollupUngrouped ==
    /\ pc = "rollup"
    /\ LET due == {Bucket(t, rollupInterval) : t \in Selected}
           new == {b \in due : \A r \in rollups : <<r.bucket, r.width>> # <<b, rollupInterval>>}
       IN  /\ rollups' = rollups \cup
                         {[bucket |-> b, width |-> rollupInterval,
                           of |-> Selected] : b \in new}
           /\ torn' = torn \cup {<<b, rollupInterval>> :
                                 b \in {d \in new : d + rollupInterval > DeleteCutoff}}
    /\ pc' = "delete"
    /\ UNCHANGED <<now, config, raw, rawCutoff, retentionCutoff, rollupInterval, query, saved,
                   swept, expired, late, brokeOff, resized, reloads, faults>>

\* RollupBefore: INSERT OR IGNORE, so a bucket that is already there stays as it is.
RollupBefore ==
    /\ pc = "rollup"
    /\ LET due == {Bucket(t, rollupInterval) : t \in Selected}
           new == {b \in due : \A r \in rollups : <<r.bucket, r.width>> # <<b, rollupInterval>>}
       IN  /\ rollups' = rollups \cup
                         {[bucket |-> b, width |-> rollupInterval,
                           of |-> {t \in Selected : Bucket(t, rollupInterval) = b}] : b \in new}
           /\ torn' = torn \cup {<<b, rollupInterval>> :
                                 b \in {d \in new : d + rollupInterval > DeleteCutoff}}
    /\ pc' = "delete"
    /\ UNCHANGED <<now, config, raw, rawCutoff, retentionCutoff, rollupInterval, query, saved,
                   swept, expired, late, brokeOff, resized, reloads, faults>>

\* Faulty variant: the deletion's cutoff is not rounded down to a bucket.
DeleteUnrounded ==
    /\ pc = "delete"
    /\ raw' = {t \in raw : ~TextBefore(t, rawCutoff)}
    /\ pc' = "expire"
    /\ UNCHANGED <<now, config, rollups, rawCutoff, retentionCutoff, rollupInterval, query,
                   historyVars>>

DeleteBefore ==
    /\ pc = "delete"
    /\ raw' = raw \ Selected
    /\ pc' = "expire"
    /\ UNCHANGED <<now, config, rollups, rawCutoff, retentionCutoff, rollupInterval, query,
                   historyVars>>

Finish == pc' = "idle" /\ rawCutoff' = 0 /\ retentionCutoff' = 0 /\ rollupInterval' = 0

\* DeleteRollupsBefore, with a cutoff that is not rounded.
DeleteRollupsBefore ==
    /\ pc = "expire"
    /\ rollups' = {r \in rollups : ~TextBefore(r.bucket, retentionCutoff)}
    /\ Finish
    /\ UNCHANGED <<now, config, raw, query, historyVars>>

\* A statement fails and cleanOldData returns, or the supervisor stops.  The next
\* cleaning starts from the beginning.
BreakOff ==
    /\ pc # "idle"
    /\ faults < MaxFaults
    /\ faults' = faults + 1
    /\ brokeOff' = (brokeOff \/ pc = "delete")
    /\ Finish
    /\ UNCHANGED <<now, config, raw, rollups, query, saved, swept, expired, late, torn, resized,
                   reloads>>

\* resultsSince.  The cutoff is taken from the clock and the configuration and is not
\* rounded; a range that starts after it needs the raw results alone.
Ask(range) ==
    /\ query.stage = "none"
    /\ LET since == now - range
           from == now - config.raw
       IN  query' = [stage |-> IF since < from THEN "rollups" ELSE "raw",
                     since |-> since, cutoff |-> Later(since, from), rows |-> {}, gap |-> {},
                     came |-> {}]
    /\ UNCHANGED <<now, config, raw, rollups, cleanVars, historyVars>>

\* Faulty variant: the buckets that end before the cutoff.
RollupRowsEnded ==
    {r \in rollups : ~TextBefore(r.bucket, query.since)
                     /\ TextBefore(r.bucket + r.width, query.cutoff)}

\* The rollups that begin in the range and before the cutoff.
RollupRows ==
    {r \in rollups : ~TextBefore(r.bucket, query.since) /\ TextBefore(r.bucket, query.cutoff)}

\* rollupsSince.
ReadRollups ==
    /\ query.stage = "rollups"
    /\ query' = [query EXCEPT !.stage = "raw",
                  !.rows = RollupRows,
                  !.gap = {t \in raw : TextBefore(t, query.cutoff)}]
    /\ UNCHANGED <<now, config, raw, rollups, cleanVars, historyVars>>

\* Faulty variant: the raw results are read without a cutoff.
AllRawRows == {t \in raw : t >= 0}

\* ResultsSince: the raw results from the cutoff on.
RawRows == {t \in raw : ~TextBefore(t, query.cutoff)}

\* The answer is query.rows and RawRows.
Answer ==
    /\ query.stage = "raw"
    /\ query' = NoQuery
    /\ UNCHANGED <<now, config, raw, rollups, cleanVars, historyVars>>

Read == (\E range \in Ranges : Ask(range)) \/ ReadRollups \/ Answer

Clean == StartCleaning \/ RollupBefore \/ DeleteBefore \/ DeleteRollupsBefore

Next ==
    \/ TimePasses \/ Clean \/ BreakOff \/ Read
    \/ \E t \in Instants : Save(t)
    \/ \E c \in Configs : Reload(c)

Spec == Init /\ [][Next]_vars
----------------------------------------------------------------------------
(* Properties. *)

Counted == UNION {r.of : r \in rollups}

\* Every variable has its type; a rollup counts results of its own bucket, and no cleaning
\* works with a cutoff in the future.
TypeOK ==
    /\ now \in Instants /\ config \in Configs
    /\ raw \subseteq saved /\ saved \subseteq Instants /\ late \subseteq saved
    /\ \A r \in rollups :
         /\ r.width \in Widths
         /\ r.of # {} /\ r.of \subseteq saved
         /\ \A t \in r.of : Bucket(t, r.width) = r.bucket
    /\ pc \in {"idle", "rollup", "delete", "expire"}
    /\ pc # "idle" => /\ rawCutoff <= swept /\ retentionCutoff <= expired
                      /\ rollupInterval \in Widths
    /\ swept < now /\ expired <= swept
    /\ query.stage \in {"none", "rollups", "raw"}
    /\ query.since <= query.cutoff /\ query.cutoff <= now
    /\ brokeOff \in BOOLEAN /\ resized \in BOOLEAN
    /\ reloads \in 0 .. MaxReloads /\ faults \in 0 .. MaxFaults

\* Results that have to be kept, in one form or the other: whatever the interval, the
\* bucket they belong to has not been older than retention_days at any cleaning.
Owed == {t \in saved : \A w \in Widths : Bucket(t, w) >= expired}

\* README.md:133: results older than raw_retention_days are first rolled up and only
\* then deleted.  A result that arrived in time is in the raw table or in a rollup.
KeptUntilExpiry == Owed \ late \subseteq raw \cup Counted

\* No bucket the result may belong to was rolled up too early.
Whole(t) == \A w \in Widths : <<Bucket(t, w), w>> \notin torn

\* So it is, however the retention changes, unless its bucket was rolled up before the end
\* of the bucket was due: then the next cleaning leaves that row as it is and deletes the
\* other results.
KeptUnlessTorn == {t \in Owed \ late : Whole(t)} \subseteq raw \cup Counted

\* The number of rows of the answer that count result t.
TimesAnswered(t) ==
    Cardinality({r \in query.rows : t \in r.of}) + (IF t \in RawRows THEN 1 ELSE 0)

\* A cleaning has worked with a later cutoff than the query: it began after the query, or
\* raw_retention_days was raised after it.
Behind == query.cutoff < swept

\* No answer counts a result twice, even during a cleaning or after one that broke off
\* between its rollup and its deletion.  It may when the query lies behind a cleaning that
\* has not deleted yet or one broke off there, and when the interval was changed beside
\* one that broke off.
AnsweredOnce ==
    /\ query.stage = "raw"
    /\ Behind => ~brokeOff /\ pc # "delete"
    /\ ~(brokeOff /\ resized)
    => \A t \in saved : Whole(t) => TimesAnswered(t) <= 1

InRange(t) == ~TextBefore(t, query.since)

\* README.md:120: /api/results returns the results of the range asked for.  An answer
\* counts every raw result of the range that is in the database when it is given; late
\* arrivals, what came while the query was under way, and the seconds of the range's start
\* and of the cutoff, where the order of the texts decides, are left aside.
AnswersEverything ==
    query.stage = "raw" =>
        \A t \in raw \ (late \cup query.came) :
            InRange(t) /\ Second(t) \notin {Second(query.since), Second(query.cutoff)}
                => TimesAnswered(t) >= 1

\* Where rollups are read, a result is one of them only if its bucket begins in the range.
BeginsInRange(t) ==
    query.since < query.cutoff => \A w \in Widths : ~TextBefore(Bucket(t, w), query.since)

\* What the code makes of it: an answer counts every result of its range that has to be
\* kept, rolled up or not, but for those in the gap, which are in the raw table when the
\* rollups are read, or come later, though they are older than the query's cutoff, and
\* those whose bucket began before the range.  Left aside are late results, torn buckets,
\* and a query behind a cleaning.
AnswersAllButGap ==
    query.stage = "raw" /\ ~Behind =>
        \A t \in Owed \ late :
            Whole(t) /\ InRange(t) /\ BeginsInRange(t) /\ t \notin query.gap \cup query.came
                => TimesAnswered(t) >= 1
============================================================================
