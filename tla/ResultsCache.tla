---------------------------- MODULE ResultsCache ----------------------------
(***************************************************************************)
(* The supervisor's cache of encoded answers (resultsCache), with the      *)
(* handlers that fill it and those that clear it.                          *)
(*                                                                         *)
(* A reader asks the cache, and on a miss reads the store, encodes the     *)
(* answer and puts it into the cache.  A writer (a report, a deletion, a   *)
(* cleaning) commits first and clears the cache afterwards.  Nothing keeps *)
(* the two apart but the cache's own mutex.                                *)
(*                                                                         *)
(* The content of the store is a version number, that of an answer its     *)
(* size and the version at the first statement of the read: a dashboard's  *)
(* answer is read in many (StreamWindows), none of which sees less.  A hit *)
(* changes nothing and is no action.                                       *)
(***************************************************************************)
EXTENDS Integers, FiniteSets, Functions

CONSTANTS
    Keys,         \* range, agent and kind of an answer
    Readers,      \* concurrent handleResults calls
    Writers,      \* concurrent calls that change the store
    NoOne,        \* no reader
    TTL,          \* resultsCacheTTL
    MaxEntries,   \* resultsCacheMaxEntries
    MaxBytes,     \* resultsCacheMaxBytes
    Sizes,        \* sizes of answers
    MaxVersion,   \* bound: changes of the store
    Horizon       \* bound: the last instant

ASSUME CacheAssumption ==
    /\ NoOne \notin Readers
    /\ TTL \in Nat \ {0} /\ MaxEntries \in Nat \ {0} /\ MaxBytes \in Nat \ {0}
    /\ Sizes \subseteq Nat \ {0}        \* an answer is JSON, "null" at least
    /\ MaxVersion \in Nat /\ Horizon \in Nat

VARIABLES
    now,        \* the clock
    db,         \* version of the store
    cleared,    \* history: version of the store at the last clear
    entries,    \* c.entries
    bytes,      \* c.bytes
    lock,       \* the reader that holds c.mu inside set
    request,    \* what each reader is doing
    pc          \* where each writer stands

cacheVars == <<entries, bytes, lock>>
vars == <<now, db, cleared, cacheVars, request, pc>>

NoRequest == [stage |-> "idle"]

Init ==
    /\ now = 0 /\ db = 0 /\ cleared = 0
    /\ entries = << >> /\ bytes = 0 /\ lock = NoOne
    /\ request = [r \in Readers |-> NoRequest]
    /\ pc = [w \in Writers |-> "idle"]

Cached == DOMAIN entries

\* The number of bytes of the entries under keys S, each byte a key and a place.
SizeOf(S) == Cardinality(UNION {{k} \X (1 .. entries[k].size) : k \in S})

\* The cache is left with the entries under keys S.
KeepOnly(S) ==
    /\ entries' = Restrict(entries, S)
    /\ bytes' = bytes - SizeOf(Cached \ S)

Move(r, stage) == request' = [request EXCEPT ![r].stage = stage]
Finish(r) == request' = [request EXCEPT ![r] = NoRequest]
----------------------------------------------------------------------------
(* Readers. *)

\* get finds no entry, or one that has expired.
Miss(r, k) ==
    /\ request[r] = NoRequest /\ lock = NoOne
    /\ k \in Cached => now > entries[k].expires
    /\ request' = [request EXCEPT ![r] =
                     [stage |-> IF k \in Cached THEN "purge" ELSE "read", key |-> k, asked |-> now]]
    /\ UNCHANGED <<now, db, cleared, cacheVars, pc>>

\* Faulty variant: the entry is removed without a second look.
PurgeUnchecked(r) ==
    /\ request[r].stage = "purge" /\ lock = NoOne
    /\ KeepOnly(Cached \ {request[r].key})
    /\ Move(r, "read")
    /\ UNCHANGED <<now, db, cleared, lock, pc>>

\* get drops the lock for reading before it takes the one for writing, and looks again.
Purge(r) ==
    /\ request[r].stage = "purge" /\ lock = NoOne
    /\ KeepOnly({k \in Cached : k = request[r].key => request[r].asked <= entries[k].expires})
    /\ Move(r, "read")
    /\ UNCHANGED <<now, db, cleared, lock, pc>>

\* resultsSince or dashboardResultsData, and the encoding of the answer.
Read(r, size) ==
    /\ request[r].stage = "read"
    /\ request' = [request EXCEPT ![r] =
                     [stage |-> "set", key |-> @.key, size |-> size,
                      version |-> db, overtaken |-> FALSE]]
    /\ UNCHANGED <<now, db, cleared, cacheVars, pc>>

ReadFails(r) ==
    /\ request[r].stage = "read"
    /\ Finish(r)
    /\ UNCHANGED <<now, db, cleared, cacheVars, pc>>

\* set ignores an answer that exceeds the limit alone.
TooLarge(r) ==
    /\ request[r].stage = "set" /\ request[r].size > MaxBytes
    /\ Finish(r)
    /\ UNCHANGED <<now, db, cleared, cacheVars, pc>>

\* Faulty variant of BeginSet: the entry that is replaced stays counted.
BeginSetMiscounts(r) ==
    /\ request[r].stage = "set" /\ request[r].size <= MaxBytes /\ lock = NoOne
    /\ lock' = r
    /\ LET alive == {k \in Cached : now < entries[k].expires}
       IN  /\ entries' = Restrict(entries, alive \ {request[r].key})
           /\ bytes' = bytes - SizeOf(Cached \ alive)
    /\ request' = [request EXCEPT ![r] = [stage |-> "evict", key |-> @.key, size |-> @.size,
                      version |-> @.version, overtaken |-> @.overtaken, began |-> now]]
    /\ UNCHANGED <<now, db, cleared, pc>>

\* set takes the mutex, drops what has expired and the entry it replaces.
BeginSet(r) ==
    /\ request[r].stage = "set" /\ request[r].size <= MaxBytes /\ lock = NoOne
    /\ lock' = r
    /\ KeepOnly({k \in Cached : now < entries[k].expires /\ k # request[r].key})
    /\ request' = [request EXCEPT ![r] = [stage |-> "evict", key |-> @.key, size |-> @.size,
                      version |-> @.version, overtaken |-> @.overtaken, began |-> now]]
    /\ UNCHANGED <<now, db, cleared, pc>>

Fits(r) ==
    Cardinality(Cached) < MaxEntries /\ bytes + request[r].size <= MaxBytes

\* One turn of the loop that makes room: an entry that expires first goes.
Evict(r) ==
    /\ request[r].stage = "evict" /\ ~Fits(r)
    /\ \E k \in Cached :
         /\ \A other \in Cached : entries[k].expires <= entries[other].expires
         /\ KeepOnly(Cached \ {k})
    /\ UNCHANGED <<now, db, cleared, lock, request, pc>>

Entry(r) ==
    [size |-> request[r].size, version |-> request[r].version,
     overtaken |-> request[r].overtaken, expires |-> request[r].began + TTL]

Put(r) ==
    /\ request[r].stage = "evict" /\ Fits(r)
    /\ entries' = [k \in Cached \cup {request[r].key} |->
                     IF k = request[r].key THEN Entry(r) ELSE entries[k]]
    /\ bytes' = bytes + request[r].size
    /\ lock' = NoOne
    /\ Finish(r)
    /\ UNCHANGED <<now, db, cleared, pc>>
----------------------------------------------------------------------------
(* Writers. *)

\* SaveResults, DeleteAgent or a statement of cleanOldData commits, or a new
\* configuration is in force.
Commit(w) ==
    /\ pc[w] = "idle" /\ db < MaxVersion
    /\ db' = db + 1
    /\ pc' = [pc EXCEPT ![w] = "clear"]
    /\ UNCHANGED <<now, cleared, cacheVars, request>>

\* What clear does besides emptying the cache, with the histories.
Cleared(w) ==
    /\ pc[w] = "clear" /\ lock = NoOne
    /\ pc' = [pc EXCEPT ![w] = "idle"]
    /\ cleared' = db
    /\ request' = [r \in Readers |-> IF request[r].stage = "set"
                                     THEN [request[r] EXCEPT !.overtaken = TRUE]
                                     ELSE request[r]]

\* Faulty variants of Clear: the byte count stays, or only expired entries go.
ClearKeepsBytes(w) ==
    /\ Cleared(w)
    /\ entries' = << >>
    /\ UNCHANGED <<now, db, bytes, lock>>

ClearExpired(w) ==
    /\ Cleared(w)
    /\ KeepOnly({k \in Cached : now < entries[k].expires})
    /\ UNCHANGED <<now, db, lock>>

Clear(w) ==
    /\ Cleared(w)
    /\ entries' = << >> /\ bytes' = 0
    /\ UNCHANGED <<now, db, lock>>

\* A cleaning whose later statement fails returns without a clear.
NoClear(w) ==
    /\ pc[w] = "clear"
    /\ pc' = [pc EXCEPT ![w] = "idle"]
    /\ UNCHANGED <<now, db, cleared, cacheVars, request>>

TimePasses ==
    /\ now < Horizon
    /\ now' = now + 1
    /\ UNCHANGED <<db, cleared, cacheVars, request, pc>>

ReaderStep(r) ==
    \/ \E k \in Keys : Miss(r, k)
    \/ \E size \in Sizes : Read(r, size)
    \/ Purge(r) \/ ReadFails(r) \/ TooLarge(r) \/ BeginSet(r) \/ Evict(r) \/ Put(r)

Next ==
    \/ \E r \in Readers : ReaderStep(r)
    \/ \E w \in Writers : Commit(w) \/ Clear(w) \/ NoClear(w)
    \/ TimePasses

Spec == Init /\ [][Next]_vars
----------------------------------------------------------------------------
(* Properties. *)

Versions == 0 .. MaxVersion
Entries == [size : Sizes, version : Versions, overtaken : BOOLEAN, expires : Nat]
Requests ==
    {NoRequest}
    \cup [stage : {"purge", "read"}, key : Keys, asked : Nat]
    \cup [stage : {"set"}, key : Keys, size : Sizes, version : Versions, overtaken : BOOLEAN]
    \cup [stage : {"evict"}, key : Keys, size : Sizes, version : Versions,
          overtaken : BOOLEAN, began : Nat]

\* Every variable has its type, and the mutex is held by the reader that evicts and by
\* no other.
TypeOK ==
    /\ now \in Nat /\ db \in Versions /\ cleared \in 0 .. db
    /\ Cached \subseteq Keys /\ \A k \in Cached : entries[k] \in Entries
    /\ bytes \in Int
    /\ lock \in Readers \cup {NoOne}
    /\ DOMAIN request = Readers /\ \A r \in Readers : request[r] \in Requests
    /\ pc \in [Writers -> {"idle", "clear"}]
    /\ \A r \in Readers : lock = r <=> request[r].stage = "evict"

\* The byte count is that of the entries, after any sequence of purges, replacements,
\* evictions and clears, and neither limit is ever exceeded.
Accounted ==
    /\ bytes = SizeOf(Cached)
    /\ Cardinality(Cached) <= MaxEntries /\ bytes <= MaxBytes

\* The loop that makes room ends: before it runs out of entries, the answer fits.  (With
\* an empty map the code would delete a key that is not there, for ever, with the
\* mutex held.)
EvictionEnds == \A r \in Readers : request[r].stage = "evict" /\ Cached = {} => Fits(r)

\* An entry that is older than the last clear was read before that clear and stored
\* after it: the clear of a report reaches everything else.
FreshUnlessOvertaken ==
    \A k \in Cached : entries[k].version >= cleared \/ entries[k].overtaken

\* An entry that goes away has expired, unless a set evicts or a writer clears.
ExpiredIfGone ==
    \A k \in Cached \ DOMAIN entries' :
        now > entries[k].expires \/ lock' # NoOne \/ pc' # pc

\* While nothing clears the cache and no set holds its mutex, an entry goes away only
\* when it has expired; it may be newer than the one the reader had found expired.
OnlyExpiredArePurged == [][ExpiredIfGone]_vars
============================================================================
