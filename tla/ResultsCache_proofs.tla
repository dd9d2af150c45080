------------------------ MODULE ResultsCache_proofs ------------------------
(***************************************************************************)
(* Proofs about the results cache: its byte count and its limits, the loop *)
(* that makes room, and which answers a clear leaves behind.               *)
(***************************************************************************)
EXTENDS ResultsCache, FiniteSetTheorems, TLAPS

\* TypeOK, and what a reader knows of the cache in between its two looks, and while it
\* holds the mutex.
Typed ==
    /\ TypeOK
    /\ \A k \in Cached : entries[k].size <= MaxBytes
    /\ \A r \in Readers :
         /\ request[r].stage = "purge" => request[r].asked <= now
         /\ request[r].stage = "evict" =>
              request[r].size <= MaxBytes /\ request[r].key \notin Cached

Counted == IsFiniteSet(Cached) /\ Accounted

\* What is cached, or will be, was read after the last clear or is marked.
Fresh ==
    /\ FreshUnlessOvertaken
    /\ \A r \in Readers : request[r].stage \in {"set", "evict"} =>
         request[r].version >= cleared \/ request[r].overtaken
----------------------------------------------------------------------------
(* Requests. *)

Looking == [stage : {"purge", "read"}, key : Keys, asked : Nat]
Setting == [stage : {"set"}, key : Keys, size : Sizes, version : Versions, overtaken : BOOLEAN]
Evicting == [stage : {"evict"}, key : Keys, size : Sizes, version : Versions,
             overtaken : BOOLEAN, began : Nat]

LEMMA RequestKinds ==
    /\ NoRequest \in Requests /\ NoRequest.stage = "idle"
    /\ Looking \subseteq Requests /\ Setting \subseteq Requests /\ Evicting \subseteq Requests
    /\ \A q \in Requests :
         /\ q.stage \in {"idle", "purge", "read", "set", "evict"}
         /\ q.stage \in {"purge", "read"} => q \in Looking
         /\ q.stage = "set" => q \in Setting
         /\ q.stage = "evict" => q \in Evicting
<1>1. NoRequest \in Requests /\ NoRequest.stage = "idle"
  BY DEF Requests, NoRequest
<1>2. /\ Looking \subseteq Requests /\ Setting \subseteq Requests /\ Evicting \subseteq Requests
      /\ Requests = {NoRequest} \cup Looking \cup Setting \cup Evicting
  BY DEF Requests, Looking, Setting, Evicting
<1>3. /\ \A q \in Looking : q.stage \in {"purge", "read"}
      /\ \A q \in Setting : q.stage = "set"
      /\ \A q \in Evicting : q.stage = "evict"
  BY DEF Looking, Setting, Evicting
<1> QED  BY <1>1, <1>2, <1>3

LEMMA RequestOf ==
    ASSUME TypeOK, NEW r \in Readers
    PROVE  /\ request[r] \in Requests
           /\ request[r].stage \in {"purge", "read"} => request[r] \in Looking
           /\ request[r].stage = "set" => request[r] \in Setting
           /\ request[r].stage = "evict" => request[r] \in Evicting
BY RequestKinds DEF TypeOK
----------------------------------------------------------------------------
(* Bytes. *)

Bytes(S) == UNION {{k} \X (1 .. entries[k].size) : k \in S}

LEMMA BytesFinite ==
    ASSUME Typed, NEW S \in SUBSET Cached, IsFiniteSet(S)
    PROVE  IsFiniteSet(Bytes(S)) /\ SizeOf(S) \in Nat
<1>1. MaxBytes \in Nat /\ \A k \in S : entries[k].size \in Nat /\ entries[k].size <= MaxBytes
  BY CacheAssumption DEF CacheAssumption, Typed, TypeOK, Entries
<1>2. IsFiniteSet(1 .. MaxBytes)
  BY <1>1, FS_Interval
<1>3. IsFiniteSet(S \X (1 .. MaxBytes))
  BY <1>2, FS_Product
<1>4. Bytes(S) \in SUBSET (S \X (1 .. MaxBytes))
  BY <1>1 DEF Bytes
<1>5. IsFiniteSet(Bytes(S))
  BY <1>3, <1>4, FS_Subset
<1> QED  BY <1>5, FS_CardinalityType DEF SizeOf, Bytes

LEMMA SizeOfTwo ==
    ASSUME Typed, IsFiniteSet(Cached), NEW S \in SUBSET Cached
    PROVE  /\ SizeOf(Cached) = SizeOf(S) + SizeOf(Cached \ S)
           /\ SizeOf(S) \in Nat /\ SizeOf(Cached \ S) \in Nat
<1> DEFINE T == Cached \ S
<1>1. IsFiniteSet(S) /\ IsFiniteSet(T) /\ T \in SUBSET Cached
  BY FS_Subset
<1>2. /\ IsFiniteSet(Bytes(S)) /\ SizeOf(S) \in Nat
      /\ IsFiniteSet(Bytes(T)) /\ SizeOf(T) \in Nat
  BY <1>1, BytesFinite
<1>3. Bytes(Cached) = Bytes(S) \cup Bytes(T) /\ Bytes(S) \cap Bytes(T) = {}
  BY DEF Bytes
<1>4. Cardinality(Bytes(S) \cup Bytes(T)) = Cardinality(Bytes(S)) + Cardinality(Bytes(T)) - 0
  <2>1. Cardinality(Bytes(S) \cup Bytes(T))
          = Cardinality(Bytes(S)) + Cardinality(Bytes(T)) - Cardinality(Bytes(S) \cap Bytes(T))
    BY ZenonT(30), <1>2, FS_Union
  <2>2. Cardinality(Bytes(S) \cap Bytes(T)) = 0
    BY <1>3, FS_EmptySet
  <2> QED  BY <2>1, <2>2
<1>5. /\ SizeOf(Cached) = Cardinality(Bytes(Cached))
      /\ SizeOf(S) = Cardinality(Bytes(S)) /\ SizeOf(T) = Cardinality(Bytes(T))
  BY DEF SizeOf, Bytes
<1> QED  BY <1>2, <1>3, <1>4, <1>5

LEMMA NoBytes == SizeOf({}) = 0
<1>1. Bytes({}) = {}
  BY DEF Bytes
<1> QED  BY <1>1, FS_EmptySet DEF SizeOf, Bytes

\* The cache is left with some of its entries.
LEMMA KeepOnlyKeeps ==
    ASSUME Typed, Counted, NEW S \in SUBSET Cached, KeepOnly(S)
    PROVE  /\ Cached' = S /\ \A k \in S : entries'[k] = entries[k]
           /\ bytes' \in Int /\ Counted'
<1>1. Cached' = S /\ \A k \in S : entries'[k] = entries[k]
  BY DEF KeepOnly, Restrict, Cached
<1>2. IsFiniteSet(S) /\ Cardinality(S) <= Cardinality(Cached)
  BY FS_Subset DEF Counted
<1>3. Cardinality(S) \in Nat /\ Cardinality(Cached) \in Nat
  BY <1>2, FS_CardinalityType DEF Counted
<1>4. /\ SizeOf(Cached) = SizeOf(S) + SizeOf(Cached \ S)
      /\ SizeOf(S) \in Nat /\ SizeOf(Cached \ S) \in Nat
  BY SizeOfTwo DEF Counted
<1>5. SizeOf(Cached)' = SizeOf(S)
  <2>1. Bytes(Cached)' = Bytes(S)
    BY <1>1 DEF Bytes
  <2> QED  BY <2>1 DEF SizeOf, Bytes
<1>6. /\ bytes' = bytes - SizeOf(Cached \ S) /\ bytes = SizeOf(Cached)
      /\ bytes <= MaxBytes /\ Cardinality(Cached) <= MaxEntries
  BY DEF Counted, Accounted, KeepOnly
<1>7. bytes' = SizeOf(S) /\ bytes' <= MaxBytes /\ Cardinality(S) <= MaxEntries
  BY <1>2, <1>3, <1>4, <1>6, CacheAssumption DEF CacheAssumption
<1>8. Counted'
  BY <1>1, <1>2, <1>5, <1>7 DEF Counted, Accounted
<1> QED  BY <1>1, <1>4, <1>7, <1>8

\* An entry more, under a key that is not there.
LEMMA PutAdds ==
    ASSUME Typed, Counted, NEW r \in Readers, Put(r)
    PROVE  /\ Cached' = Cached \cup {request[r].key}
           /\ entries'[request[r].key] = Entry(r)
           /\ \A k \in Cached : entries'[k] = entries[k]
           /\ bytes' \in Int /\ Counted'
<1> DEFINE key == request[r].key
           size == request[r].size
<1>1. /\ request[r].stage = "evict" /\ Fits(r) /\ key \notin Cached
      /\ size \in Nat /\ size <= MaxBytes /\ bytes' = bytes + size
  <2>1. request[r].stage = "evict" /\ Fits(r) /\ bytes' = bytes + size
    BY DEF Put
  <2>2. size \in Nat
    BY <2>1, RequestOf, CacheAssumption DEF Typed, Evicting, CacheAssumption
  <2> QED  BY <2>1, <2>2 DEF Typed
<1>2. /\ Cached' = Cached \cup {key} /\ entries'[key] = Entry(r)
      /\ \A k \in Cached : entries'[k] = entries[k]
  BY <1>1 DEF Put, Cached
<1>3. IsFiniteSet(Cached) /\ IsFiniteSet(Cached') /\ Cardinality(Cached') = Cardinality(Cached) + 1
  BY <1>1, <1>2, FS_AddElement DEF Counted
<1>4. Cardinality(Cached) \in Nat /\ Cardinality(Cached') <= MaxEntries /\ bytes + size <= MaxBytes
  BY <1>1, <1>3, FS_CardinalityType, CacheAssumption DEF Fits, CacheAssumption
<1>5. SizeOf(Cached)' = SizeOf(Cached) + size
  <2> DEFINE New == {key} \X (1 .. size)
  <2>1. Bytes(Cached)' = Bytes(Cached) \cup New /\ Bytes(Cached) \cap New = {}
    BY <1>1, <1>2 DEF Bytes, Entry
  <2>2. IsFiniteSet(New) /\ Cardinality(New) = size
    <3>1. IsFiniteSet(1 .. size) /\ Cardinality(1 .. size) = size
      <4> HIDE DEF size
      <4> QED  BY <1>1, FS_Interval
    <3>2. IsFiniteSet({key}) /\ Cardinality({key}) = 1
      BY FS_Singleton
    <3> QED  BY <1>1, <3>1, <3>2, FS_Product
  <2>3. IsFiniteSet(Bytes(Cached)) /\ SizeOf(Cached) \in Nat
    BY <1>3, BytesFinite
  <2>4. Cardinality(Bytes(Cached) \cup New) = Cardinality(Bytes(Cached)) + Cardinality(New) - 0
    <3> HIDE DEF New
    <3> QED  BY <2>1, <2>2, <2>3, FS_Union, FS_EmptySet
  <2>5. SizeOf(Cached)' = Cardinality(Bytes(Cached)') /\ SizeOf(Cached) = Cardinality(Bytes(Cached))
    BY DEF SizeOf, Bytes
  <2> QED  BY <1>1, <2>1, <2>2, <2>3, <2>4, <2>5
<1>6. bytes = SizeOf(Cached) /\ SizeOf(Cached) \in Nat
  BY <1>3, BytesFinite DEF Counted, Accounted
<1>7. Counted'
  BY <1>1, <1>3, <1>4, <1>5, <1>6 DEF Counted, Accounted
<1> QED  BY <1>1, <1>2, <1>6, <1>7
----------------------------------------------------------------------------
(* Types and counts. *)

LEMMA RequestChanges ==
    ASSUME TypeOK, NEW r \in Readers, NEW q \in Requests, request' = [request EXCEPT ![r] = q]
    PROVE  /\ DOMAIN request' = Readers /\ request'[r] = q
           /\ \A o \in Readers : o # r => request'[o] = request[o]
           /\ \A o \in Readers : request'[o] \in Requests
BY DEF TypeOK

\* Whoever evicts holds the mutex.
LEMMA OneEvicts ==
    ASSUME TypeOK
    PROVE  /\ lock = NoOne => \A r \in Readers : request[r].stage # "evict"
           /\ \A r, o \in Readers : request[r].stage = "evict" /\ request[o].stage = "evict" => r = o
           /\ \A r \in Readers : request[r].stage = "evict" => lock = r /\ lock # NoOne
BY CacheAssumption DEF TypeOK, CacheAssumption

\* The steps of a reader outside the mutex.
LEMMA QuietStep ==
    ASSUME Typed, Counted, NEW r \in Readers, NEW q \in Requests,
           request' = [request EXCEPT ![r] = q],
           request[r].stage # "evict", q.stage # "evict",
           q.stage = "purge" => q.asked <= now,
           UNCHANGED <<now, db, cleared, cacheVars, pc>>
    PROVE  Typed' /\ Counted'
<1>1. /\ DOMAIN request' = Readers /\ request'[r] = q
      /\ \A o \in Readers : o # r => request'[o] = request[o]
      /\ \A o \in Readers : request'[o] \in Requests
  BY RequestChanges DEF Typed
<1>2. Cached' = Cached /\ SizeOf(Cached)' = SizeOf(Cached)
  BY DEF cacheVars, Cached, SizeOf
<1>3. TypeOK'
  BY <1>1, <1>2 DEF Typed, TypeOK, cacheVars
<1>4. Typed'
  BY <1>1, <1>2, <1>3 DEF Typed, cacheVars
<1>5. Counted'
  BY <1>2 DEF Counted, Accounted, cacheVars
<1> QED  BY <1>4, <1>5

LEMMA AtMiss ==
    ASSUME Typed, Counted, NEW r \in Readers, NEW k \in Keys, Miss(r, k)
    PROVE  Typed' /\ Counted'
<1> DEFINE q == [stage |-> IF k \in Cached THEN "purge" ELSE "read", key |-> k, asked |-> now]
<1>1. request' = [request EXCEPT ![r] = q]
  BY DEF Miss
<1>2. now \in Nat
  BY DEF Typed, TypeOK
<1>3. q \in Looking /\ q.asked <= now /\ q.stage # "evict"
  BY <1>2 DEF Looking
<1>4. request[r].stage # "evict" /\ UNCHANGED <<now, db, cleared, cacheVars, pc>>
  BY RequestKinds DEF Miss
<1> HIDE DEF q
<1> QED  BY <1>1, <1>3, <1>4, RequestKinds, QuietStep

LEMMA AtRead ==
    ASSUME Typed, Counted, NEW r \in Readers, NEW size \in Sizes, Read(r, size)
    PROVE  Typed' /\ Counted'
<1> DEFINE q == [stage |-> "set", key |-> request[r].key, size |-> size,
                 version |-> db, overtaken |-> FALSE]
<1>1. request' = [request EXCEPT ![r] = q]
  BY DEF Read, Typed, TypeOK
<1>2. request[r] \in Looking
  BY RequestOf DEF Read, Typed
<1>3. q \in Setting /\ q.stage = "set"
  BY <1>2 DEF Setting, Looking, Typed, TypeOK
<1>4. request[r].stage # "evict" /\ UNCHANGED <<now, db, cleared, cacheVars, pc>>
  BY DEF Read
<1> HIDE DEF q
<1> QED  BY <1>1, <1>3, <1>4, RequestKinds, QuietStep

LEMMA AtEnd ==
    ASSUME Typed, Counted, NEW r \in Readers, ReadFails(r) \/ TooLarge(r)
    PROVE  Typed' /\ Counted'
<1>1. /\ request' = [request EXCEPT ![r] = NoRequest] /\ request[r].stage # "evict"
      /\ UNCHANGED <<now, db, cleared, cacheVars, pc>>
  BY DEF ReadFails, TooLarge, Finish
<1> QED  BY <1>1, RequestKinds, QuietStep

LEMMA AtPurge ==
    ASSUME Typed, Counted, NEW r \in Readers, Purge(r)
    PROVE  Typed' /\ Counted'
<1> DEFINE q == [request[r] EXCEPT !.stage = "read"]
           S == {k \in Cached : k = request[r].key => request[r].asked <= entries[k].expires}
<1>1. /\ request[r].stage = "purge" /\ lock = NoOne /\ KeepOnly(S)
      /\ request' = [request EXCEPT ![r] = q] /\ UNCHANGED <<now, db, cleared, lock, pc>>
  BY DEF Purge, Move
<1>2. request[r] \in Looking
  BY <1>1, RequestOf DEF Typed
<1>3. q \in Looking /\ q.stage = "read"
  BY <1>2 DEF Looking
<1>4. /\ DOMAIN request' = Readers /\ request'[r] = q
      /\ \A o \in Readers : o # r => request'[o] = request[o]
      /\ \A o \in Readers : request'[o] \in Requests
  <2> HIDE DEF q
  <2> QED  BY <1>1, <1>3, RequestKinds, RequestChanges DEF Typed
<1>5. Cached' = S /\ S \subseteq Cached /\ (\A k \in S : entries'[k] = entries[k]) /\ bytes' \in Int
      /\ Counted'
  <2> HIDE DEF S
  <2>1. S \in SUBSET Cached
    BY DEF S
  <2> QED  BY <1>1, <2>1, KeepOnlyKeeps
<1>6. \A o \in Readers : request[o].stage # "evict" /\ request'[o].stage # "evict"
  BY <1>1, <1>3, <1>4, OneEvicts DEF Typed
<1> HIDE DEF q, S
<1>7. TypeOK'
  BY <1>1, <1>4, <1>5, <1>6 DEF Typed, TypeOK
<1>8. Typed'
  BY <1>1, <1>3, <1>4, <1>5, <1>6, <1>7 DEF Typed
<1> QED  BY <1>5, <1>8

LEMMA AtBeginSet ==
    ASSUME Typed, Counted, NEW r \in Readers, BeginSet(r)
    PROVE  Typed' /\ Counted'
<1> DEFINE q == [stage |-> "evict", key |-> request[r].key, size |-> request[r].size,
                 version |-> request[r].version, overtaken |-> request[r].overtaken,
                 began |-> now]
           S == {k \in Cached : now < entries[k].expires /\ k # request[r].key}
<1>1. /\ request[r].stage = "set" /\ request[r].size <= MaxBytes /\ lock = NoOne /\ lock' = r
      /\ KeepOnly(S) /\ UNCHANGED <<now, db, cleared, pc>>
  BY DEF BeginSet
<1>2. request' = [request EXCEPT ![r] = q]
  BY DEF BeginSet, Typed, TypeOK
<1>3. request[r] \in Setting /\ now \in Nat
  BY <1>1, RequestOf DEF Typed, TypeOK
<1>4. q \in Evicting /\ q.stage = "evict" /\ q.size <= MaxBytes /\ q.key \notin S
  BY <1>1, <1>3 DEF Evicting, Setting
<1>5. /\ DOMAIN request' = Readers /\ request'[r] = q
      /\ \A o \in Readers : o # r => request'[o] = request[o]
      /\ \A o \in Readers : request'[o] \in Requests
  <2> HIDE DEF q
  <2> QED  BY <1>2, <1>4, RequestKinds, RequestChanges DEF Typed
<1>6. Cached' = S /\ S \subseteq Cached /\ (\A k \in S : entries'[k] = entries[k]) /\ bytes' \in Int
      /\ Counted'
  <2> HIDE DEF S
  <2>1. S \in SUBSET Cached
    BY DEF S
  <2> QED  BY <1>1, <2>1, KeepOnlyKeeps
<1>7. \A o \in Readers : request[o].stage # "evict"
  BY <1>1, OneEvicts DEF Typed
<1> HIDE DEF q, S
<1>8. TypeOK'
  BY <1>1, <1>4, <1>5, <1>6, <1>7 DEF Typed, TypeOK
<1>9. Typed'
  BY <1>1, <1>4, <1>5, <1>6, <1>7, <1>8 DEF Typed
<1> QED  BY <1>6, <1>9

LEMMA AtEvict ==
    ASSUME Typed, Counted, NEW r \in Readers, Evict(r)
    PROVE  Typed' /\ Counted'
<1>1. PICK k \in Cached : KeepOnly(Cached \ {k})
  BY DEF Evict
<1>2. UNCHANGED <<now, db, cleared, lock, request, pc>>
  BY DEF Evict
<1> DEFINE S == Cached \ {k}
<1>3. Cached' = S /\ S \subseteq Cached /\ (\A x \in S : entries'[x] = entries[x]) /\ bytes' \in Int
      /\ Counted'
  <2> HIDE DEF S
  <2>1. S \in SUBSET Cached
    BY DEF S
  <2> QED  BY <1>1, <2>1, KeepOnlyKeeps DEF S
<1> HIDE DEF S
<1>4. TypeOK'
  BY <1>2, <1>3 DEF Typed, TypeOK
<1> QED  BY <1>2, <1>3, <1>4 DEF Typed

LEMMA AtPut ==
    ASSUME Typed, Counted, NEW r \in Readers, Put(r)
    PROVE  Typed' /\ Counted'
<1>1. /\ request[r].stage = "evict" /\ lock' = NoOne
      /\ request' = [request EXCEPT ![r] = NoRequest] /\ UNCHANGED <<now, db, cleared, pc>>
  BY DEF Put, Finish
<1>2. /\ DOMAIN request' = Readers /\ request'[r] = NoRequest
      /\ \A o \in Readers : o # r => request'[o] = request[o]
      /\ \A o \in Readers : request'[o] \in Requests
  BY <1>1, RequestKinds, RequestChanges DEF Typed
<1>3. /\ Cached' = Cached \cup {request[r].key} /\ entries'[request[r].key] = Entry(r)
      /\ (\A k \in Cached : entries'[k] = entries[k]) /\ bytes' \in Int /\ Counted'
  BY PutAdds
<1>4. request[r] \in Evicting /\ request[r].size <= MaxBytes
  BY <1>1, RequestOf DEF Typed
<1>5. Entry(r) \in Entries /\ Entry(r).size <= MaxBytes /\ request[r].key \in Keys
  <2>1. request[r].began + TTL \in Nat
    BY <1>4, CacheAssumption DEF Evicting, CacheAssumption
  <2> QED  BY <1>4, <2>1 DEF Entry, Entries, Evicting
<1>6. \A o \in Readers : request'[o].stage # "evict"
  BY <1>1, <1>2, RequestKinds, OneEvicts DEF Typed
<1>7. TypeOK'
  BY <1>1, <1>2, <1>3, <1>5, <1>6, CacheAssumption DEF Typed, TypeOK, CacheAssumption
<1>8. Typed'
  BY <1>1, <1>2, <1>3, <1>5, <1>6, <1>7, RequestKinds DEF Typed
<1> QED  BY <1>3, <1>8

LEMMA AtClear ==
    ASSUME Typed, Counted, NEW w \in Writers, Clear(w)
    PROVE  Typed' /\ Counted'
<1>1. /\ lock = NoOne /\ entries' = << >> /\ bytes' = 0 /\ cleared' = db
      /\ pc' = [pc EXCEPT ![w] = "idle"] /\ UNCHANGED <<now, db, lock>>
      /\ request' = [r \in Readers |-> IF request[r].stage = "set"
                                       THEN [request[r] EXCEPT !.overtaken = TRUE]
                                       ELSE request[r]]
  BY DEF Clear, Cleared
<1>2. Cached' = {}
  BY <1>1 DEF Cached
<1>3. Counted'
  <2>1. SizeOf(Cached)' = 0 /\ Cardinality(Cached') = 0 /\ IsFiniteSet(Cached')
    <3>1. Bytes(Cached)' = {}
      BY <1>2 DEF Bytes
    <3> QED  BY <1>2, <3>1, FS_EmptySet DEF SizeOf, Bytes
  <2> QED  BY <1>1, <2>1, CacheAssumption DEF Counted, Accounted, CacheAssumption
<1>4. ASSUME NEW r \in Readers
      PROVE  /\ request'[r] \in Requests /\ request'[r].stage = request[r].stage
             /\ request[r].stage # "set" => request'[r] = request[r]
  <2>1. CASE request[r].stage = "set"
    <3>1. request'[r] = [request[r] EXCEPT !.overtaken = TRUE]
      BY <1>1, <2>1
    <3>2. request[r] \in Setting
      BY <2>1, RequestOf DEF Typed
    <3>3. request'[r] \in Setting /\ request'[r].stage = "set"
      BY <3>1, <3>2 DEF Setting
    <3> QED  BY <2>1, <3>3, RequestKinds
  <2>2. CASE request[r].stage # "set"
    BY <1>1, <2>2 DEF Typed, TypeOK
  <2> QED  BY <2>1, <2>2
<1>5. DOMAIN request' = Readers
  BY <1>1
<1>6. db \in Nat /\ cleared' \in 0 .. db
  BY <1>1, CacheAssumption DEF Typed, TypeOK, Versions, CacheAssumption
<1>7. TypeOK'
  BY <1>1, <1>2, <1>4, <1>5, <1>6 DEF Typed, TypeOK
<1>8. Typed'
  BY <1>1, <1>2, <1>4, <1>7 DEF Typed
<1> QED  BY <1>3, <1>8

\* The steps that leave the cache and the requests alone.
LEMMA Elsewhere ==
    ASSUME Typed, Counted, UNCHANGED <<cacheVars, request>>,
           now' \in Nat, now <= now', db' \in Versions, cleared \in 0 .. db', cleared' = cleared,
           pc' \in [Writers -> {"idle", "clear"}]
    PROVE  Typed' /\ Counted'
<1>1. Cached' = Cached /\ SizeOf(Cached)' = SizeOf(Cached)
  BY DEF cacheVars, Cached, SizeOf
<1>2. TypeOK'
  BY <1>1 DEF Typed, TypeOK, cacheVars
<1>3. \A r \in Readers : request[r].stage = "purge" => request[r].asked <= now'
  <2> SUFFICES ASSUME NEW r \in Readers, request[r].stage = "purge"
               PROVE  request[r].asked <= now'
    OBVIOUS
  <2>1. request[r].asked \in Nat /\ request[r].asked <= now /\ now \in Nat
    BY RequestOf DEF Typed, TypeOK, Looking
  <2> QED  BY <2>1
<1>4. Typed'
  BY <1>1, <1>2, <1>3 DEF Typed, cacheVars
<1>5. Counted'
  BY <1>1 DEF Counted, Accounted, cacheVars
<1> QED  BY <1>4, <1>5

LEMMA TypedInit == Init => Typed /\ Counted
<1> SUFFICES ASSUME Init PROVE Typed /\ Counted
  OBVIOUS
<1>1. Cached = {}
  BY DEF Init, Cached
<1>2. Counted
  BY <1>1, NoBytes, FS_EmptySet, CacheAssumption DEF Counted, Accounted, Init, CacheAssumption
<1>3. \A r \in Readers : request[r] = NoRequest
  BY DEF Init
<1>4. TypeOK
  BY <1>1, <1>3, RequestKinds, CacheAssumption DEF Init, TypeOK, Versions, CacheAssumption
<1> QED  BY <1>1, <1>2, <1>3, <1>4, RequestKinds DEF Typed

LEMMA TypedStep == Typed /\ Counted /\ [Next]_vars => Typed' /\ Counted'
<1> SUFFICES ASSUME Typed, Counted, [Next]_vars PROVE Typed' /\ Counted'
  OBVIOUS
<1>0. /\ now \in Nat /\ db \in Nat /\ db \in Versions /\ cleared \in 0 .. db
      /\ pc \in [Writers -> {"idle", "clear"}]
  BY DEF Typed, TypeOK, Versions
<1>1. ASSUME NEW r \in Readers, ReaderStep(r) PROVE Typed' /\ Counted'
  BY <1>1, AtMiss, AtRead, AtEnd, AtPurge, AtBeginSet, AtEvict, AtPut DEF ReaderStep
<1>2. ASSUME NEW w \in Writers, Commit(w) PROVE Typed' /\ Counted'
  <2>1. /\ db' = db + 1 /\ db < MaxVersion /\ pc' = [pc EXCEPT ![w] = "clear"]
        /\ UNCHANGED <<now, cleared, cacheVars, request>>
    BY <1>2 DEF Commit
  <2>2. db' \in Versions /\ cleared \in 0 .. db' /\ now <= now' /\ now' \in Nat
    BY <1>0, <2>1, CacheAssumption DEF Versions, CacheAssumption
  <2>3. pc' \in [Writers -> {"idle", "clear"}]
    BY <1>0, <2>1
  <2> QED  BY <2>1, <2>2, <2>3, Elsewhere
<1>3. ASSUME NEW w \in Writers, Clear(w) PROVE Typed' /\ Counted'
  BY <1>3, AtClear
<1>4. ASSUME NEW w \in Writers, NoClear(w) PROVE Typed' /\ Counted'
  <2>1. /\ pc' = [pc EXCEPT ![w] = "idle"]
        /\ UNCHANGED <<now, db, cleared, cacheVars, request>>
    BY <1>4 DEF NoClear
  <2>2. pc' \in [Writers -> {"idle", "clear"}] /\ now <= now'
    BY <1>0, <2>1
  <2> QED  BY <1>0, <2>1, <2>2, Elsewhere
<1>5. CASE TimePasses
  <2>1. now' = now + 1 /\ UNCHANGED <<db, cleared, cacheVars, request, pc>>
    BY <1>5 DEF TimePasses
  <2>2. now' \in Nat /\ now <= now'
    BY <1>0, <2>1
  <2> QED  BY <1>0, <2>1, <2>2, Elsewhere
<1>6. CASE UNCHANGED vars
  <2>1. UNCHANGED <<now, db, cleared, cacheVars, request, pc>> /\ now <= now'
    BY <1>0, <1>6 DEF vars
  <2> QED  BY <1>0, <2>1, Elsewhere
<1> QED  BY <1>1, <1>2, <1>3, <1>4, <1>5, <1>6 DEF Next

LEMMA TypedAlways == Spec => [](Typed /\ Counted)
BY TypedInit, TypedStep, PTL DEF Spec

\* TypeOK: every variable keeps its type, and the mutex is held by the reader that evicts
\* and by no other.
THEOREM TypeCorrect == Spec => []TypeOK
<1>1. Typed => TypeOK
  BY DEF Typed
<1> QED  BY <1>1, TypedAlways, PTL

\* The byte count is that of the entries, and neither limit is ever exceeded.
THEOREM AccountedAlways == Spec => []Accounted
<1>1. Counted => Accounted
  BY DEF Counted
<1> QED  BY <1>1, TypedAlways, PTL

\* The loop that makes room ends: with no entry left, the answer fits.
THEOREM EvictionEndsAlways == Spec => []EvictionEnds
<1>1. ASSUME Typed, Counted PROVE EvictionEnds
  <2> SUFFICES ASSUME NEW r \in Readers, request[r].stage = "evict", Cached = {}
               PROVE  Fits(r)
    BY DEF EvictionEnds
  <2>1. bytes = 0 /\ Cardinality(Cached) = 0
    BY <1>1, NoBytes, FS_EmptySet DEF Counted, Accounted
  <2>2. request[r].size \in Nat /\ request[r].size <= MaxBytes
    BY <1>1, RequestOf, CacheAssumption DEF Typed, Evicting, CacheAssumption
  <2> QED  BY <2>1, <2>2, CacheAssumption DEF Fits, CacheAssumption
<1> QED  BY <1>1, TypedAlways, PTL
----------------------------------------------------------------------------
(* What a clear leaves behind, and what goes away without one. *)

LEMMA FreshStep == Typed /\ Counted /\ Fresh /\ [Next]_vars => Fresh'
<1> SUFFICES ASSUME Typed, Counted, Fresh, [Next]_vars PROVE Fresh'
  OBVIOUS
<1> DEFINE New(v, overtaken) == v >= cleared \/ overtaken
<1>1. /\ \A k \in Cached : New(entries[k].version, entries[k].overtaken)
      /\ \A r \in Readers : request[r].stage \in {"set", "evict"} =>
           New(request[r].version, request[r].overtaken)
  BY DEF Fresh, FreshUnlessOvertaken
<1>2. TypeOK /\ cleared <= db
  BY CacheAssumption DEF Typed, TypeOK, Versions, CacheAssumption
<1>3. \A r \in Readers, q \in Requests : request' = [request EXCEPT ![r] = q] =>
         request'[r] = q /\ \A o \in Readers : o # r => request'[o] = request[o]
  BY <1>2, RequestChanges
<1> DEFINE Smaller == /\ Cached' \subseteq Cached
                      /\ \A k \in Cached' : entries'[k] = entries[k]
<1>4. ASSUME NEW S \in SUBSET Cached, KeepOnly(S) PROVE Smaller
  BY <1>4, KeepOnlyKeeps
<1>5. ASSUME Smaller, cleared' = cleared, NEW r \in Readers, NEW q \in Requests,
             request' = [request EXCEPT ![r] = q],
             q.stage \in {"set", "evict"} => New(q.version, q.overtaken)
      PROVE  Fresh'
  BY <1>1, <1>3, <1>5 DEF Fresh, FreshUnlessOvertaken
<1>6. ASSUME Smaller, cleared' = cleared, request' = request PROVE Fresh'
  BY <1>1, <1>6 DEF Fresh, FreshUnlessOvertaken
<1>7. UNCHANGED cacheVars => Smaller
  BY DEF cacheVars, Cached
<1> HIDE DEF Smaller
<1>8. ASSUME NEW r \in Readers, NEW k \in Keys, Miss(r, k) PROVE Fresh'
  <2> DEFINE q == [stage |-> IF k \in Cached THEN "purge" ELSE "read", key |-> k, asked |-> now]
  <2>1. q \in Requests /\ q.stage \notin {"set", "evict"}
    BY <1>2, RequestKinds DEF TypeOK, Looking
  <2>2. request' = [request EXCEPT ![r] = q] /\ cleared' = cleared /\ UNCHANGED cacheVars
    BY <1>8 DEF Miss
  <2> HIDE DEF q, New
  <2> QED  BY <1>5, <1>7, <2>1, <2>2
<1>9. ASSUME NEW r \in Readers, Purge(r) PROVE Fresh'
  <2> DEFINE q == [request[r] EXCEPT !.stage = "read"]
             S == {k \in Cached : k = request[r].key => request[r].asked <= entries[k].expires}
  <2>1. request' = [request EXCEPT ![r] = q] /\ cleared' = cleared /\ KeepOnly(S)
    BY <1>9 DEF Purge, Move
  <2>2. request[r] \in Looking
    BY <1>2, <1>9, RequestOf DEF Purge
  <2>3. q \in Requests /\ q.stage = "read" /\ S \in SUBSET Cached
    BY <2>2, RequestKinds DEF Looking
  <2> HIDE DEF q, S, New
  <2> QED  BY <1>4, <1>5, <2>1, <2>3
<1>10. ASSUME NEW r \in Readers, NEW size \in Sizes, Read(r, size) PROVE Fresh'
  <2> DEFINE q == [stage |-> "set", key |-> request[r].key, size |-> size,
                   version |-> db, overtaken |-> FALSE]
  <2>1. request' = [request EXCEPT ![r] = q] /\ cleared' = cleared /\ UNCHANGED cacheVars
    BY <1>2, <1>10 DEF Read, TypeOK
  <2>2. request[r] \in Looking
    BY <1>2, <1>10, RequestOf DEF Read
  <2>3. q \in Setting /\ New(q.version, q.overtaken)
    <3>1. db >= cleared
      BY <1>2 DEF TypeOK, Versions
    <3> QED  BY <1>2, <2>2, <3>1 DEF Setting, Looking, TypeOK
  <2> HIDE DEF q, New
  <2> QED  BY <1>5, <1>7, <2>1, <2>3, RequestKinds
<1>11. ASSUME NEW r \in Readers, ReadFails(r) \/ TooLarge(r) PROVE Fresh'
  <2>1. request' = [request EXCEPT ![r] = NoRequest] /\ cleared' = cleared /\ UNCHANGED cacheVars
    BY <1>11 DEF ReadFails, TooLarge, Finish
  <2> HIDE DEF New
  <2> QED  BY <1>5, <1>7, <2>1, RequestKinds
<1>12. ASSUME NEW r \in Readers, BeginSet(r) PROVE Fresh'
  <2> DEFINE q == [stage |-> "evict", key |-> request[r].key, size |-> request[r].size,
                   version |-> request[r].version, overtaken |-> request[r].overtaken,
                   began |-> now]
             S == {k \in Cached : now < entries[k].expires /\ k # request[r].key}
  <2>1. request' = [request EXCEPT ![r] = q] /\ cleared' = cleared /\ KeepOnly(S)
    BY <1>2, <1>12 DEF BeginSet, TypeOK
  <2>2. request[r] \in Setting /\ request[r].stage = "set"
    BY <1>2, <1>12, RequestOf DEF BeginSet
  <2>3. q \in Evicting /\ S \in SUBSET Cached
    BY <1>2, <2>2 DEF Evicting, Setting, TypeOK
  <2>4. New(q.version, q.overtaken)
    BY <1>1, <2>2
  <2> HIDE DEF q, S, New
  <2> QED  BY <1>4, <1>5, <2>1, <2>3, <2>4, RequestKinds
<1>13. ASSUME NEW r \in Readers, Evict(r) PROVE Fresh'
  <2>1. PICK k \in Cached : KeepOnly(Cached \ {k})
    BY <1>13 DEF Evict
  <2>2. Cached \ {k} \in SUBSET Cached
    OBVIOUS
  <2>3. Smaller
    BY <1>4, <2>1, <2>2
  <2>4. cleared' = cleared /\ request' = request
    BY <1>13 DEF Evict
  <2> QED  BY <1>6, <2>3, <2>4
<1>14. ASSUME NEW r \in Readers, Put(r) PROVE Fresh'
  <2>1. /\ Cached' = Cached \cup {request[r].key} /\ entries'[request[r].key] = Entry(r)
        /\ \A k \in Cached : entries'[k] = entries[k]
    BY <1>14, PutAdds
  <2>2. /\ request[r].stage = "evict" /\ request' = [request EXCEPT ![r] = NoRequest]
        /\ cleared' = cleared
    BY <1>14 DEF Put, Finish
  <2>3. \A k \in Cached' : New(entries'[k].version, entries'[k].overtaken)
    BY <1>1, <2>1, <2>2 DEF Entry
  <2>4. \A o \in Readers : o # r => request'[o] = request[o]
    BY <1>3, <2>2, RequestKinds
  <2>5. request'[r].stage = "idle"
    BY <1>3, <2>2, RequestKinds
  <2> QED  BY <1>1, <2>2, <2>3, <2>4, <2>5 DEF Fresh, FreshUnlessOvertaken
<1>15. ASSUME NEW w \in Writers, Clear(w) PROVE Fresh'
  <2>1. /\ lock = NoOne /\ Cached' = {}
        /\ request' = [r \in Readers |-> IF request[r].stage = "set"
                                         THEN [request[r] EXCEPT !.overtaken = TRUE]
                                         ELSE request[r]]
    BY <1>15 DEF Clear, Cleared, Cached
  <2>2. ASSUME NEW r \in Readers, request'[r].stage \in {"set", "evict"}
        PROVE  request'[r].overtaken
    <3>1. request[r].stage # "evict"
      BY <1>2, <2>1, OneEvicts
    <3>2. request[r].stage = "set"
      BY <2>1, <2>2, <3>1
    <3>3. request[r] \in Setting /\ request'[r] = [request[r] EXCEPT !.overtaken = TRUE]
      BY <1>2, <2>1, <3>2, RequestOf
    <3> QED  BY <3>3 DEF Setting
  <2> QED  BY <2>1, <2>2 DEF Fresh, FreshUnlessOvertaken
<1>16. ASSUME NEW w \in Writers, Commit(w) \/ NoClear(w) PROVE Fresh'
  <2>1. UNCHANGED <<cleared, cacheVars, request>>
    BY <1>16 DEF Commit, NoClear
  <2> QED  BY <1>6, <1>7, <2>1
<1>17. CASE TimePasses \/ UNCHANGED vars
  <2>1. UNCHANGED <<cleared, cacheVars, request>>
    BY <1>17 DEF TimePasses, vars
  <2> QED  BY <1>6, <1>7, <2>1
<1> QED  BY <1>8, <1>9, <1>10, <1>11, <1>12, <1>13, <1>14, <1>15, <1>16, <1>17
         DEF Next, ReaderStep

\* An entry older than the last clear was read before that clear and stored after it: a
\* clear reaches everything else.
THEOREM FreshUnlessOvertakenAlways == Spec => []FreshUnlessOvertaken
<1>1. Init => Fresh
  <2> SUFFICES ASSUME Init PROVE Fresh
    OBVIOUS
  <2>1. Cached = {} /\ \A r \in Readers : request[r] = NoRequest
    BY DEF Init, Cached
  <2> QED  BY <2>1, RequestKinds DEF Fresh, FreshUnlessOvertaken
<1>2. Fresh => FreshUnlessOvertaken
  BY DEF Fresh
<1> QED  BY <1>1, <1>2, TypedAlways, FreshStep, PTL DEF Spec

\* Without a clear, and while no set holds the mutex, only an expired entry goes away: the
\* second look of a purge spares the entry another reader has put there in between.
THEOREM OnlyExpiredAlways == Spec => OnlyExpiredArePurged
<1>1. ASSUME Typed, Counted, [Next]_vars PROVE [ExpiredIfGone]_vars
  <2> SUFFICES ASSUME NEW k \in Cached, k \notin Cached'
               PROVE  now > entries[k].expires \/ lock' # NoOne \/ pc' # pc
    BY DEF Cached, ExpiredIfGone
  <2>1. ASSUME NEW r \in Readers, Purge(r) PROVE now > entries[k].expires
    <3>1. k = request[r].key /\ ~(request[r].asked <= entries[k].expires)
      <4> DEFINE S == {x \in Cached : x = request[r].key =>
                                        request[r].asked <= entries[x].expires}
      <4>1. KeepOnly(S) /\ S \in SUBSET Cached
        BY <2>1 DEF Purge
      <4>2. Cached' = S
        <5> HIDE DEF S
        <5> QED  BY <1>1, <4>1, KeepOnlyKeeps
      <4> QED  BY <4>2
    <3>2. request[r].asked \in Nat /\ request[r].asked <= now /\ now \in Nat
          /\ entries[k].expires \in Nat
      BY <1>1, <2>1, RequestOf DEF Purge, Typed, TypeOK, Looking, Entries
    <3> QED  BY <3>1, <3>2
  <2>2. ASSUME NEW r \in Readers, BeginSet(r) \/ Evict(r) PROVE lock' # NoOne
    BY <1>1, <2>2, OneEvicts, CacheAssumption DEF BeginSet, Evict, Typed, CacheAssumption
  <2>3. ASSUME NEW r \in Readers, Put(r) PROVE FALSE
    BY <1>1, <2>3, PutAdds
  <2>4. ASSUME NEW w \in Writers, Clear(w) PROVE pc' # pc
    BY <1>1, <2>4 DEF Clear, Cleared, Typed, TypeOK
  <2>5. CASE UNCHANGED cacheVars
    BY <2>5 DEF cacheVars, Cached
  <2>6. ASSUME NEW r \in Readers, ReaderStep(r)
        PROVE  \/ Purge(r) \/ BeginSet(r) \/ Evict(r) \/ Put(r)
               \/ UNCHANGED cacheVars
    BY <2>6 DEF ReaderStep, Miss, Read, ReadFails, TooLarge
  <2>7. ASSUME NEW w \in Writers, Commit(w) \/ Clear(w) \/ NoClear(w)
        PROVE  Clear(w) \/ UNCHANGED cacheVars
    BY <2>7 DEF Commit, NoClear
  <2>8. TimePasses \/ UNCHANGED vars => UNCHANGED cacheVars
    BY DEF TimePasses, vars
  <2> QED  BY <1>1, <2>1, <2>2, <2>3, <2>4, <2>5, <2>6, <2>7, <2>8 DEF Next
<1> QED  BY <1>1, TypedAlways, PTL DEF Spec, OnlyExpiredArePurged
=============================================================================
