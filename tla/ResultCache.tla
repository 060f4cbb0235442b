----------------------------- MODULE ResultCache -----------------------------
(* The query-result cache of execute/cache.rs: a map bounded in entries and  *)
(* in bytes, whose entries expire after Ttl.  Every operation runs under the *)
(* mutex of the map, so each is one step; the byte and hit counters are      *)
(* separate atomics that the operations keep in step with the map.           *)
(*                                                                           *)
(* A key stands for plan, scope and data epoch (cache_key), a value for a    *)
(* result of SizeOf[value] estimated bytes.                                  *)
EXTENDS Integers, FiniteSets, FiniteSetsExt

CONSTANTS
    Key, Value,
    Absent,    \* no entry
    SizeOf,    \* estimated_bytes of a result
    Ttl,       \* TTL
    Capacity,  \* CAPACITY
    MaxBytes,  \* MALLARDCUBE_CACHE_MAX_BYTES, 0 for no byte budget
    MaxTime,   \* bound: clock ticks
    MaxCount   \* bound: lookups and evictions counted

ASSUME SizeOfAssumption == SizeOf \in [Value -> Nat \ {0}]
ASSUME LimitsAssumption ==
    /\ Ttl \in Nat /\ Capacity \in Nat \ {0} /\ MaxBytes \in Nat
    /\ MaxTime \in Nat /\ MaxCount \in Nat
ASSUME AbsentAssumption == Absent \notin Value \union [value : Value, at : Nat]
ASSUME KeyAssumption == IsFiniteSet(Key)

VARIABLES
    entries,    \* the map
    bytesUsed,  \* the byte counter
    hits, misses, evictions,
    now,        \* the clock
    answer      \* what the last lookup returned

vars == <<entries, bytesUsed, hits, misses, evictions, now, answer>>

Entry == [value : Value, at : Nat]
Present == {k \in Key : entries[k] # Absent}

\* Mutant: an entry is still served at its Ttl.
IsFreshAtTtl(k) == entries[k] # Absent /\ now - entries[k].at <= Ttl

IsFresh(k) == entries[k] # Absent /\ now - entries[k].at < Ttl
BytesOf(S) == MapThenSumSet(LAMBDA k : SizeOf[entries[k].value], S)

Init ==
    /\ entries = [k \in Key |-> Absent]
    /\ bytesUsed = 0
    /\ hits = 0 /\ misses = 0 /\ evictions = 0
    /\ now = 0
    /\ answer = Absent

Tick ==
    /\ now < MaxTime
    /\ now' = now + 1
    /\ UNCHANGED <<entries, bytesUsed, hits, misses, evictions, answer>>

Hit(k) ==
    /\ IsFresh(k)
    /\ hits < MaxCount
    /\ hits' = hits + 1
    /\ answer' = entries[k].value
    /\ UNCHANGED <<entries, bytesUsed, misses, evictions, now>>

\* Mutant: an expired entry leaves its bytes behind.
MissKeepingBytes(k) ==
    /\ ~IsFresh(k)
    /\ misses < MaxCount
    /\ misses' = misses + 1
    /\ answer' = Absent
    /\ entries' = [entries EXCEPT ![k] = Absent]
    /\ bytesUsed' = bytesUsed
    /\ UNCHANGED <<hits, evictions, now>>

\* An expired entry is dropped on access.
Miss(k) ==
    /\ ~IsFresh(k)
    /\ misses < MaxCount
    /\ misses' = misses + 1
    /\ answer' = Absent
    /\ entries' = [entries EXCEPT ![k] = Absent]
    /\ bytesUsed' = bytesUsed - BytesOf(Present \intersect {k})
    /\ UNCHANGED <<hits, evictions, now>>

TooBig(v) == MaxBytes > 0 /\ SizeOf[v] > MaxBytes

\* A result larger than the whole budget is not cached at all; whatever the
\* key held stays.
Refuse(k, v) == TooBig(v) /\ UNCHANGED vars

\* Mutant: the entry cap is off by one.
HasRoomForOneMore(v, S) ==
    /\ Cardinality(S) <= Capacity
    /\ MaxBytes = 0 \/ bytesUsed - BytesOf(Present \ S) + SizeOf[v] <= MaxBytes

\* Mutant: the byte budget does not count the new result.
HasRoomForOthers(v, S) ==
    /\ Cardinality(S) < Capacity
    /\ MaxBytes = 0 \/ bytesUsed - BytesOf(Present \ S) <= MaxBytes

\* Is there room for v once only the entries of S are left?
HasRoom(v, S) ==
    /\ Cardinality(S) < Capacity
    /\ MaxBytes = 0 \/ bytesUsed - BytesOf(Present \ S) + SizeOf[v] <= MaxBytes

\* What the eviction loop leaves of the others: all of them when there is room,
\* otherwise the fresh ones, otherwise the youngest that leave room.  Of several
\* equally old ones the map's order decides.
Survivors(v, others) ==
    LET fresh == {j \in others : IsFresh(j)} IN
    CASE HasRoom(v, others) -> {others}
      [] ~HasRoom(v, others) /\ (HasRoom(v, fresh) \/ fresh = {}) -> {fresh}
      [] OTHER ->
           {S \in SUBSET fresh :
               /\ HasRoom(v, S) \/ S = {}
               /\ \E last \in fresh \ S :
                     /\ ~HasRoom(v, S \union {last})
                     /\ \A j \in fresh \ S : entries[j].at <= entries[last].at
                     /\ \A s \in S : entries[last].at <= entries[s].at}

\* Mutant: the bytes of the entry that is replaced are given back twice.
InsertGivingTwice(k, v) ==
    /\ ~TooBig(v)
    /\ LET others == Present \ {k} IN
       \E S \in Survivors(v, others) :
          /\ entries' = [j \in Key |-> IF j = k THEN [value |-> v, at |-> now]
                                       ELSE IF j \in S THEN entries[j] ELSE Absent]
          /\ bytesUsed' = bytesUsed - BytesOf(Present \ S) - BytesOf(Present \ others) + SizeOf[v]
          /\ evictions + Cardinality(others \ S) <= MaxCount
          /\ evictions' = evictions + Cardinality(others \ S)
    /\ UNCHANGED <<hits, misses, now, answer>>

\* The entry under the key goes first, then the loop makes room.
Insert(k, v) ==
    /\ ~TooBig(v)
    /\ LET others == Present \ {k} IN
       \E S \in Survivors(v, others) :
          /\ entries' = [j \in Key |-> IF j = k THEN [value |-> v, at |-> now]
                                       ELSE IF j \in S THEN entries[j] ELSE Absent]
          /\ bytesUsed' = bytesUsed - BytesOf(Present \ S) + SizeOf[v]
          /\ evictions + Cardinality(others \ S) <= MaxCount
          /\ evictions' = evictions + Cardinality(others \ S)
    /\ UNCHANGED <<hits, misses, now, answer>>

Clear ==
    /\ entries' = [k \in Key |-> Absent]
    /\ bytesUsed' = 0
    /\ UNCHANGED <<hits, misses, evictions, now, answer>>

Next ==
    \/ Tick \/ Clear
    \/ \E k \in Key : \/ Hit(k) \/ Miss(k)
                      \/ \E v \in Value : Insert(k, v) \/ Refuse(k, v)

Spec == Init /\ [][Next]_vars
-----------------------------------------------------------------------------
EntriesTypeOK ==
    /\ entries \in [Key -> {Absent} \union Entry]
    /\ hits \in 0 .. MaxCount /\ misses \in 0 .. MaxCount /\ evictions \in 0 .. MaxCount
    /\ now \in 0 .. MaxTime
    /\ answer \in {Absent} \union Value

\* Every variable keeps its type: the byte counter, an unsigned atomic, is never
\* taken below zero.
TypeOK == EntriesTypeOK /\ bytesUsed \in Nat

\* The byte counter is the sum over the entries, after every mixture of
\* replacement, expiry on access, eviction and clear, and within the budget:
\* it never leaks away, and a burst of wide results cannot outgrow it.
BytesAreCounted == bytesUsed = BytesOf(Present) /\ (MaxBytes > 0 => bytesUsed <= MaxBytes)

\* The entry cap holds after every insert.
EntriesBounded == Cardinality(Present) <= Capacity

Contract == INSTANCE CacheContract WITH store <- entries

\* The cache keeps the contract: whatever is evicted, expired, replaced or
\* refused, a lookup answers the value last stored under its key if that
\* happened less than Ttl ago, and never one from before a clear.
ImplementsContract == Contract!Spec
=============================================================================
