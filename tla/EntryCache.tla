------------------------------- MODULE EntryCache -------------------------------
(***************************************************************************)
(* The cache with least recently used replacement (gpu/util/entry_cache.h). *)
(* A cache is a record: entries[i] is [key, value], lru the indices of     *)
(* entries, the last recently used first.  Indices begin with 1.           *)
(***************************************************************************)
EXTENDS Naturals

CONSTANTS
    CacheSize,
    InvalidKey,
    NoValue

Indices == 1 .. CacheSize

EmptyCache == [entries |-> [i \in Indices |-> [key |-> InvalidKey, value |-> NoValue]],
               lru |-> [i \in Indices |-> i]]

\* The elements from 1 to index are rotated by one.
PromoteInLru(lru, index) ==
    [i \in Indices |-> CASE i = 1 -> lru[index]
                         [] i \in 2 .. index -> lru[i - 1]
                         [] OTHER -> lru[i]]

Has(cache, key) == \E i \in Indices : cache.entries[i].key = key

\* Where get() finds the key: the first hit along lru.
HitIn(cache, key) ==
    CHOOSE i \in Indices :
        /\ cache.entries[cache.lru[i]].key = key
        /\ \A j \in 1 .. i - 1 : cache.entries[cache.lru[j]].key # key

\* What get() returns for a key that is there, and the cache it leaves.
Value(cache, key) == cache.entries[cache.lru[HitIn(cache, key)]].value

\* Mutant: a hit does not count as a use.
MutGet(cache, key) == cache

Get(cache, key) ==
    IF Has(cache, key)
    THEN [cache EXCEPT !.lru = PromoteInLru(@, HitIn(cache, key))]
    ELSE cache

\* Mutant: the slot is chosen before the last one is promoted.
MutPut(cache, key, value) ==
    [entries |-> [cache.entries EXCEPT ![cache.lru[1]] = [key |-> key, value |-> value]],
     lru |-> PromoteInLru(cache.lru, CacheSize)]

Put(cache, key, value) ==
    LET lru == PromoteInLru(cache.lru, CacheSize)
    IN  [entries |-> [cache.entries EXCEPT ![lru[1]] = [key |-> key, value |-> value]],
         lru |-> lru]
=============================================================================
