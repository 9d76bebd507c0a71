---------------------------- MODULE WriteBehind ----------------------------
(***************************************************************************)
(* DataService over InMemoryCache and a store: reads fill the cache from   *)
(* the store, writes go to the cache and to a queue of records that Flush  *)
(* saves one by one.  A record is its key and the number of its version; a *)
(* store refuses a save (a fault injected by FakeDataStore) or a load.     *)
(***************************************************************************)
EXTENDS Integers, Sequences, FiniteSets, SequencesExt

CONSTANTS WbKeys, CacheCapacity, MaxQueued,
          MaxSaves      \* bound: saves of one key

ASSUME WriteBehindAssumption == CacheCapacity \in Nat \ {0} /\ MaxQueued \in Nat /\ MaxSaves \in Nat

VARIABLES
    wbCache,    \* map_ and lru_: records, the most recently used first
    wbStore,    \* the store: key -> version, 0 for no record
    wbDirty,    \* dirty_; dirty_set_ is the set of its keys
    wbSaved,    \* key -> the version of the last accepted Save
    wbQueued    \* key -> the version of the last Save that entered the queue

wbVars == <<wbCache, wbStore, wbDirty, wbSaved, wbQueued>>

WbInit ==
    /\ wbCache = <<>> /\ wbDirty = <<>>
    /\ wbStore = [k \in WbKeys |-> 0] /\ wbSaved = wbStore /\ wbQueued = wbStore

KeysOf(records) == {records[i].key : i \in DOMAIN records}
\* The records at the given places, in their order.
Selected(records, places) ==
    LET at == CHOOSE at \in SetToSeqs(places) : \A i, j \in DOMAIN at : i < j => at[i] < at[j]
    IN [i \in DOMAIN at |-> records[at[i]]]
Under(records, keys) == {i \in DOMAIN records : records[i].key \in keys}
Drop(records, gone) == Selected(records, DOMAIN records \ Under(records, gone))
Queued(queue, r) == IF r.key \in KeysOf(queue) THEN queue ELSE Append(queue, r)

\* InMemoryCache::Put: the record comes first, the least recently used one leaves a full cache.
CachePut(cache, r) ==
    LET all == <<r>> \o Drop(cache, {r.key})
    IN IF Len(all) > CacheCapacity THEN SubSeq(all, 1, CacheCapacity) ELSE all

\* Load: a hit comes first in the cache; a miss is read from the store, which may be down, and
\* cached if there is a record.
WbLoad(k) ==
    /\ \/ /\ k \in KeysOf(wbCache)
          /\ wbCache' = Selected(wbCache, Under(wbCache, {k})) \o Drop(wbCache, {k})
       \/ /\ k \notin KeysOf(wbCache)
          /\ \/ UNCHANGED wbCache
             \/ wbStore[k] # 0 /\ wbCache' = CachePut(wbCache, [key |-> k, ver |-> wbStore[k]])
    /\ UNCHANGED <<wbStore, wbDirty, wbSaved, wbQueued>>

\* Save: refused when the queue is full, whatever the key; a key already queued is not queued again.
WbSave(k) ==
    LET r == [key |-> k, ver |-> wbSaved[k] + 1]
    IN /\ wbSaved[k] < MaxSaves /\ Len(wbDirty) < MaxQueued
       /\ wbCache' = CachePut(wbCache, r) /\ wbDirty' = Queued(wbDirty, r)
       /\ wbSaved' = [wbSaved EXCEPT ![k] = @ + 1]
       /\ wbQueued' = IF k \in KeysOf(wbDirty) THEN wbQueued ELSE [wbQueued EXCEPT ![k] = r.ver]
       /\ UNCHANGED wbStore

\* Flush: every queued record is saved unguarded; the ones the store refuses are queued again,
\* each key once.
WbFlush(refused) ==
    /\ refused \subseteq KeysOf(wbDirty)
    /\ wbDirty' = Selected(wbDirty, {i \in Under(wbDirty, refused) :
                                        \A j \in 1..(i - 1) : wbDirty[j].key # wbDirty[i].key})
    /\ wbStore' = [k \in WbKeys |-> IF k \in KeysOf(wbDirty) \ refused
                                    THEN wbDirty[CHOOSE i \in DOMAIN wbDirty : wbDirty[i].key = k].ver
                                    ELSE wbStore[k]]
    /\ UNCHANGED <<wbCache, wbSaved, wbQueued>>

\* Invalidate and InvalidatePrefix by another user of the cache, and expiry.
WbInvalidate(gone) ==
    /\ gone # {} /\ gone \subseteq KeysOf(wbCache) /\ wbCache' = Drop(wbCache, gone)
    /\ UNCHANGED <<wbStore, wbDirty, wbSaved, wbQueued>>

WbNext ==
    \/ \E k \in WbKeys : WbLoad(k) \/ WbSave(k)
    \/ \E keys \in SUBSET WbKeys : WbFlush(keys) \/ WbInvalidate(keys)

----------------------------------------------------------------------------
\* A record that entered the queue is in the queue or in the store, whatever failed, and waits in
\* at most one place of a queue that never passes its limit.
QueuedIsKept ==
    /\ Len(wbDirty) <= MaxQueued /\ Cardinality(KeysOf(wbDirty)) = Len(wbDirty)
    /\ \A k \in WbKeys : k \notin KeysOf(wbDirty) => wbStore[k] = wbQueued[k]
    /\ \A i \in DOMAIN wbDirty : wbDirty[i].ver = wbQueued[wbDirty[i].key]

\* Once the queue is empty the store holds the last version that each key was saved with.
SavedReachesStore == wbDirty = <<>> => wbStore = wbSaved
=============================================================================
