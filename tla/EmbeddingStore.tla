--------------------------- MODULE EmbeddingStore ---------------------------
(* RedisEmbeddingStore: has something similar to this text been seen before?  *)
(* redis/dedup/stores/embedding.py and _embedding_runtime.py                  *)
(*                                                                          *)
(* Keys of one class have embeddings above the similarity threshold. An entry *)
(* of the scan backend is a value and a member of an index set; exists() and  *)
(* add() take no lock, mark_if_new() holds a Redis lock that expires and that  *)
(* a background task renews. SSCAN returns the index in one batch.            *)
EXTENDS Naturals, FiniteSets

CONSTANTS
    Workers,    \* processes
    Keys,       \* texts
    Class,      \* Class[k]: keys of a class are similar
    Dims,       \* Dims[k]: dimensions of the embedding
    MaxEntries, \* max_entries
    MaxFaults,  \* bound: expired locks and values, failed commands, dead workers
    Configs     \* [workers, keys, calls, search (RediSearch backend), cluster, ttl]

VARIABLES
    config, faults, task,
    values,     \* Redis: keys with a stored embedding
    index,      \* Redis: members of the index set
    dims,       \* Redis: dimensions of the RediSearch index, 0 before it exists
    lock,       \* Redis: the worker whose token the lock key holds, or "none"
    fresh,      \* history: stored keys that mark_if_new() told to be new
    hidden,     \* history: stored keys whose index member a scan has removed
    bypassed,   \* history: keys stored by add(), or by a caller who was told of an error
    unguarded   \* history: a lock expired under its owner

vars == <<config, faults, task, values, index, dims, lock, fresh, hidden, bypassed, unguarded>>

Idle == [call |-> "idle", key |-> 0, stage |-> "idle", batch |-> {}, packed |-> {}, healthy |-> TRUE]
Similar(k, l) == Class[k] = Class[l] /\ Dims[k] = Dims[l]

Init ==
    /\ config \in Configs
    /\ faults = 0 /\ unguarded = FALSE
    /\ task = [w \in Workers |-> Idle]
    /\ values = {} /\ index = {} /\ dims = 0
    /\ lock = "none"
    /\ fresh = {} /\ hidden = {} /\ bypassed = {}

At(w, stage) == task[w].stage = stage
Go(w, t) == task' = [task EXCEPT ![w] = t]
Step(w, stage) == Go(w, [task[w] EXCEPT !.stage = stage])
Fault == faults < MaxFaults /\ faults' = faults + 1
Stored == UNCHANGED <<values, index, dims, fresh, hidden, bypassed>>

\* Mutant: the lock is released without a look at its token.
EndsUnlocked(w) == Go(w, Idle) /\ lock' = "none"

\* A call ends. The lock is released when it is still the worker's.
Ends(w) ==
    /\ Go(w, Idle)
    /\ lock' = IF lock = w THEN "none" ELSE lock

FirstStage(call) == CASE call = "mark_if_new" -> "lock" [] call = "exists" -> "scan" [] call = "add" -> "prune"

\* The embedding comes from the provider; the asyncio lock lets one mark_if_new() of a
\* process in at a time.
Call(w, call, k) ==
    /\ At(w, "idle") /\ w \in config.workers /\ k \in config.keys /\ call \in config.calls
    /\ Go(w, [Idle EXCEPT !.call = call, !.key = k, !.stage = FirstStage(call)])
    /\ Stored /\ UNCHANGED <<config, faults, lock, unguarded>>

-----------------------------------------------------------------------------
(* The lock of mark_if_new().                                                *)

Acquire(w) ==
    /\ At(w, "lock") /\ lock = "none"
    /\ lock' = w
    /\ Step(w, "scan")
    /\ Stored /\ UNCHANGED <<config, faults, unguarded>>

\* blocking_timeout
GiveUp(w) ==
    /\ At(w, "lock") /\ lock # "none"
    /\ Go(w, Idle)
    /\ Stored /\ UNCHANGED <<config, faults, lock, unguarded>>

\* The renewal came too late, or the owner is dead.
LockExpires ==
    /\ lock # "none"
    /\ IF At(lock, "idle") THEN UNCHANGED <<faults, unguarded>> ELSE Fault /\ unguarded' = TRUE
    /\ lock' = "none"
    /\ Stored /\ UNCHANGED <<config, task>>

Holds(w) == task[w].call = "mark_if_new" /\ ~At(w, "lock")

\* reacquire() finds that the lock is not the worker's any more.
RenewFails(w) ==
    /\ Holds(w) /\ lock # w /\ task[w].healthy
    /\ Go(w, [task[w] EXCEPT !.healthy = FALSE])
    /\ Stored /\ UNCHANGED <<config, faults, lock, unguarded>>

-----------------------------------------------------------------------------
(* _redis_exists()                                                           *)

\* ensure_lock_healthy() raises.
Unhealthy(w) ==
    /\ ~task[w].healthy /\ (At(w, "scan") \/ At(w, "get"))
    /\ Ends(w)
    /\ Stored /\ UNCHANGED <<config, faults, unguarded>>

\* The KNN search of RediSearch, in an index of the right dimensions.
Search(w) ==
    /\ At(w, "scan") /\ config.search /\ task[w].healthy
    /\ dims' = IF dims = 0 THEN Dims[task[w].key] ELSE dims
    /\ LET hit == \E k \in values : Similar(k, task[w].key) IN
       \/ dims' # Dims[task[w].key] /\ Ends(w)
       \/ /\ dims' = Dims[task[w].key]
          /\ IF hit \/ task[w].call = "exists" THEN Ends(w) ELSE Step(w, "prune") /\ UNCHANGED lock
    /\ UNCHANGED <<config, faults, unguarded, values, index, fresh, hidden, bypassed>>

Scan(w) ==
    /\ At(w, "scan") /\ ~config.search /\ task[w].healthy
    /\ Go(w, [task[w] EXCEPT !.stage = "get", !.batch = index])
    /\ Stored /\ UNCHANGED <<config, faults, lock, unguarded>>

Get(w) ==
    /\ At(w, "get")
    /\ Go(w, [task[w] EXCEPT !.stage = "examine", !.packed = values \cap task[w].batch])
    /\ Stored /\ UNCHANGED <<config, faults, lock, unguarded>>

\* A member is similar, or has no value or other dimensions and is removed from the
\* index, or is passed.
Examine(w, k) ==
    /\ At(w, "examine") /\ k \in task[w].batch
    /\ LET t == task[w]
           stale == k \notin t.packed \/ Dims[k] # Dims[t.key]
       IN  /\ index' = IF stale THEN index \ {k} ELSE index
           /\ hidden' = IF stale THEN hidden \cup (values \cap {k}) ELSE hidden
           /\ IF ~stale /\ Similar(k, t.key) THEN Ends(w)
              ELSE Go(w, [t EXCEPT !.batch = @ \ {k}]) /\ UNCHANGED lock
    /\ UNCHANGED <<config, faults, values, dims, fresh, bypassed, unguarded>>

\* Nothing similar. mark_if_new() goes on if the renewal has not failed.
NotFound(w) ==
    /\ At(w, "examine") /\ task[w].batch = {}
    /\ IF task[w].call = "mark_if_new" /\ task[w].healthy
       THEN Step(w, "prune") /\ UNCHANGED lock
       ELSE Ends(w)
    /\ Stored /\ UNCHANGED <<config, faults, unguarded>>

-----------------------------------------------------------------------------
(* _redis_add()                                                              *)

\* The members without a value are read, then removed.
Prune(w) ==
    /\ At(w, "prune")
    /\ IF config.search THEN Step(w, "store")
       ELSE Go(w, [task[w] EXCEPT !.stage = "remove", !.batch = index \ values])
    /\ Stored /\ UNCHANGED <<config, faults, lock, unguarded>>

Remove(w) ==
    /\ At(w, "remove")
    /\ index' = index \ task[w].batch
    /\ hidden' = hidden \cup (task[w].batch \cap values)
    /\ Step(w, "count")
    /\ UNCHANGED <<config, faults, lock, values, dims, fresh, bypassed, unguarded>>

\* SCARD: a full store raises.
Count(w) ==
    /\ At(w, "count")
    /\ IF Cardinality(index) >= MaxEntries THEN Ends(w) ELSE Step(w, "store") /\ UNCHANGED lock
    /\ Stored /\ UNCHANGED <<config, faults, unguarded>>

\* What the caller is told of a key, if it is stored yet: new, or an error when the
\* renewal failed meanwhile.
Told(w, keys) ==
    LET isNew == task[w].call = "mark_if_new" /\ task[w].healthy IN
    /\ fresh' = IF isNew THEN fresh \cup keys ELSE fresh
    /\ bypassed' = IF isNew THEN bypassed \ keys ELSE bypassed \cup keys

\* SET and SADD in one MULTI. A cluster executes them one by one; RediSearch needs no
\* index set, but sets the time to live with a second command.
Store(w) ==
    /\ At(w, "store")
    /\ LET k == task[w].key IN
       /\ values' = values \cup {k}
       /\ IF config.cluster \/ (config.search /\ config.ttl)
          THEN /\ Step(w, "second")
               /\ bypassed' = bypassed \cup {k} /\ UNCHANGED <<lock, index, fresh>>
          ELSE /\ index' = IF config.search THEN index ELSE index \cup {k}
               /\ Told(w, {k}) /\ Ends(w)
    /\ UNCHANGED <<config, faults, dims, hidden, unguarded>>

Second(w) ==
    /\ At(w, "second")
    /\ LET k == task[w].key IN
       /\ index' = IF config.search THEN index ELSE index \cup {k}
       /\ Told(w, values \cap {k}) /\ Ends(w)
    /\ UNCHANGED <<config, faults, values, dims, hidden, unguarded>>

-----------------------------------------------------------------------------
\* A time to live ends. The entry counts as seen no longer. With RediSearch it only
\* starts with the second command.
Expires(k) ==
    /\ config.ttl /\ k \in values /\ Fault
    /\ config.search => k \notin bypassed
    /\ values' = values \ {k}
    /\ fresh' = fresh \ {k} /\ hidden' = hidden \ {k} /\ bypassed' = bypassed \ {k}
    /\ UNCHANGED <<config, task, index, dims, lock, unguarded>>

\* A command raises, the process goes on; or it dies and leaves the lock behind.
Fails(w) ==
    /\ ~At(w, "idle") /\ Fault
    /\ \/ Ends(w)
       \/ Go(w, Idle) /\ UNCHANGED lock
    /\ Stored /\ UNCHANGED <<config, unguarded>>

Next ==
    \/ \E w \in Workers :
          \/ \E call \in config.calls, k \in Keys : Call(w, call, k)
          \/ Acquire(w) \/ GiveUp(w) \/ RenewFails(w) \/ Unhealthy(w)
          \/ Search(w) \/ Scan(w) \/ Get(w) \/ (\E k \in Keys : Examine(w, k)) \/ NotFound(w)
          \/ Prune(w) \/ Remove(w) \/ Count(w) \/ Store(w) \/ Second(w) \/ Fails(w)
    \/ LockExpires
    \/ \E k \in Keys : Expires(k)

Spec == Init /\ [][Next]_vars

-----------------------------------------------------------------------------
\* Two similar texts are both told to be new only if a lock expired under its owner, or
\* if the first of them was hidden from the scan, which takes a reader who removes a
\* member that it saw before the value was stored again.
DuplicatesExplained ==
    \A k, l \in fresh : k # l /\ Similar(k, l) => unguarded \/ k \in hidden \/ l \in hidden

\* A stored value is found by a scan, unless its index member was removed.
EntriesIndexed == ~config.search => values \subseteq index \cup hidden \cup bypassed
=============================================================================
