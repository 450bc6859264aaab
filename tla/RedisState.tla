----------------------------- MODULE RedisState -----------------------------
(* RedisBackend: one key of the state that dedup stores, LLM caches and        *)
(* pipelines keep in Redis. redis/state/redis.py                              *)
(*                                                                          *)
(* A value is stored with its expiry by the clock of the client that wrote it, *)
(* and with a Redis time to live. Every method is one command or script, but   *)
(* get() and delete_prefix() delete with a second command what they saw with   *)
(* the first. Values are counters, so that a lost update shows.               *)
EXTENDS Naturals, FiniteSets

CONSTANTS
    Clients,
    MaxTime,    \* bound: ticks of the clock
    MaxValue,   \* bound: updates of a value
    Configs     \* [skew, ttl, calls]: skew[c] is how far the clock of c is ahead, ttl the time to
                \* live (0 is none), calls the methods called

VARIABLES
    config, now, client,
    stored,     \* Redis: the value, its expires_at, and when Redis removes it; or NoValue
    updates,    \* history: acknowledged updates of the stored value since its creation
    held,       \* history: creations told to a client whose time to live has not ended
    swept       \* history: a value was deleted that had not expired

vars == <<config, now, client, stored, updates, held, swept>>

NoValue == [value |-> 0, expires_at |-> 0, px |-> 0]
Idle == [call |-> "idle", seen |-> NoValue]
Never == 1000

time(c) == now + config.skew[c]
expires_at(c) == IF config.ttl = 0 THEN Never ELSE time(c) + config.ttl
Expired(c, v) == v # NoValue /\ v.expires_at <= time(c)

Init ==
    /\ config \in Configs
    /\ now = 0
    /\ client = [c \in Clients |-> Idle]
    /\ stored = NoValue
    /\ updates = 0 /\ held = {} /\ swept = FALSE

\* _state_payload(), and ttl_ms from the client's own clock.
payload(c, value) ==
    [value |-> value, expires_at |-> expires_at(c),
     px |-> IF config.ttl = 0 THEN Never ELSE now + config.ttl]

Idles(c, call) == client[c].call = "idle" /\ call \in config.calls
Go(c, call, seen) == client' = [client EXCEPT ![c] = [call |-> call, seen |-> seen]]

\* GET; a value that has expired by the client's clock is deleted and not returned.
get(c) ==
    /\ Idles(c, "get")
    /\ Go(c, IF Expired(c, stored) THEN "delete" ELSE "read", stored)
    /\ UNCHANGED <<config, now, stored, updates, held, swept>>

\* delete_prefix(): the keys are scanned, then deleted.
scan(c) ==
    /\ Idles(c, "delete_prefix") /\ stored # NoValue
    /\ Go(c, "delete", stored)
    /\ UNCHANGED <<config, now, stored, updates, held, swept>>

\* DEL, whatever is stored by now.
delete(c) ==
    /\ client[c].call = "delete"
    /\ Go(c, "idle", NoValue)
    /\ stored' = NoValue /\ updates' = 0
    /\ swept' = (swept \/ (stored # NoValue /\ stored.px > now))
    /\ UNCHANGED <<config, now, held>>

\* SET with NX: a client marks the key, or compares with an absent value.
set_if_absent(c) ==
    /\ \/ Idles(c, "set_if_absent")
       \/ client[c] = [call |-> "read", seen |-> NoValue]
    /\ Go(c, "idle", NoValue)
    /\ IF stored = NoValue
       THEN stored' = payload(c, 1) /\ updates' = 1 /\ held' = held \cup {[by |-> c, px |-> payload(c, 1).px]}
       ELSE UNCHANGED <<stored, updates, held>>
    /\ UNCHANGED <<config, now, swept>>

\* The compare-and-set script, for an update of what get() returned.
compare_and_set(c) ==
    /\ client[c].call = "read" /\ client[c].seen # NoValue /\ stored.value < MaxValue
    /\ Go(c, "idle", NoValue)
    /\ IF Expired(c, stored)
       THEN /\ stored' = NoValue /\ updates' = 0
            /\ swept' = (swept \/ stored.px > now)
       ELSE /\ UNCHANGED swept
            /\ IF [stored EXCEPT !.px = 0] = [client[c].seen EXCEPT !.px = 0]
               THEN stored' = payload(c, client[c].seen.value + 1) /\ updates' = updates + 1
               ELSE UNCHANGED <<stored, updates>>
    /\ UNCHANGED <<config, now, held>>

\* SET: a client that did not read writes its own value.
set(c) ==
    /\ Idles(c, "set")
    /\ stored' = payload(c, 1) /\ updates' = 1
    /\ UNCHANGED <<config, now, client, held, swept>>

\* Redis removes a value whose time to live has ended.
Tick ==
    /\ now < MaxTime
    /\ now' = now + 1
    /\ held' = {h \in held : h.px > now'}
    /\ IF stored # NoValue /\ stored.px <= now' THEN stored' = NoValue /\ updates' = 0
                                                ELSE UNCHANGED <<stored, updates>>
    /\ UNCHANGED <<config, client, swept>>

Next ==
    \/ \E c \in Clients : \/ get(c) \/ scan(c) \/ delete(c) \/ set_if_absent(c)
                          \/ compare_and_set(c) \/ set(c)
    \/ Tick

Spec == Init /\ [][Next]_vars

-----------------------------------------------------------------------------
\* The value counts every update that was acknowledged since it was created: no
\* compare-and-set overwrites an update its caller has not read.
ViewIsTrue == stored.value = updates

\* Two clients are told within one time to live that the key is new only if one of them,
\* or a clock that is ahead, deleted a value that had not expired.
DuplicatesExplained == Cardinality(held) > 1 => swept
=============================================================================
