------------------------------ MODULE KafkaDLQ ------------------------------
(* KafkaDLQSink and KafkaDLQSource: dead letters as events of a topic.       *)
(* kafka/dlq.py, kafka/_dlq_sink_surface.py, _dlq_source_scan_runtime.py,    *)
(* _dlq_compaction.py                                                        *)
(*                                                                           *)
(* write() and replay() append a "put" envelope of the letter's storage key, *)
(* acknowledge() a "delete"; the key fixes the partition. They return once   *)
(* the producer has the envelope (KafkaSink.write), the sink has no flush(), *)
(* so only close() waits for the broker. A scan reads the topic up to its    *)
(* high watermark and offers the letters whose last envelope is a put.       *)
EXTENDS Integers, Sequences, SequencesExt, FiniteSets

CONSTANTS
    Letters,      \* numbers of letters
    MaxAttempts,  \* max_attempts of every letter
    MaxEvents,    \* bound: envelopes appended
    IdlePolls,    \* scan_idle_polls
    Configs       \* [start, highwater, crash]: start_offsets[p] or -1; stop_at_highwater;
                  \* whether the process that writes may die or a delivery may fail

VARIABLES
    config,
    store,    \* store[p]: the envelopes of partition p
    buffer,   \* envelopes the producer has and the broker has not
    client,   \* the sink: "open", "closed", "failed" (close() raised) or "dead"
    dropped,  \* envelopes whose delivery failed and that nobody was told of
    scan, hand,
    position, \* position[p]: the consumer's, kept from scan to scan while it is open
    given,    \* number of envelopes appended
    intent,   \* history: intent[l] is the envelope of the last call about letter l
    replays,  \* replays[l]: replay() calls that returned
    hasty     \* history: a scan began before all envelopes were delivered, was idle too long, or
              \* kept messages from before a gap

vars == <<config, store, buffer, client, dropped, scan, hand, position, given, intent, replays, hasty>>

Parts == {0, 1}
Part(l) == l % 2
Nothing == [letter |-> 0, op |-> "none", attempt |-> 0]
NoMark == [p \in Parts |-> -1]
NoScan == [stage |-> "closed", whole |-> TRUE, prefetch |-> <<>>, mark |-> NoMark, idle |-> 0,
           latest |-> <<>>, todo |-> <<>>, seen |-> <<>>, begun |-> [p \in Parts |-> <<>>]]

Init ==
    /\ config \in Configs
    /\ store = [p \in Parts |-> <<>>] /\ buffer = <<>> /\ client = "open" /\ dropped = <<>>
    /\ scan = NoScan /\ hand = [l \in Letters |-> Nothing]
    /\ position = [p \in Parts |-> -1] \* the source is not open
    /\ given = 0 /\ intent = [l \in Letters |-> Nothing] /\ replays = [l \in Letters |-> 0] /\ hasty = FALSE

\* The last envelope of a letter in a sequence of them, Nothing if there is none.
LastOf(s, l) == LET own == {i \in DOMAIN s : s[i].letter = l}
               IN  IF own = {} THEN Nothing ELSE s[Max(own)]

-----------------------------------------------------------------------------
(* The sink.                                                                 *)

Send(e) ==
    /\ client = "open" /\ given < MaxEvents
    /\ given' = given + 1
    /\ buffer' = Append(buffer, e)
    /\ intent' = [intent EXCEPT ![e.letter] = e]
    /\ UNCHANGED <<config, store, client, dropped, scan, position, hasty>>

\* write() and write_batch() of letters that have not been written.
Put(l) == [letter |-> l, op |-> "put", attempt |-> 0]
Write(l) ==
    /\ intent[l] = Nothing
    /\ Send(Put(l))
    /\ UNCHANGED <<hand, replays>>

\* replay(): the updated record is written as a whole, its attempt with it.
Replayed(rec) == [letter |-> rec.letter, op |-> "put", attempt |-> rec.attempt + 1]
Replay(l) ==
    /\ hand[l] # Nothing /\ hand[l].attempt < MaxAttempts
    /\ Send(Replayed(hand[l]))
    /\ hand' = [hand EXCEPT ![l] = Replayed(@)]
    /\ replays' = [replays EXCEPT ![l] = @ + 1]

Delete(l) == [letter |-> l, op |-> "delete", attempt |-> 0]
Acknowledge(l) ==
    /\ hand[l] # Nothing
    /\ Send(Delete(l))
    /\ hand' = [hand EXCEPT ![l] = Nothing]
    /\ replays' = [replays EXCEPT ![l] = 0]

\* The producer delivers the envelopes of a partition in order.
Deliver(p) ==
    /\ client # "dead"
    /\ \E i \in DOMAIN buffer :
        /\ Part(buffer[i].letter) = p
        /\ \A j \in 1..(i - 1) : Part(buffer[j].letter) # p
        /\ store' = [store EXCEPT ![p] = Append(@, buffer[i])]
        /\ buffer' = RemoveAt(buffer, i)
    /\ UNCHANGED <<config, client, dropped, scan, hand, position, given, intent, replays, hasty>>

DeliveryFails ==
    /\ config.crash /\ client = "open" /\ buffer # <<>> /\ dropped = <<>>
    /\ dropped' = Append(dropped, Head(buffer)) /\ buffer' = Tail(buffer)
    /\ UNCHANGED <<config, store, client, scan, hand, position, given, intent, replays, hasty>>

\* close() waits for every confirmation and raises the error of one that failed.
Close ==
    /\ client = "open" /\ buffer = <<>>
    /\ client' = IF dropped = <<>> THEN "closed" ELSE "failed"
    /\ UNCHANGED <<config, store, buffer, dropped, scan, hand, position, given, intent, replays, hasty>>

Crash ==
    /\ config.crash /\ client = "open" /\ client' = "dead"
    /\ buffer' = <<>>
    /\ UNCHANGED <<config, store, dropped, scan, hand, position, given, intent, replays, hasty>>

-----------------------------------------------------------------------------
(* The source.                                                               *)

\* open(): a consumer of a group that never commits starts at the earliest offset.
Open ==
    /\ scan.stage = "closed" /\ position = [p \in Parts |-> -1]
    /\ position' = [p \in Parts |-> 0]
    /\ UNCHANGED <<config, store, buffer, client, dropped, scan, hand, given, intent, replays, hasty>>
CloseSource ==
    /\ scan.stage = "closed" /\ position # [p \in Parts |-> -1]
    /\ position' = [p \in Parts |-> -1]
    /\ UNCHANGED <<config, store, buffer, client, dropped, scan, hand, given, intent, replays, hasty>>

\* getmany(): messages of any of the partitions, or nothing in time.
Fetches == {f \in [Parts -> 0..MaxEvents] : \A p \in Parts : position[p] + f[p] <= Len(store[p])}
Messages(f) == SubSeq(store[0], position[0] + 1, position[0] + f[0]) \o
               SubSeq(store[1], position[1] + 1, position[1] + f[1])
Advance(f) == [p \in Parts |-> position[p] + f[p]]
NoFetch == [p \in Parts |-> 0]

\* wait_for_assignment(): the poll that joins the group may return messages; they are kept.
\* A scan is whole if it starts at the beginning of the topic.
Join(f) ==
    /\ scan.stage = "closed" /\ position # [p \in Parts |-> -1] /\ f \in Fetches
    /\ scan' = [NoScan EXCEPT !.stage = "seek", !.begun = store,
                              !.whole = position = NoFetch,
                              !.prefetch = IF f = NoFetch THEN <<>> ELSE <<Messages(f)>>]
    /\ position' = Advance(f)
    /\ hand' = [l \in Letters |-> Nothing]
    /\ hasty' = (hasty \/ buffer # <<>>)
    /\ UNCHANGED <<config, store, buffer, client, dropped, given, intent, replays>>

\* No assignment within 20 polls: nothing is offered.
NotAssigned ==
    /\ scan.stage = "closed" /\ position # [p \in Parts |-> -1]
    /\ hand' = [l \in Letters |-> Nothing]
    /\ UNCHANGED <<config, store, buffer, client, dropped, scan, position, given, intent, replays, hasty>>

\* apply_start_offsets(). An offset past the end of its partition is out of range: the
\* consumer starts at the earliest one. What the join has returned stays, even if the offsets
\* skip what follows it.
Seek ==
    /\ scan.stage = "seek"
    /\ position' = [p \in Parts |-> CASE config.start[p] > Len(store[p]) -> 0
                                      [] config.start[p] \in 0..Len(store[p]) -> config.start[p]
                                      [] OTHER -> position[p]]
    /\ scan' = [scan EXCEPT !.stage = "mark", !.whole = @ /\ \A p \in Parts : config.start[p] <= 0]
    /\ hasty' = (hasty \/ (scan.prefetch # <<>> /\ \E p \in Parts : position[p] < position'[p]))
    /\ UNCHANGED <<config, store, buffer, client, dropped, hand, given, intent, replays>>

\* partition_highwater_offsets(): none if it is switched off or the call fails.
HighWater(known) ==
    /\ scan.stage = "mark"
    /\ known => config.highwater
    /\ scan' = [scan EXCEPT !.stage = "poll",
                            !.mark = IF known THEN [p \in Parts |-> Len(store[p])] ELSE NoMark]
    /\ UNCHANGED <<config, store, buffer, client, dropped, hand, position, given, intent, replays, hasty>>

\* KafkaDLQCompactionState: the last envelope of every key, in memory or, above the spill
\* threshold, in a table; live_records() in the order they were seen.
Updated(latest, messages) ==
    FoldLeft(LAMBDA seen, e : Append(SelectSeq(seen, LAMBDA x : x.letter # e.letter), e),
             latest, messages)
Live(latest) == SelectSeq(latest, LAMBDA e : e.op = "put")

\* Mutant: one partition at its mark is enough.
ReachedOneMark(pos) == scan.mark # NoMark /\ \E p \in Parts : pos[p] >= scan.mark[p]

ReachedHighWater(pos) == scan.mark # NoMark /\ \A p \in Parts : pos[p] >= scan.mark[p]

\* One round of the scan loop: kept messages first, then a poll. It ends at the high
\* watermark, or after scan_idle_polls empty polls in a row, wherever that is.
Poll(f) ==
    /\ scan.stage = "poll"
    /\ IF scan.prefetch # <<>> THEN f = NoFetch ELSE f \in Fetches
    /\ position' = Advance(f)
    /\ LET messages == IF scan.prefetch # <<>> THEN Head(scan.prefetch) ELSE Messages(f)
           latest == Updated(scan.latest, messages)
           idle == IF messages = <<>> THEN scan.idle + 1 ELSE 0
           reached == ReachedHighWater(position')
           ends == reached \/ idle >= IdlePolls
       IN  /\ hasty' = (hasty \/ (ends /\ ~reached))
           /\ scan' = [scan EXCEPT !.prefetch = IF @ = <<>> THEN @ ELSE Tail(@),
                                !.latest = latest, !.idle = idle,
                                !.whole = @ /\ (ends => reached),
                                !.todo = IF ends THEN Live(latest) ELSE @,
                                !.stage = IF ends THEN "offer" ELSE "poll"]
    /\ UNCHANGED <<config, store, buffer, client, dropped, hand, given, intent, replays>>

\* stream(): used-up letters are passed over.
Offer ==
    /\ scan.stage = "offer" /\ scan.todo # <<>>
    /\ LET rec == Head(scan.todo)
           due == rec.attempt < MaxAttempts
       IN  /\ scan' = [scan EXCEPT !.todo = Tail(@), !.seen = IF due THEN Append(@, rec) ELSE @]
           /\ hand' = IF due THEN [hand EXCEPT ![rec.letter] = rec] ELSE hand
    /\ UNCHANGED <<config, store, buffer, client, dropped, position, given, intent, replays, hasty>>

ScanEnds ==
    /\ scan.stage = "offer" /\ scan.todo = <<>> /\ scan' = NoScan
    /\ UNCHANGED <<config, store, buffer, client, dropped, hand, position, given, intent, replays, hasty>>

Next ==
    \/ \E l \in Letters : Write(l) \/ Replay(l) \/ Acknowledge(l)
    \/ \E p \in Parts : Deliver(p)
    \/ DeliveryFails \/ Close \/ Crash
    \/ Open \/ CloseSource \/ NotAssigned \/ Seek \/ HighWater(TRUE) \/ HighWater(FALSE)
    \/ \E f \in [Parts -> 0..MaxEvents] : Join(f) \/ Poll(f)
    \/ Offer \/ ScanEnds

Spec == Init /\ [][Next]_vars

-----------------------------------------------------------------------------
\* However deliveries to the partitions are interleaved, the last call about a letter wins:
\* until a delivery fails its last envelope is in the topic or on the way there, and once
\* close() has returned it is in the topic. After a crash nothing is promised.
LettersKept ==
    dropped = <<>> /\ client # "dead" =>
        \A l \in Letters : /\ LastOf(store[Part(l)] \o buffer, l) = intent[l]
                           /\ client = "closed" => LastOf(store[Part(l)], l) = intent[l]

\* A scan from the beginning of the topic to its high watermark offers every letter that
\* was there when it began, of which nothing was delivered since, with attempts left, none
\* that was acknowledged before it began, and none twice. A scan that was idle too long
\* promises nothing.
Since(p) == SubSeq(store[p], Len(scan.begun[p]) + 1, Len(store[p]))
ScanIsTrue ==
    scan.stage = "offer" /\ scan.todo = <<>> =>
        /\ IsInjective([i \in DOMAIN scan.seen |-> scan.seen[i].letter])
        /\ scan.whole => \A l \in Letters :
            LET was == LastOf(scan.begun[Part(l)], l)
            IN  LastOf(Since(Part(l)), l) = Nothing =>
                    ((was.op = "put" /\ was.attempt < MaxAttempts) <=> was \in ToSet(scan.seen))

\* Every replay counts, with an encrypted payload too: a letter in the topic or on its way
\* has as many attempts as replay() calls have returned, if every scan waited for what
\* had been sent and read it without a gap.
AttemptsCounted ==
    \A l \in Letters : LET e == LastOf(store[Part(l)] \o buffer, l)
                       IN  e.op = "put" /\ ~hasty /\ dropped = <<>> /\ client # "dead" => e.attempt >= replays[l]
=============================================================================
