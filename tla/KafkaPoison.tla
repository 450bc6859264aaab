----------------------------- MODULE KafkaPoison -----------------------------
(* The poison-record policies of a Kafka source: what happens to records that   *)
(* cannot be deserialized, and to the dead letters written for them.            *)
(* kafka/sources/_poison.py, _poison_controller.py, _delivery.py               *)
(*                                                                          *)
(* The source is reduced to one partition whose offset is committed with every *)
(* record (the rest is KafkaSource); the payload of a letter is left out.        *)
EXTENDS Naturals, Sequences, SequencesExt, FiniteSets

CONSTANTS
    End,        \* records of the partition
    MaxOpens,   \* bound: streams
    MaxFaults,  \* bound: failed writes of the dead-letter sink, dead processes
    Configs     \* [policy, default, batching, write_batch, poll, bad, error]: policy is none
                \* when on_deserialize_error (default) decides; write_batch: the sink has it;
                \* bad: records that fail; error: the classes whose marks the exception shows

VARIABLES
    config, faults, opens,
    call,       \* the stream: closed, streaming, capture (dead letters are being written)
    position,   \* records fetched
    batch,      \* records fetched and not handled
    sent,       \* letters of the capture in progress that are written
    committed,  \* the committed offset
    store,      \* the dead-letter sink
    stats,      \* counters of the delivery controller and the poison controller
    done,       \* history: records the runner has handled
    missed      \* history: records whose letter could not be written, as far as the source knows

vars == <<config, faults, opens, call, position, batch, sent, committed, store, stats, done, missed>>

Records == 1..End
Classes == {"binding_mismatch", "schema_evolution", "schema_validation", "deserialization", "unknown"}
Zero == [errors |-> 0, drops |-> 0, dlq_writes |-> 0, dlq_failures |-> 0, log_only |-> 0,
         fail_closed |-> 0, classes |-> [c \in Classes |-> 0]]

Init ==
    /\ config \in Configs
    /\ faults = 0 /\ opens = 0
    /\ call = "closed" /\ position = 0 /\ batch = <<>> /\ sent = 0
    /\ committed = 0 /\ store = <<>> /\ stats = Zero
    /\ done = {} /\ missed = {}

-----------------------------------------------------------------------------
(* Policies.                                                                 *)

resolve_poison_record_policy ==
    IF config.policy # "none" THEN config.policy
    ELSE IF config.default = "log_and_continue" THEN "log_and_continue" ELSE "fail_closed"

Policy == resolve_poison_record_policy
should_continue_after_poison_record == Policy \in {"log_and_continue", "dlq_and_continue"}
Captures == Policy \in {"dlq_and_continue", "dlq_and_fail_closed"}

\* The first mark that the name or the text of the exception has.
classify_poison_record(error) ==
    LET order == <<"binding_mismatch", "schema_evolution", "schema_validation", "deserialization">>
        fits == {i \in 1..4 : order[i] \in error}
    IN  IF fits = {} THEN "unknown" ELSE order[CHOOSE i \in fits : \A j \in fits : i <= j]

\* The records that fail together: one, or the whole batch of a batch deserializer.
Unit == IF config.batching THEN batch ELSE <<Head(batch)>>
Poison == ToSet(Unit) \cap config.bad # {}
Rest == SubSeq(batch, Len(Unit) + 1, Len(batch))

-----------------------------------------------------------------------------
(* The stream.                                                               *)

\* A stream starts at the committed offset. Counters of the run start again, those of
\* the policy go on. The dead-letter sink opens first; when it does not, neither does
\* the source.
Start ==
    /\ call = "closed" /\ opens < MaxOpens
    /\ \/ faults < MaxFaults /\ faults' = faults + 1 /\ UNCHANGED <<call, position, stats, opens>>
       \/ /\ call' = "streaming" /\ position' = committed /\ opens' = opens + 1
          /\ stats' = [stats EXCEPT !.errors = 0, !.drops = 0]
          /\ UNCHANGED faults
    /\ UNCHANGED <<config, batch, sent, committed, store, done, missed>>

Poll ==
    /\ call = "streaming" /\ batch = <<>>
    /\ \E n \in 1..config.poll :
          /\ position + n <= End
          /\ batch' = [i \in 1..n |-> position + i] /\ position' = position + n
    /\ UNCHANGED <<config, faults, opens, call, sent, committed, store, stats, done, missed>>

Deliver ==
    /\ call = "streaming" /\ batch # <<>> /\ ~Poison
    /\ done' = done \cup {Head(batch)} /\ committed' = Head(batch) /\ batch' = Tail(batch)
    /\ UNCHANGED <<config, faults, opens, call, position, sent, store, stats, missed>>

\* What follows once the letters are dealt with: the records are dropped and their
\* offset is committed, or the stream raises.
Decide(counted) ==
    /\ sent' = 0
    /\ \/ /\ should_continue_after_poison_record
          /\ call' = "streaming" /\ batch' = Rest /\ committed' = Last(Unit)
          /\ stats' = [counted EXCEPT !.drops = @ + Len(Unit)]
       \/ /\ ~should_continue_after_poison_record
          /\ call' = "closed" /\ batch' = <<>> /\ stats' = counted /\ UNCHANGED committed

\* Records are counted before anything is written for them.
Observed(n) == [stats EXCEPT
    !.errors = @ + n,
    !.classes[classify_poison_record(config.error)] = @ + n,
    !.log_only = @ + (IF Policy = "log_and_continue" THEN n ELSE 0),
    !.fail_closed = @ + (IF Policy \in {"fail_closed", "dlq_and_fail_closed"} THEN n ELSE 0)]

observe_poison_records ==
    /\ call = "streaming" /\ batch # <<>> /\ Poison
    /\ \/ ~Captures /\ Decide(Observed(Len(Unit)))
       \/ /\ Captures /\ call' = "capture" /\ stats' = Observed(Len(Unit))
          /\ UNCHANGED <<batch, sent, committed>>
    /\ UNCHANGED <<config, faults, opens, position, store, done, missed>>

-----------------------------------------------------------------------------
(* Dead letters.                                                             *)

\* Letters that one call of the dead-letter sink writes.
Letters ==
    IF config.batching /\ config.write_batch THEN Unit ELSE <<Unit[sent + 1]>>

\* Letters count as written when all of them are.
Captured == [stats EXCEPT !.dlq_writes = @ + Len(Unit)]

capture_poison_batch ==
    /\ call = "capture"
    /\ store' = store \o Letters
    /\ \/ sent + Len(Letters) = Len(Unit) /\ Decide(Captured)
       \/ /\ sent + Len(Letters) < Len(Unit)
          /\ sent' = sent + Len(Letters)
          /\ UNCHANGED <<call, batch, committed, stats>>
    /\ UNCHANGED <<config, faults, opens, position, done, missed>>

\* A write raises, though some of its letters may be stored: all letters of the capture
\* count as failed. dlq_and_fail_closed raises; dlq_and_continue drops the records.
handle_poison_dlq_write_error ==
    /\ call = "capture" /\ faults < MaxFaults /\ faults' = faults + 1
    /\ \E k \in 0..Len(Letters) : store' = store \o SubSeq(Letters, 1, k)
    /\ missed' = missed \cup ToSet(Unit)
    /\ Decide([stats EXCEPT !.dlq_failures = @ + Len(Unit)])
    /\ UNCHANGED <<config, opens, position, done>>

-----------------------------------------------------------------------------

\* The runner closes the stream.
Leave ==
    /\ call = "streaming" /\ call' = "closed" /\ batch' = <<>>
    /\ UNCHANGED <<config, faults, opens, position, sent, committed, store, stats, done, missed>>

\* The process dies, also between the letters and the commit; a new one counts from zero.
Crash ==
    /\ call # "closed" /\ faults < MaxFaults /\ faults' = faults + 1
    /\ call' = "closed" /\ batch' = <<>> /\ sent' = 0 /\ stats' = Zero
    /\ UNCHANGED <<config, opens, position, committed, store, done, missed>>

Next ==
    \/ Start \/ Poll \/ Deliver \/ observe_poison_records \/ capture_poison_batch
    \/ handle_poison_dlq_write_error \/ Leave \/ Crash

Spec == Init /\ [][Next]_vars

-----------------------------------------------------------------------------
(* Properties.                                                               *)

\* The committed offset passes a record only when the runner has handled it, its dead
\* letter is stored, the policy is to log it, or the policy is to go on without the letter
\* that could not be written. A policy that fails closed passes handled records alone.
RowsKept ==
    LET passed == 1..committed \ done
    IN  /\ Captures => passed \subseteq ToSet(store) \cup missed
        /\ ~should_continue_after_poison_record => passed = {}

Classified ==
    stats.classes["binding_mismatch"] + stats.classes["schema_evolution"]
    + stats.classes["schema_validation"] + stats.classes["deserialization"] + stats.classes["unknown"]

\* Every record that was classified is accounted for by exactly one outcome once its
\* handling has ended, and no letter is reported that is not stored.
ReportIsTrue ==
    /\ stats.dlq_writes <= Len(store)
    /\ stats.drops <= stats.errors
    /\ call # "capture" /\ Captures => Classified = stats.dlq_writes + stats.dlq_failures
    /\ Policy = "log_and_continue" => Classified = stats.log_only
    /\ ~should_continue_after_poison_record => Classified = stats.fail_closed

\* A record has a second letter only when it was read again by a second stream.
DuplicatesExplained ==
    \A r \in Records : Len(SelectSeq(store, LAMBDA l : l = r)) <= opens
=============================================================================
