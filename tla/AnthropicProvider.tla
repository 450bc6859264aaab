--------------------------- MODULE AnthropicProvider ---------------------------
(* AnthropicProvider: completions, streams and message batches under a shared  *)
(* semaphore, with retries. anthropic/anthropic.py, request_runtime.py and     *)
(* response_surface.py                                                       *)
(*                                                                          *)
(* Tasks call the provider once each. Prompts and texts are left out: an answer *)
(* is the number of the prompt it answers, a chunk of a stream the attempt it   *)
(* belongs to and its number. asyncio.gather() of complete() calls is a set of  *)
(* tasks that nobody cancels when one of them fails.                          *)
EXTENDS Naturals, Sequences, FiniteSets, SequencesExt

CONSTANTS
    Tasks,
    Prompts,    \* number of prompts of a message batch
    Chunks,     \* number of chunks of a stream
    MaxAttempts,\* max_attempts of the retry policy
    MaxFaults,  \* bound: errors, timeouts, cancellations
    Configs     \* [job, permits, format]: job[t] is "complete", "stream", "nested" (a
                \* stream whose consumer calls complete()) or "batch"; format is "none", "tool" or
                \* "prompt": how a structured answer is asked for

VARIABLES
    config, faults, task,
    permits,    \* _request_semaphore
    batch,      \* the service: processing_status of the message batch
    yielded     \* history: chunks that stream_text() yielded to the consumer of task t

vars == <<config, faults, task, permits, batch, yielded>>

Idle == [stage |-> "idle", attempt |-> 1, next |-> 1, answer |-> <<>>]

Init ==
    /\ config \in Configs
    /\ faults = 0
    /\ task = [t \in Tasks |-> Idle]
    /\ permits = config.permits
    /\ batch = "none"
    /\ yielded = [t \in Tasks |-> <<>>]

At(t, stage) == task[t].stage = stage
Job(t) == config.job[t]
Streams(t) == Job(t) \in {"stream", "nested"}
Go(t, stage) == task' = [task EXCEPT ![t].stage = stage]
Fault == faults < MaxFaults /\ faults' = faults + 1

\* Stages in which a task is inside `async with self._throttle_factory()`.
Throttled(t) == task[t].stage \in {"request", "consumer", "nested", "left", "create", "retrieve", "results"}

Acquire == permits > 0 /\ permits' = permits - 1
Release == permits' = permits + 1

Start(t) ==
    /\ At(t, "idle") /\ t \in DOMAIN config.job
    /\ Go(t, IF Job(t) = "batch" THEN "wait_create" ELSE "throttle")
    /\ UNCHANGED <<config, faults, permits, batch, yielded>>

-----------------------------------------------------------------------------
(* create_with_retry() and stream_text()                                     *)

Throttle(t) ==
    /\ At(t, "throttle") /\ Acquire
    /\ Go(t, "request")
    /\ UNCHANGED <<config, faults, batch, yielded>>

\* What a response holds: why it stopped, a tool call, and the JSON in its text.
Responses == [stop : {"end_turn", "max_tokens"}, tool : BOOLEAN, text : {"none", "json", "wrapped", "prose"}]

\* JSON that is wrapped in text is repaired.
parse_structured_json(text) == text \in {"json", "wrapped"}

completion_response_from_message(r) ==
    /\ r.stop # "max_tokens"
    /\ CASE config.format = "tool" -> r.tool
         [] config.format = "prompt" -> parse_structured_json(r.text)
         [] config.format = "none" -> r.text # "none" \/ ~r.tool

\* The response comes; complete() raises without a retry when it is not usable.
Response(t, r) ==
    /\ At(t, "request") /\ Job(t) = "complete" /\ Release
    /\ task' = [task EXCEPT ![t].stage = IF completion_response_from_message(r) THEN "done" ELSE "failed",
                            ![t].answer = IF completion_response_from_message(r) THEN <<t>> ELSE <<>>]
    /\ UNCHANGED <<config, faults, batch, yielded>>

\* The generator yields the next chunk and is suspended, permit in hand.
Yield(t) ==
    /\ At(t, "request") /\ Streams(t) /\ task[t].next <= Chunks
    /\ yielded' = [yielded EXCEPT ![t] = Append(@, <<task[t].attempt, task[t].next>>)]
    /\ task' = [task EXCEPT ![t].stage = "consumer", ![t].next = @ + 1]
    /\ UNCHANGED <<config, faults, permits, batch>>

\* The consumer asks for the next chunk, leaves the loop, or calls complete() first.
Resume(t) ==
    /\ At(t, "consumer")
    /\ \/ Go(t, "request")
       \/ Go(t, "left")
       \/ Job(t) = "nested" /\ Go(t, "nested")
    /\ UNCHANGED <<config, faults, permits, batch, yielded>>

\* The inner complete() gets a permit, and gives it back.
Nested(t) ==
    /\ At(t, "nested") /\ permits > 0
    /\ Go(t, "request")
    /\ UNCHANGED <<config, faults, permits, batch, yielded>>

StreamEnds(t) ==
    /\ At(t, "request") /\ Streams(t) /\ task[t].next > Chunks /\ Release
    /\ Go(t, "done")
    /\ UNCHANGED <<config, faults, batch, yielded>>

\* The event loop closes a generator that nobody iterates any more.
Finalize(t) ==
    /\ At(t, "left") /\ Release
    /\ Go(t, "done")
    /\ UNCHANGED <<config, faults, batch, yielded>>

\* Mutant: a stream is retried after it has yielded.
should_retry_always(t, retryable) == retryable /\ task[t].attempt < MaxAttempts

should_retry(t, retryable) ==
    retryable /\ task[t].attempt < MaxAttempts /\ yielded[t] = <<>>

\* The request fails or its timeout passes: the permit is returned before the backoff.
RequestFails(t, retryable) ==
    /\ At(t, "request") /\ Fault /\ Release
    /\ Go(t, IF should_retry(t, retryable) THEN "sleep" ELSE "failed")
    /\ UNCHANGED <<config, batch, yielded>>

Retry(t) ==
    /\ At(t, "sleep")
    /\ task' = [task EXCEPT ![t].stage = "throttle", ![t].attempt = @ + 1, ![t].next = 1]
    /\ UNCHANGED <<config, faults, permits, batch, yielded>>

\* The caller is cancelled. A timeout that passes while the consumer runs cancels the
\* consumer's task as well, wherever it waits; the generator is closed later.
Cancel(t) ==
    /\ Fault
    /\ \/ /\ task[t].stage \in {"throttle", "sleep", "wait_create", "wait_retrieve", "poll", "wait_results"}
          /\ Go(t, "failed") /\ UNCHANGED permits
       \/ /\ task[t].stage \in {"request", "create", "retrieve", "results"}
          /\ Go(t, "failed") /\ Release
       \/ /\ task[t].stage \in {"consumer", "nested"}
          /\ Go(t, "left") /\ UNCHANGED permits
    /\ UNCHANGED <<config, batch, yielded>>

-----------------------------------------------------------------------------
(* complete_batch() with the Message Batches API: no step is retried.          *)

\* A permit for the next request of the batch.
Wait(t) ==
    /\ task[t].stage \in {"wait_create", "wait_retrieve", "wait_results"} /\ Acquire
    /\ Go(t, CASE At(t, "wait_create") -> "create"
               [] At(t, "wait_retrieve") -> "retrieve"
               [] At(t, "wait_results") -> "results")
    /\ UNCHANGED <<config, faults, batch, yielded>>

create_message_batch(t) ==
    /\ At(t, "create") /\ Release
    /\ batch' = "in_progress"
    /\ Go(t, "wait_retrieve")
    /\ UNCHANGED <<config, faults, yielded>>

\* The service ends the batch.
Processed(status) ==
    /\ batch = "in_progress"
    /\ batch' = status
    /\ UNCHANGED <<config, faults, task, permits, yielded>>

wait_for_message_batch(t) ==
    /\ At(t, "retrieve") /\ Release
    /\ Go(t, CASE batch = "ended" -> "wait_results" [] batch = "in_progress" -> "poll" [] OTHER -> "failed")
    /\ UNCHANGED <<config, faults, batch, yielded>>

\* After the poll interval, or at the deadline.
Poll(t) ==
    /\ At(t, "poll")
    /\ Go(t, "wait_retrieve") \/ Go(t, "failed")
    /\ UNCHANGED <<config, faults, permits, batch, yielded>>

BatchFails(t) ==
    /\ task[t].stage \in {"create", "retrieve", "results"} /\ Fault /\ Release
    /\ Go(t, "failed")
    /\ batch' \in {batch} \cup IF At(t, "create") THEN {"in_progress"} ELSE {}
    /\ UNCHANGED <<config, yielded>>

\* Results in any order, with gaps, repetitions and failed requests.
Items == BoundedSeq([id : 1..Prompts, ok : BOOLEAN], Prompts + 1)

Usable(items) ==
    /\ \A i \in DOMAIN items : items[i].ok
    /\ \A i, j \in DOMAIN items : items[i].id = items[j].id => i = j
    /\ \A p \in 1..Prompts : \E i \in DOMAIN items : items[i].id = p

completion_responses_from_batch_results(items) ==
    [p \in 1..Prompts |-> items[SelectInSeq(items, LAMBDA item : item.id = p)].id]

retrieve_message_batch_results(t, items) ==
    /\ At(t, "results") /\ Release
    /\ task' = IF Usable(items)
               THEN [task EXCEPT ![t].stage = "done",
                                 ![t].answer = completion_responses_from_batch_results(items)]
               ELSE [task EXCEPT ![t].stage = "failed"]
    /\ UNCHANGED <<config, faults, batch, yielded>>

Next ==
    \/ \E t \in Tasks :
          \/ Start(t) \/ Throttle(t) \/ (\E r \in Responses : Response(t, r))
          \/ Yield(t) \/ Resume(t) \/ Nested(t) \/ StreamEnds(t) \/ Finalize(t)
          \/ (\E retryable \in BOOLEAN : RequestFails(t, retryable)) \/ Retry(t) \/ Cancel(t)
          \/ Wait(t) \/ create_message_batch(t) \/ wait_for_message_batch(t) \/ Poll(t)
          \/ BatchFails(t) \/ (\E items \in Items : retrieve_message_batch_results(t, items))
    \/ \E status \in {"ended", "failed", "canceled", "expired"} : Processed(status)

Spec == Init /\ [][Next]_vars

-----------------------------------------------------------------------------
\* A permit is free, or in the hands of a request or of a suspended stream, whatever
\* failed, timed out or was cancelled.
ConnectionsAccounted == permits + Cardinality({t \in Tasks : Throttled(t)}) = config.permits

\* The chunks a consumer gets are the beginning of one response, in order: a retry never
\* repeats or mixes what was already yielded.
EmittedInOrder ==
    \A t \in Tasks :
        /\ \A i \in DOMAIN yielded[t] : yielded[t][i] = <<yielded[t][1][1], i>>
        /\ At(t, "done") /\ Streams(t) /\ task[t].next > Chunks => Len(yielded[t]) = Chunks

\* A batch that returns has the answer of every prompt in its place.
ReportIsTrue ==
    \A t \in Tasks :
        At(t, "done") /\ Job(t) = "batch" => task[t].answer = [p \in 1..Prompts |-> p]
=============================================================================
