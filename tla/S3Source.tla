------------------------------ MODULE S3Source ------------------------------
(* S3Source: the objects under a prefix in key order, each downloaded to a   *)
(* local file and read record by record.                                     *)
(* s3/sources/s3.py, s3/sources/object_runtime.py                            *)
(*                                                                          *)
(* Object k holds the rows 2k-1 and 2k. The local file reader (agora) drops  *)
(* or raises a row that fails, as on_record_error says. Uploaders add objects *)
(* at the end of the key order while the source lists them page by page.     *)
EXTENDS Naturals, Sequences, SequencesExt

CONSTANTS
    Objects,    \* bound: the last object
    Bad,        \* rows that row_mapper fails on
    MaxFaults,  \* bound: failed calls and streams given up
    Configs     \* [log_and_continue]

VARIABLES
    config, faults,
    call,       \* "idle", "list", "download", "emit" or "yielded"
    store,      \* number of objects in the bucket
    params,     \* _resume_after_key
    rows,       \* keys of the page that is not scanned yet
    listed,     \* keys up to this one have been listed
    batch,      \* rows of the object not read yet
    progress,   \* object in progress, _last_completed_key
    success,    \* the stream ended without an error
    emitted, done, saved

vars == <<config, faults, call, store, params, rows, listed, batch, progress, success,
          emitted, done, saved>>

NoProgress == [object |-> 0, completed |-> 0]

Init ==
    /\ config \in Configs
    /\ faults = 0 /\ store \in 1..Objects
    /\ call = "idle" /\ params = 0 /\ rows = <<>> /\ listed = 0 /\ batch = <<>>
    /\ progress = NoProgress /\ success = FALSE
    /\ emitted = <<>> /\ done = {} /\ saved = 0

\* prepare_resume() with the saved checkpoint, then stream().
Start ==
    /\ call = "idle"
    /\ call' = "list"
    /\ params' = saved \div 2 /\ progress' = NoProgress /\ success' = FALSE
    /\ listed' = 0 /\ rows' = <<>> /\ batch' = <<>> /\ emitted' = <<>>
    /\ UNCHANGED <<config, faults, store, done, saved>>

Upload ==
    /\ store < Objects /\ store' = store + 1
    /\ UNCHANGED <<config, faults, call, params, rows, listed, batch, progress, success,
                   emitted, done, saved>>

\* iter_object_keys() lists a page when the last one is used up; the stream skips keys
\* up to the resume key. Without another page it ends.
NextKey ==
    /\ call = "list"
    /\ \/ /\ rows = <<>> /\ listed < store
          /\ rows' = [i \in 1..(store - listed) |-> listed + i] /\ listed' = store
          /\ UNCHANGED <<call, progress, success>>
       \/ /\ rows = <<>> /\ listed = store
          /\ call' = "idle" /\ success' = TRUE
          /\ UNCHANGED <<rows, listed, progress>>
       \/ /\ rows # <<>>
          /\ rows' = Tail(rows)
          /\ IF Head(rows) <= params
             THEN UNCHANGED <<call, progress>>
             ELSE call' = "download" /\ progress' = [progress EXCEPT !.object = Head(rows)]
          /\ UNCHANGED <<listed, success>>
    /\ UNCHANGED <<config, faults, store, params, batch, emitted, done, saved>>

Download ==
    /\ call = "download"
    /\ call' = "emit"
    /\ batch' = <<2 * progress.object - 1, 2 * progress.object>>
    /\ UNCHANGED <<config, faults, store, params, rows, listed, progress, success, emitted,
                   done, saved>>

\* The local reader gives the next row, drops it or raises; at its end the object is
\* completed.
EmitRow ==
    /\ call = "emit"
    /\ \/ /\ batch = <<>>
          /\ progress' = [progress EXCEPT !.completed = progress.object]
          /\ call' = "list" /\ UNCHANGED <<batch, emitted, done>>
       \/ /\ batch # <<>> /\ Head(batch) \notin Bad
          /\ emitted' = Append(emitted, Head(batch))
          /\ call' = "yielded" /\ batch' = Tail(batch)
          /\ UNCHANGED <<progress, done>>
       \/ /\ batch # <<>> /\ Head(batch) \in Bad
          /\ IF config.log_and_continue
             THEN batch' = Tail(batch) /\ done' = done \cup {Head(batch)} /\ UNCHANGED call
             ELSE call' = "idle" /\ UNCHANGED <<batch, done>>
          /\ UNCHANGED <<progress, emitted>>
    /\ UNCHANGED <<config, faults, store, params, rows, listed, success, saved>>

\* Mutant: the checkpoint is the object that is being read.
HandleCurrent(save) ==
    /\ call = "yielded"
    /\ call' = "emit"
    /\ done' = done \cup {emitted[Len(emitted)]}
    /\ saved' = IF save THEN 2 * progress.object ELSE saved
    /\ UNCHANGED <<config, faults, store, params, rows, listed, batch, progress, success, emitted>>

\* The runner has handled the row. The checkpoint is the last object that is completed.
Handle(save) ==
    /\ call = "yielded"
    /\ call' = "emit"
    /\ done' = done \cup {emitted[Len(emitted)]}
    /\ saved' = IF save /\ progress.completed # 0 THEN 2 * progress.completed ELSE saved
    /\ UNCHANGED <<config, faults, store, params, rows, listed, batch, progress, success, emitted>>

\* After the stream the runner saves the last checkpoint.
SaveLast ==
    /\ call = "idle" /\ success /\ progress.completed # 0
    /\ saved' = 2 * progress.completed
    /\ UNCHANGED <<config, faults, call, store, params, rows, listed, batch, progress,
                   success, emitted, done>>

\* Listing, a download or the runner fails.
Fail ==
    /\ call # "idle"
    /\ faults < MaxFaults /\ faults' = faults + 1
    /\ call' = "idle"
    /\ UNCHANGED <<config, store, params, rows, listed, batch, progress, success, emitted,
                   done, saved>>

Next ==
    \/ Start \/ Upload \/ NextKey \/ Download \/ EmitRow \/ SaveLast \/ Fail
    \/ \E save \in BOOLEAN : Handle(save)

Spec == Init /\ [][Next]_vars

-----------------------------------------------------------------------------
\* A stream gives its rows in order, each once, and only those after its checkpoint.
EmittedInOrder ==
    \A i \in DOMAIN emitted : emitted[i] > 2 * params /\ (i > 1 => emitted[i - 1] < emitted[i])

\* A stream that ends has given the runner every object it has listed.
CompletedIsDone == success => 1..(2 * listed) \subseteq done
=============================================================================
