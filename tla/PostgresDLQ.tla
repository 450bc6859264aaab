----------------------------- MODULE PostgresDLQ -----------------------------
(* PostgresDLQSink and PostgresDLQSource: dead letters in a table.           *)
(* postgres/dlq.py                                                           *)
(*                                                                           *)
(* Letters are numbered in created_at order. The callers of one sink share   *)
(* its connection and with it the open transaction: view is the table as     *)
(* that transaction sees it, store the committed table.                      *)
EXTENDS Naturals, Sequences, SequencesExt, FiniteSets

CONSTANTS
    Tasks,        \* callers
    Letters,      \* numbers of letters
    MaxAttempts,  \* max_attempts of every letter
    MaxFaults,    \* bound: refused statements and lost connections
    Configs       \* [writers, handlers, calls, sealed]; calls: which calls are made besides write() ("batch"
                  \* is write_batch());
                  \* sealed: a payload policy of mode "encrypted"

VARIABLES
    config, task, store, faults,
    conn,     \* [epoch, up, ready, view, dirty, failed, serial]: the sink's connection; serial
              \* is the next value of the table's id
    scan,     \* the source: [todo, seen, must], or NoScan
    hand,     \* hand[l]: what a scan last offered of letter l, as replay() updated it, or Nothing
    written,  \* letters whose write() returned
    removed,  \* letters that somebody has begun to acknowledge
    gone,     \* ids of rows whose acknowledge() returned
    replays,  \* replays[l]: replay() calls that returned
    mixed     \* history: statements of one call were rolled back by another

vars == <<config, task, store, faults, conn, scan, hand, written, removed, gone, replays, mixed>>

Nothing == [id |-> 0, letter |-> 0, attempt |-> 0]
NoScan == [todo |-> <<>>, seen |-> <<>>, must |-> {}, open |-> FALSE]
Idle == [call |-> "idle", todo |-> <<>>, sent |-> 0, rec |-> Nothing, epoch |-> 0,
         stage |-> "idle", again |-> FALSE]
OneCaller == Cardinality(config.writers \cup config.handlers) = 1
Busy(t) == task[t].call # "idle"

Init ==
    /\ config \in Configs
    /\ task = [t \in Tasks |-> Idle]
    /\ store = {} /\ faults = 0
    /\ conn = [epoch |-> 1, up |-> TRUE, ready |-> TRUE, view |-> {}, dirty |-> {}, failed |-> FALSE,
               serial |-> 1]
    /\ scan = NoScan /\ hand = [l \in Letters |-> Nothing]
    /\ written = {} /\ removed = {} /\ gone = {}
    /\ replays = [l \in Letters |-> 0] /\ mixed = FALSE

-----------------------------------------------------------------------------
(* Calls.                                                                    *)

Begin(t, c) ==
    /\ ~Busy(t)
    /\ task' = [task EXCEPT ![t] = [c EXCEPT !.stage = "connect"]]
    /\ UNCHANGED <<config, store, faults, conn, scan, hand, written, gone, replays, mixed>>

\* write() and write_batch().
Write(t, letters) ==
    /\ t \in config.writers /\ letters # <<>> /\ ToSet(letters) \cap written = {}
    /\ \A u \in Tasks : ToSet(letters) \cap ToSet(task[u].todo) = {}
    /\ Begin(t, [Idle EXCEPT !.call = "write", !.todo = letters])
    /\ UNCHANGED removed

\* replay() and acknowledge() of a letter that a scan has offered.
Replay(t, l) ==
    /\ t \in config.handlers /\ "replay" \in config.calls /\ hand[l] # Nothing
    /\ hand[l].attempt < MaxAttempts /\ replays[l] <= MaxAttempts
    /\ Begin(t, [Idle EXCEPT !.call = "replay", !.todo = <<l>>, !.rec = hand[l]])
    /\ UNCHANGED removed

Acknowledge(t, l) ==
    /\ t \in config.handlers /\ "acknowledge" \in config.calls
    /\ hand[l] # Nothing /\ hand[l].id \notin gone
    /\ \A u \in Tasks : task[u].rec # hand[l]
    /\ Begin(t, [Idle EXCEPT !.call = "acknowledge", !.todo = <<l>>, !.rec = hand[l]])
    /\ removed' = removed \cup {l}

\* _get_conn(), and _ensure_table() before an insert: its DDL is committed, with
\* whatever else the connection's transaction holds.
Fresh == [conn EXCEPT !.epoch = @ + 1, !.up = TRUE, !.view = store, !.dirty = {}, !.failed = FALSE]
Connect(t) ==
    /\ task[t].stage = "connect"
    /\ LET c == IF conn.up THEN conn ELSE Fresh
           ddl == task[t].call = "write" /\ ~c.ready
       IN  IF ddl /\ c.failed
           THEN task' = [task EXCEPT ![t] = Idle] /\ UNCHANGED <<conn, store>>
           ELSE /\ conn' = IF ddl THEN [c EXCEPT !.ready = TRUE, !.dirty = {}] ELSE c
                /\ store' = IF ddl THEN c.view ELSE store
                /\ task' = [task EXCEPT ![t].stage = "run", ![t].epoch = c.epoch]
    /\ UNCHANGED <<config, faults, scan, hand, written, removed, gone, replays, mixed>>

\* The statements: an insert that keeps the row of the same dedupe_key, an update of
\* the attempt column, a delete.
NewRow(l) == [id |-> conn.serial, letter |-> l, attempt |-> 0]
Insert(rows, l) == IF \E row \in rows : row.letter = l THEN rows ELSE rows \cup {NewRow(l)}
\* Mutant: the attempt that was read is written back.
UpdateSame(rows, rec) ==
    {IF row.id = rec.id THEN [row EXCEPT !.attempt = rec.attempt] ELSE row : row \in rows}

Update(rows, rec) ==
    {IF row.id = rec.id THEN [row EXCEPT !.attempt = rec.attempt + 1] ELSE row : row \in rows}
Delete(rows, rec) == {row \in rows : row.id # rec.id}
Effect(rows, c) == CASE c.call = "write" -> Insert(rows, c.todo[c.sent + 1])
                     [] c.call = "replay" -> Update(rows, c.rec)
                     [] c.call = "acknowledge" -> Delete(rows, c.rec)

Mine(t) == conn.up /\ task[t].epoch = conn.epoch
Execute(t) ==
    /\ task[t].stage = "run"
    /\ Mine(t) /\ ~conn.failed
    /\ conn' = [conn EXCEPT !.view = Effect(@, task[t]), !.dirty = @ \cup {t},
                             !.serial = IF task[t].call = "write" THEN @ + 1 ELSE @]
    /\ task' = [task EXCEPT ![t].sent = @ + 1,
                            ![t].stage = IF task[t].sent + 1 = Len(task[t].todo) THEN "commit" ELSE "run"]
    /\ UNCHANGED <<config, store, faults, scan, hand, written, removed, gone, replays, mixed>>

Done(t) ==
    /\ task' = [task EXCEPT ![t] = Idle]
    /\ written' = IF task[t].call = "write" THEN written \cup ToSet(task[t].todo) ELSE written
    /\ gone' = IF task[t].call = "acknowledge" THEN gone \cup {task[t].rec.id} ELSE gone
    /\ replays' = CASE task[t].call = "replay" -> [replays EXCEPT ![task[t].rec.letter] = @ + 1]
                    [] task[t].call = "acknowledge" -> [replays EXCEPT ![task[t].rec.letter] = 0]
                    [] OTHER -> replays
    /\ hand' = IF task[t].call = "replay" /\ hand[task[t].rec.letter] = task[t].rec
               THEN [hand EXCEPT ![task[t].rec.letter].attempt = @ + 1] ELSE hand

\* commit(): a transaction that another call's error has failed is rolled back, and
\* commit() does not say so.
Commit(t) ==
    /\ task[t].stage = "commit" /\ Mine(t)
    /\ LET kept == IF conn.failed THEN store ELSE conn.view
       IN  store' = kept /\ conn' = [conn EXCEPT !.view = kept, !.dirty = {}, !.failed = FALSE]
    /\ mixed' = (mixed \/ conn.failed)
    /\ Done(t)
    /\ UNCHANGED <<config, faults, scan, removed>>

\* A statement is refused, its own or because another call's has failed the transaction:
\* the call rolls the transaction back and raises.
Down == [conn EXCEPT !.up = FALSE, !.ready = FALSE, !.view = store, !.dirty = {}, !.failed = FALSE]
Refused(t) ==
    /\ task[t].stage = "run" /\ Mine(t)
    /\ conn.failed \/ faults < MaxFaults
    /\ faults' = IF conn.failed THEN faults ELSE faults + 1
    /\ task' = [task EXCEPT ![t].stage = "rollback"]
    /\ conn' = [conn EXCEPT !.failed = TRUE]
    /\ UNCHANGED <<config, store, scan, hand, written, removed, gone, replays, mixed>>
Rollback(t) ==
    /\ task[t].stage = "rollback"
    /\ task' = [task EXCEPT ![t] = Idle]
    /\ conn' = IF Mine(t) THEN [conn EXCEPT !.view = store, !.dirty = {}, !.failed = FALSE] ELSE conn
    /\ mixed' = (mixed \/ (Mine(t) /\ conn.dirty \ {t} # {}))
    /\ UNCHANGED <<config, store, faults, scan, hand, written, removed, gone, replays>>

\* Mutant: the operation goes on after the statements that were lost with the transaction.
Onward(c) == [c EXCEPT !.stage = "connect", !.again = TRUE,
                       !.sent = IF c.sent < Len(c.todo) THEN c.sent ELSE 0]

Again(c) == [c EXCEPT !.stage = "connect", !.again = TRUE, !.sent = 0]

\* The connection is lost, or cannot be made, or another call has given it up. At a
\* commit the rows may be there or not. _run_with_reconnect gives up whatever
\* connection the sink has by now and runs the operation once more.
Lost(t) ==
    /\ \/ task[t].stage = "connect" /\ ~conn.up
       \/ task[t].stage \in {"run", "commit"}
    /\ LET breaks == task[t].stage = "connect" \/ Mine(t)
       IN  /\ breaks => faults < MaxFaults
           /\ faults' = IF breaks THEN faults + 1 ELSE faults
           /\ \/ store' = store
              \/ task[t].stage = "commit" /\ Mine(t) /\ ~conn.failed /\ store' = conn.view
           /\ conn' = IF breaks \/ ~task[t].again THEN [Down EXCEPT !.view = store'] ELSE conn
    /\ task' = [task EXCEPT ![t] = IF task[t].again THEN Idle ELSE Again(task[t])]
    /\ UNCHANGED <<config, scan, hand, written, removed, gone, replays, mixed>>

-----------------------------------------------------------------------------
(* The source.                                                               *)

\* What a row says when it is read: the record of an encrypted payload (sealed) is as it
\* was written, and replay() updates the column.
Decrypted(row) == [row EXCEPT !.attempt = 0]
AsRead(row) == IF config.sealed THEN Decrypted(row) ELSE row

\* SELECT ... ORDER BY created_at (a letter has one row). It is run once more after a
\* lost connection, as nothing has been emitted, with the same result here. A caller that
\* is alone scans between its calls, and does not keep letters of an earlier scan.
Select ==
    /\ ~scan.open
    /\ OneCaller => \A t \in Tasks : ~Busy(t)
    /\ hand' = [l \in Letters |-> Nothing]
    /\ LET read == {AsRead(row) : row \in store} IN
       \E order \in BoundedSeq(read, Cardinality(Letters)) :
          /\ ToSet(order) = read
          /\ \A i, j \in DOMAIN order : i < j => order[i].letter < order[j].letter
          /\ scan' = [todo |-> order, seen |-> <<>>, must |-> store, open |-> TRUE]
    /\ UNCHANGED <<config, task, store, faults, conn, written, removed, gone, replays, mixed>>

\* stream(): letters whose attempts are used up are passed over.
Offer ==
    /\ scan.open /\ scan.todo # <<>>
    /\ LET rec == Head(scan.todo)
           due == rec.attempt < MaxAttempts
       IN  /\ scan' = [scan EXCEPT !.todo = Tail(@),
                                   !.seen = IF due THEN Append(@, rec) ELSE @]
           /\ hand' = IF due THEN [hand EXCEPT ![rec.letter] = rec] ELSE hand
    /\ UNCHANGED <<config, task, store, faults, conn, written, removed, gone, replays, mixed>>

ScanEnds ==
    /\ scan.open /\ scan.todo = <<>> /\ scan' = NoScan
    /\ UNCHANGED <<config, task, store, faults, conn, hand, written, removed, gone, replays, mixed>>

Next ==
    \/ \E t \in Tasks :
        \/ \E l \in Letters : Write(t, <<l>>) \/ Replay(t, l) \/ Acknowledge(t, l)
        \/ \E l, m \in Letters : "batch" \in config.calls /\ l < m /\ Write(t, <<l, m>>)
        \/ Connect(t) \/ Execute(t) \/ Commit(t) \/ Refused(t) \/ Rollback(t) \/ Lost(t)
    \/ Select \/ Offer \/ ScanEnds

Spec == Init /\ [][Next]_vars

-----------------------------------------------------------------------------
\* A letter is in the table from the return of write() until somebody acknowledges it,
\* and not after acknowledge() has returned, unless calls shared a transaction that failed.
LettersKept ==
    ~mixed => /\ written \ removed \subseteq {row.letter : row \in store}
              /\ gone \cap {row.id : row \in store} = {}

\* A scan that ends has offered every letter that was there when it began and still is,
\* with attempts left, and no letter twice.
ScanIsTrue ==
    scan.open /\ scan.todo = <<>> =>
        /\ IsInjective([i \in DOMAIN scan.seen |-> scan.seen[i].letter])
        /\ \A row \in scan.must : AsRead(row).attempt < MaxAttempts =>
               AsRead(row) \in ToSet(scan.seen)

\* With one caller every replay counts: the row of a letter that nobody has begun to
\* acknowledge has at least as many attempts as replay() calls have returned, unless the
\* payload is encrypted.
AttemptsCounted ==
    OneCaller /\ ~config.sealed =>
        \A row \in store : row.letter \notin removed => row.attempt >= replays[row.letter]
=============================================================================
