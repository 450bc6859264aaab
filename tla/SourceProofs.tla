---------------------------- MODULE SourceProofs ----------------------------
(* S3Source, PostgresSource and BigQuerySource implement ResumableSource, and   *)
(* each gives its rows in order, for every size of the bucket or table, every   *)
(* set of failing rows, every configuration and every bound on failures. The    *)
(* two table sources moreover report what is true, PostgreSQL connections are   *)
(* accounted for, and the BigQuery stream never waits for a pump that has gone. *)
(* PostgresDLQ, whose source reads what its sink wrote: a dead letter is in the *)
(* table from the return of the call that wrote it until somebody acknowledges  *)
(* it, a scan offers each letter once, and no replay is forgotten. KafkaDLQ,    *)
(* which never deletes: the last envelope sent for a letter is in the buffer of *)
(* the producer or in the letter's partition.                                   *)
(*                                                                              *)
(* The module extends S3Source; the names of the other parts' proofs begin with *)
(* Pg, Bq, Pd and Kd.                                                           *)
EXTENDS S3Source, FiniteSets, FiniteSetTheorems, TLAPS

CONSTANTS End,    \* rows of the table the two other sources read
          Tasks, Letters, MaxAttempts,   \* of the dead-letter queues
          MaxEvents, IdlePolls           \* of KafkaDLQ

VARIABLES conns, leaked, left,      \* of PostgresSource
          pump, item, queue, stop, getter, stranded,  \* of BigQuerySource
          task, conn, scan, hand, written, removed, gone, replays, mixed,   \* of PostgresDLQ
          buffer, client, dropped, position, given, intent, hasty           \* of KafkaDLQ

Contract == INSTANCE ResumableSource
PS == INSTANCE PostgresSource
BS == INSTANCE BigQuerySource

-----------------------------------------------------------------------------
(* S3Source.                                                                    *)

Calls == {"idle", "list", "download", "emit", "yielded"}

\* The keys before the rest of the page have been scanned.
scanned == listed - Len(rows)

Types ==
    /\ call \in Calls
    /\ store \in Nat /\ params \in Nat /\ listed \in Nat /\ saved \in Nat
    /\ rows \in Seq(Nat) /\ batch \in Seq(Nat) /\ emitted \in Seq(Nat)
    /\ progress \in [object : Nat, completed : Nat]

\* The page goes on where the scan is.
PagePlace == Len(rows) <= listed /\ \A i \in 1..Len(rows) : rows[i] = scanned + i

\* The object is the last key scanned, and what is left of it are its last rows.
ObjectPlace ==
    /\ call \in {"download", "emit", "yielded"} => progress.object = scanned /\ params < scanned
    /\ call \in {"emit", "yielded"} => /\ Len(batch) <= 2
                                       /\ \A i \in 1..Len(batch) :
                                             batch[i] = 2 * progress.object - Len(batch) + i
    /\ call = "yielded" => /\ Len(emitted) > 0
                           /\ Len(batch) < 2
                           /\ emitted[Len(emitted)] = 2 * progress.object - Len(batch)

Places == PagePlace /\ ObjectPlace

\* Everything before the place of the stream is done.
Frontier ==
    /\ call = "list" => 1..(2 * scanned) \subseteq done
    /\ call = "download" => 1..(2 * (progress.object - 1)) \subseteq done
    /\ call = "emit" => 1..(2 * progress.object - Len(batch)) \subseteq done
    /\ call = "yielded" => 1..(2 * progress.object - Len(batch) - 1) \subseteq done

\* The checkpoint is that of the stream's start or the last object completed, and both
\* are done; it never lies before the one saved.
Checkpoints ==
    /\ saved % 2 = 0
    /\ 1..saved \subseteq done
    /\ 1..(2 * params) \subseteq done
    /\ 1..(2 * progress.completed) \subseteq done
    /\ progress.completed = 0 => saved <= 2 * params
    /\ progress.completed # 0 => saved <= 2 * progress.completed
    /\ call \in {"download", "emit", "yielded"} => progress.completed < progress.object
    /\ call = "list" => progress.completed <= scanned

Inv == Types /\ Places /\ Frontier /\ Checkpoints

-----------------------------------------------------------------------------

LEMMA TailFacts ==
  ASSUME NEW s \in Seq(Nat), s # <<>>
  PROVE  /\ Len(s) \in Nat \ {0} /\ Head(s) = s[1] /\ Head(s) \in Nat
         /\ Tail(s) \in Seq(Nat) /\ Len(Tail(s)) = Len(s) - 1
         /\ \A i \in 1..Len(Tail(s)) : Tail(s)[i] = s[i + 1]
  OBVIOUS

LEMMA AppendFacts ==
  ASSUME NEW s \in Seq(Nat), NEW x \in Nat
  PROVE  /\ Append(s, x) \in Seq(Nat) /\ Len(Append(s, x)) > 0
         /\ Append(s, x)[Len(Append(s, x))] = x
  OBVIOUS

LEMMA OneMore ==
  ASSUME NEW n \in Int, NEW S, 1..(n - 1) \subseteq S
  PROVE  1..n \subseteq S \cup {n}
  OBVIOUS

LEMMA InitInv == ASSUME Objects \in Nat, Init PROVE Inv
  BY DEF Init, Inv, Types, Places, PagePlace, ObjectPlace, Frontier, Checkpoints, Calls,
     scanned, NoProgress

LEMMA StartInv == ASSUME Inv, Start PROVE Inv'
<1>1. saved = 2 * (saved \div 2) /\ saved \div 2 \in Nat
  BY DEF Inv, Types, Checkpoints
<1> QED
  BY <1>1 DEF Start, Inv, Types, Places, PagePlace, ObjectPlace, Frontier, Checkpoints, Calls,
     scanned, NoProgress

LEMMA UploadInv == ASSUME Inv, Upload PROVE Inv'
  BY DEF Upload, Inv, Types, Places, PagePlace, ObjectPlace, Frontier, Checkpoints, Calls, scanned

\* A page is listed: the scan stays where it is.
LEMMA PageInv ==
  ASSUME Inv, NextKey, rows = <<>>, listed < store PROVE Inv'
<1>1. /\ rows' = [i \in 1..(store - listed) |-> listed + i] /\ listed' = store
      /\ store \in Nat /\ listed \in Nat /\ store - listed \in Nat
      /\ UNCHANGED <<call, store, params, batch, emitted, done, saved, progress>>
  BY DEF NextKey, Inv, Types
<1>2. rows' \in Seq(Nat) /\ Len(rows') = store - listed
  BY <1>1
<1>3. \A i \in 1..Len(rows') : rows'[i] = listed + i
  BY <1>1, <1>2
<1>4. scanned' = listed /\ scanned = listed
  BY <1>1, <1>2 DEF scanned, Inv, Types
<1>5. Types'
  BY <1>1, <1>2 DEF Types, Inv
<1>6. Places'
  BY <1>1, <1>2, <1>3, <1>4 DEF Places, PagePlace, ObjectPlace, Inv
<1>7. Frontier' /\ Checkpoints'
  BY <1>1, <1>2, <1>4 DEF Frontier, Checkpoints, Inv, Places, PagePlace, ObjectPlace, Types
<1> QED
  BY <1>5, <1>6, <1>7 DEF Inv

\* A key is scanned: it is skipped, because the checkpoint is behind it, or downloaded.
LEMMA KeyInv ==
  ASSUME Inv, NextKey, rows # <<>> PROVE Inv'
<1>1. /\ rows \in Seq(Nat) /\ rows' = Tail(rows) /\ call = "list" /\ listed' = listed
      /\ UNCHANGED <<store, params, batch, emitted, done, saved>>
  BY DEF NextKey, Inv, Types
<1>2. /\ Len(rows) \in Nat \ {0} /\ Head(rows) = rows[1]
      /\ rows' \in Seq(Nat) /\ Len(rows') = Len(rows) - 1
      /\ \A i \in 1..Len(rows') : rows'[i] = rows[i + 1]
  BY <1>1, TailFacts
<1>3. /\ listed \in Nat /\ scanned \in Nat /\ scanned' = scanned + 1
      /\ Head(rows) = scanned + 1 /\ Len(rows') <= listed'
  BY <1>1, <1>2 DEF Inv, Types, Places, PagePlace, ObjectPlace, scanned
<1>4. \A i \in 1..Len(rows') : rows'[i] = scanned' + i
  BY <1>2, <1>3 DEF Inv, Places, PagePlace, ObjectPlace
<1>5. params \in Nat /\ 1..(2 * params) \subseteq done /\ 1..(2 * scanned) \subseteq done
  BY <1>1 DEF Inv, Types, Checkpoints, Frontier
<1>6. CASE Head(rows) <= params
  <2>1. call' = "list" /\ progress' = progress
    BY <1>1, <1>6 DEF NextKey
  <2>2. Types' /\ Places'
    BY <1>1, <1>2, <1>3, <1>4, <2>1 DEF Inv, Types, Places, PagePlace, ObjectPlace
  <2>3. 1..(2 * scanned') \subseteq done
    BY <1>3, <1>5, <1>6
  <2>4. Frontier'
    BY <1>1, <2>1, <2>3 DEF Frontier
  <2>5. Checkpoints'
    BY <1>1, <1>3, <2>1 DEF Inv, Types, Checkpoints
  <2> QED
    BY <2>2, <2>4, <2>5 DEF Inv
<1>7. CASE ~(Head(rows) <= params)
  <2>1. /\ call' = "download" /\ progress' = [progress EXCEPT !.object = Head(rows)]
        /\ progress \in [object : Nat, completed : Nat]
    BY <1>1, <1>7 DEF NextKey, Inv, Types
  <2>2. /\ progress' \in [object : Nat, completed : Nat]
        /\ progress'.object = scanned' /\ progress'.completed = progress.completed
    BY <1>3, <2>1
  <2>3. Types' /\ Places'
    BY <1>1, <1>2, <1>3, <1>4, <1>5, <1>7, <2>1, <2>2 DEF Inv, Types, Places, PagePlace,
       ObjectPlace, Calls
  <2>4. 2 * (progress'.object - 1) = 2 * scanned
    BY <1>3, <2>2
  <2>5. Frontier'
    BY <1>1, <1>5, <2>1, <2>4 DEF Frontier
  <2>6. progress.completed \in Nat /\ progress.completed < scanned'
    BY <1>1, <1>3, <2>1 DEF Inv, Checkpoints
  <2>7. Checkpoints'
    BY <1>1, <2>1, <2>2, <2>6 DEF Inv, Checkpoints
  <2> QED
    BY <2>3, <2>5, <2>7 DEF Inv
<1> QED
  BY <1>6, <1>7

LEMMA NextKeyInv == ASSUME Inv, NextKey PROVE Inv'
<1>1. CASE rows = <<>> /\ listed < store
  BY <1>1, PageInv
<1>2. CASE rows = <<>> /\ listed = store /\ call' = "idle"
  BY <1>2 DEF NextKey, Inv, Types, Places, PagePlace, ObjectPlace, Frontier, Checkpoints,
     Calls, scanned
<1>3. CASE rows # <<>>
  BY <1>3, KeyInv
<1> QED
  BY <1>1, <1>2, <1>3 DEF NextKey

LEMMA DownloadInv == ASSUME Inv, Download PROVE Inv'
<1>1. /\ call = "download" /\ call' = "emit"
      /\ batch' = <<2 * progress.object - 1, 2 * progress.object>>
      /\ UNCHANGED <<store, params, rows, listed, progress, emitted, done, saved>>
  BY DEF Download
<1>2. /\ progress \in [object : Nat, completed : Nat] /\ params \in Nat
      /\ progress.object = scanned /\ params < scanned /\ PagePlace
      /\ 1..(2 * (progress.object - 1)) \subseteq done
  BY <1>1 DEF Inv, Types, Places, ObjectPlace, Frontier
<1>3. progress.object \in Nat \ {0} /\ 2 * progress.object - 1 \in Nat
  BY <1>2
<1>4. /\ batch' \in Seq(Nat) /\ Len(batch') = 2
      /\ \A i \in 1..Len(batch') : batch'[i] = 2 * progress.object - Len(batch') + i
  BY <1>1, <1>3
<1>5. Types'
  BY <1>1, <1>4 DEF Inv, Types, Calls
<1>6. scanned' = scanned /\ PagePlace'
  BY <1>1, <1>2 DEF scanned, PagePlace
<1>7. Places'
  BY <1>1, <1>2, <1>4, <1>6 DEF Places, ObjectPlace
<1>8. 2 * progress'.object - Len(batch') = 2 * (progress.object - 1)
  BY <1>1, <1>3, <1>4
<1>9. Frontier'
  BY <1>1, <1>2, <1>8 DEF Frontier
<1>10. Checkpoints'
  BY <1>1, <1>6 DEF Inv, Checkpoints
<1> QED
  BY <1>5, <1>7, <1>9, <1>10 DEF Inv

\* The reader ends, gives a row, drops one or raises.
LEMMA EmitRowInv == ASSUME Inv, EmitRow PROVE Inv'
<1>1. /\ call = "emit" /\ batch \in Seq(Nat) /\ progress \in [object : Nat, completed : Nat]
      /\ UNCHANGED <<store, params, rows, listed, saved>> /\ scanned' = scanned
      /\ 1..(2 * progress.object - Len(batch)) \subseteq done
      /\ progress.object = scanned /\ progress.completed < progress.object
  BY DEF EmitRow, Inv, Types, Places, PagePlace, ObjectPlace, Frontier, Checkpoints, scanned
<1>2. CASE batch = <<>>
  <2>1. /\ progress' = [progress EXCEPT !.completed = progress.object] /\ call' = "list"
        /\ UNCHANGED <<batch, emitted, done>>
    BY <1>2 DEF EmitRow
  <2>2. /\ progress' \in [object : Nat, completed : Nat]
        /\ progress'.object = progress.object /\ progress'.completed = progress.object
        /\ Len(batch) = 0
    BY <1>1, <1>2, <2>1
  <2>3. Types' /\ Places'
    BY <1>1, <2>1, <2>2 DEF Inv, Types, Places, PagePlace, ObjectPlace, Calls
  <2>4. Frontier'
    BY <1>1, <2>1, <2>2 DEF Frontier
  <2>5. Checkpoints'
    BY <1>1, <2>1, <2>2 DEF Inv, Types, Places, PagePlace, ObjectPlace, Checkpoints
  <2> QED
    BY <2>3, <2>4, <2>5 DEF Inv
<1>3. ASSUME batch # <<>>
      PROVE  /\ Tail(batch) \in Seq(Nat) /\ Len(Tail(batch)) = Len(batch) - 1
             /\ Len(batch) \in Nat \ {0} /\ Len(batch) <= 2 /\ Head(batch) \in Nat
             /\ Head(batch) = 2 * progress.object - Len(batch) + 1
             /\ \A i \in 1..Len(Tail(batch)) :
                   Tail(batch)[i] = 2 * progress.object - Len(Tail(batch)) + i
             /\ UNCHANGED progress
  <2>1. /\ Tail(batch) \in Seq(Nat) /\ Len(Tail(batch)) = Len(batch) - 1
        /\ Len(batch) \in Nat \ {0} /\ Head(batch) = batch[1] /\ Head(batch) \in Nat
        /\ \A i \in 1..Len(Tail(batch)) : Tail(batch)[i] = batch[i + 1]
    BY <1>1, <1>3, TailFacts
  <2>2. Len(batch) <= 2 /\ \A i \in 1..Len(batch) : batch[i] = 2 * progress.object - Len(batch) + i
    BY <1>1 DEF Inv, Places, PagePlace, ObjectPlace
  <2>3. UNCHANGED progress
    BY <1>3 DEF EmitRow
  <2> QED
    BY <1>1, <2>1, <2>2, <2>3
<1>4. CASE batch # <<>> /\ Head(batch) \notin Bad
  <2>1. /\ call' = "yielded" /\ batch' = Tail(batch) /\ emitted' = Append(emitted, Head(batch))
        /\ done' = done /\ emitted \in Seq(Nat)
    BY <1>4 DEF EmitRow, Inv, Types
  <2>2. emitted' \in Seq(Nat) /\ Len(emitted') > 0 /\ emitted'[Len(emitted')] = Head(batch)
    BY <1>3, <1>4, <2>1, AppendFacts
  <2>3. Types'
    BY <1>1, <1>3, <1>4, <2>1, <2>2 DEF Inv, Types, Calls
  <2>5. Places'
    <3>1. /\ progress' = progress
          /\ Len(batch') = Len(batch) - 1 /\ Len(batch') \in Nat /\ Len(batch') < 2
          /\ \A i \in 1..Len(batch') : batch'[i] = 2 * progress'.object - Len(batch') + i
          /\ emitted'[Len(emitted')] = 2 * progress'.object - Len(batch')
      BY <1>1, <1>3, <1>4, <2>1, <2>2
    <3>2. params < scanned /\ PagePlace
      BY <1>1 DEF Inv, Places, ObjectPlace
    <3>3. PagePlace'
      BY <1>1, <3>2 DEF PagePlace
    <3>4. params' < scanned' /\ progress'.object = scanned'
      BY <1>1, <3>1, <3>2
    <3> QED
      BY <2>1, <2>2, <3>1, <3>3, <3>4 DEF Places, ObjectPlace
  <2>4. Frontier' /\ Checkpoints'
    BY <1>1, <1>3, <1>4, <2>1 DEF Inv, Types, Frontier, Checkpoints
  <2> QED
    BY <2>3, <2>4, <2>5 DEF Inv
<1>5. CASE batch # <<>> /\ Head(batch) \in Bad /\ config.log_and_continue
  <2>1. /\ call' = "emit" /\ batch' = Tail(batch)
        /\ done' = done \cup {Head(batch)} /\ emitted' = emitted
    BY <1>1, <1>5 DEF EmitRow
  <2>2. Types'
    BY <1>1, <1>3, <1>5, <2>1 DEF Inv, Types, Calls
  <2>5. Places'
    <3>1. /\ progress' = progress /\ Len(batch') <= 2
          /\ \A i \in 1..Len(batch') : batch'[i] = 2 * progress'.object - Len(batch') + i
      BY <1>1, <1>3, <1>5, <2>1
    <3>2. params < scanned /\ PagePlace
      BY <1>1 DEF Inv, Places, ObjectPlace
    <3>3. PagePlace'
      BY <1>1, <3>2 DEF PagePlace
    <3>4. params' < scanned' /\ progress'.object = scanned'
      BY <1>1, <3>1, <3>2
    <3> QED
      BY <2>1, <3>1, <3>3, <3>4 DEF Places, ObjectPlace
  <2>3. 1..(2 * progress.object - Len(Tail(batch))) \subseteq done'
    BY <1>1, <1>3, <1>5, <2>1
  <2>4. Frontier' /\ Checkpoints'
    BY <1>1, <1>3, <1>5, <2>1, <2>3 DEF Inv, Types, Frontier, Checkpoints
  <2> QED
    BY <2>2, <2>4, <2>5 DEF Inv
<1>6. CASE batch # <<>> /\ Head(batch) \in Bad /\ ~config.log_and_continue
  <2>1. call' = "idle" /\ UNCHANGED <<batch, done, emitted, progress>>
    BY <1>6 DEF EmitRow
  <2> QED
    BY <1>1, <2>1 DEF Inv, Types, Places, PagePlace, ObjectPlace, Frontier, Checkpoints, Calls
<1> QED
  BY <1>2, <1>4, <1>5, <1>6

LEMMA HandleInv == ASSUME Inv, NEW save \in BOOLEAN, Handle(save) PROVE Inv'
<1>1. /\ call = "yielded" /\ call' = "emit" /\ done' = done \cup {emitted[Len(emitted)]}
      /\ saved' = IF save /\ progress.completed # 0 THEN 2 * progress.completed ELSE saved
      /\ UNCHANGED <<store, params, rows, listed, batch, progress, emitted>>
      /\ scanned' = scanned
  BY DEF Handle, scanned
<1>2. /\ saved \in Nat /\ progress \in [object : Nat, completed : Nat]
      /\ batch \in Seq(Nat) /\ Len(batch) \in Nat /\ Len(batch) < 2
      /\ progress.completed < progress.object
      /\ emitted[Len(emitted)] = 2 * progress.object - Len(batch)
      /\ 1..(2 * progress.object - Len(batch) - 1) \subseteq done
  <2>1. saved \in Nat /\ progress \in [object : Nat, completed : Nat] /\ batch \in Seq(Nat)
    BY DEF Inv, Types
  <2>2. Len(batch) \in Nat
    BY <2>1
  <2>3. Len(batch) < 2 /\ emitted[Len(emitted)] = 2 * progress.object - Len(batch)
    BY <1>1 DEF Inv, Places, PagePlace, ObjectPlace
  <2>4. 1..(2 * progress.object - Len(batch) - 1) \subseteq done
    BY <1>1 DEF Inv, Frontier
  <2>5. progress.completed < progress.object
    BY <1>1 DEF Inv, Checkpoints
  <2> QED
    BY <2>1, <2>2, <2>3, <2>4, <2>5
<1>3. 1..(2 * progress.object - Len(batch)) \subseteq done'
  <2>1. 2 * progress.object - Len(batch) \in Int
    BY <1>2
  <2> QED
    BY <1>1, <1>2, <2>1, OneMore
<1>8. saved \in Nat /\ done \subseteq done'
  BY <1>1, <1>2
<1>4. /\ saved' \in Nat /\ saved' % 2 = 0 /\ saved <= saved'
      /\ 1..saved' \subseteq done'
  <2>1. CASE save /\ progress.completed # 0
    <3>1. saved' = 2 * progress.completed /\ progress.completed \in Nat
      BY <1>1, <1>2, <2>1
    <3>2. saved <= 2 * progress.completed /\ 1..(2 * progress.completed) \subseteq done
      BY <2>1 DEF Inv, Checkpoints
    <3> QED
      BY <1>8, <3>1, <3>2
  <2>2. CASE ~(save /\ progress.completed # 0)
    <3>1. saved' = saved
      BY <1>1, <2>2
    <3>2. saved % 2 = 0 /\ 1..saved \subseteq done
      BY DEF Inv, Checkpoints
    <3> QED
      BY <1>8, <3>1, <3>2
  <2> QED
    BY <2>1, <2>2
<1>5. Types' /\ Places'
  BY <1>1, <1>2, <1>4 DEF Inv, Types, Places, PagePlace, ObjectPlace, Calls
<1>6. Frontier'
  BY <1>1, <1>3 DEF Frontier
<1>7. Checkpoints'
  <2>1. /\ 1..(2 * params') \subseteq done' /\ 1..(2 * progress'.completed) \subseteq done'
        /\ progress'.completed < progress'.object
    BY <1>1, <1>2 DEF Inv, Checkpoints
  <2>2. progress.completed = 0 => saved' = saved /\ saved <= 2 * params
    BY <1>1 DEF Inv, Checkpoints
  <2>3. progress.completed # 0 => saved' <= 2 * progress.completed
    BY <1>1, <1>2 DEF Inv, Checkpoints
  <2> QED
    BY <1>1, <1>4, <2>1, <2>2, <2>3 DEF Checkpoints
<1> QED
  BY <1>5, <1>6, <1>7 DEF Inv

LEMMA SaveLastInv == ASSUME Inv, SaveLast PROVE Inv'
  BY DEF SaveLast, Inv, Types, Places, PagePlace, ObjectPlace, Frontier, Checkpoints, Calls, scanned

LEMMA FailInv == ASSUME Inv, Fail PROVE Inv'
  BY DEF Fail, Inv, Types, Places, PagePlace, ObjectPlace, Frontier, Checkpoints, Calls, scanned

LEMMA NextInv == ASSUME Inv, [Next]_vars PROVE Inv'
<1>1. CASE UNCHANGED vars
  BY <1>1 DEF vars, Inv, Types, Places, PagePlace, ObjectPlace, Frontier, Checkpoints, scanned
<1> QED
  BY <1>1, StartInv, UploadInv, NextKeyInv, DownloadInv, EmitRowInv, HandleInv, SaveLastInv,
     FailInv DEF Next

-----------------------------------------------------------------------------
\* The inductive invariant holds in every state of the source (S3Source.stream): what lies
\* before the place it reads from is done, and so is what its checkpoint passes.
THEOREM PlaceIsFrontier == ASSUME Objects \in Nat PROVE Spec => []Inv
<1>1. Init => Inv
  BY InitInv
<1>2. Inv /\ [Next]_vars => Inv'
  BY NextInv
<1> QED
  BY <1>1, <1>2, PTL DEF Spec

\* Every step of the source is a step of the contract or changes nothing the contract
\* speaks of.
LEMMA StepsKeepContract ==
  ASSUME Inv, Inv', [Next]_vars PROVE [Contract!Step]_Contract!vars
<1>1. saved \in Nat /\ saved' \in Nat /\ 1..saved' \subseteq done'
  BY DEF Inv, Types, Checkpoints
<1>2. done \subseteq done'
  BY DEF Next, vars, Start, Upload, NextKey, Download, EmitRow, Handle, SaveLast, Fail
<1>3. saved <= saved'
  <2>1. CASE UNCHANGED saved
    BY <1>1, <2>1
  <2>2. ASSUME NEW save \in BOOLEAN, Handle(save) PROVE saved <= saved'
    BY <1>1, <2>2 DEF Handle, Inv, Types, Checkpoints
  <2>3. CASE SaveLast
    BY <1>1, <2>3 DEF SaveLast, Inv, Types, Checkpoints
  <2> QED
    BY <2>1, <2>2, <2>3 DEF Next, vars, Start, Upload, NextKey, Download, EmitRow, Fail
<1> QED
  BY <1>1, <1>2, <1>3 DEF Contract!Step, Contract!vars

\* S3Source keeps the contract of a resumable source: a checkpoint that the runner saves
\* passes only rows that were handled or dropped as the policy says, and none that is saved
\* later lies before it, however often streams fail and start again.
THEOREM SourceImplementsContract == ASSUME Objects \in Nat PROVE Spec => Contract!Spec
<1>1. Init => Contract!Init
  BY DEF Init, Contract!Init
<1>2. Inv /\ Inv' /\ [Next]_vars => [Contract!Step]_Contract!vars
  BY StepsKeepContract
<1>3. Spec => []Inv
  BY PlaceIsFrontier
<1> QED
  BY <1>1, <1>2, <1>3, PTL DEF Spec, Contract!Spec

-----------------------------------------------------------------------------
(* What a stream gives.                                                      *)

\* The last row read, dropped or skipped: no row up to it is given again.
Reached(c, key, object, n) ==
    IF c = "list" THEN 2 * key
    ELSE IF c = "download" THEN 2 * (object - 1)
    ELSE 2 * object - n
reached == Reached(call, scanned, progress.object, Len(batch))

\* Rows come in order, after the checkpoint and not after the place of the stream.
Order ==
    /\ EmittedInOrder
    /\ call # "idle" /\ Len(emitted) > 0 => emitted[Len(emitted)] <= reached

\* Only a new stream takes success back, and a stream that goes on has not ended.
Ended == success => call = "idle" /\ CompletedIsDone

LEMMA ReachedFacts ==
  ASSUME NEW c \in Calls, NEW k \in Int, NEW o \in Int, NEW n \in Int
  PROVE  /\ c = "list" => Reached(c, k, o, n) = 2 * k
         /\ c = "download" => Reached(c, k, o, n) = 2 * (o - 1)
         /\ c \in {"emit", "yielded"} => Reached(c, k, o, n) = 2 * o - n
         /\ Reached(c, k, o, n) \in Int
<1>1. CASE c = "list"
  BY <1>1 DEF Reached
<1>2. CASE c = "download"
  BY <1>2 DEF Reached
<1>3. CASE c \notin {"list", "download"}
  BY <1>3 DEF Reached
<1> QED
  BY <1>1, <1>2, <1>3

\* The place of a stream never goes back.
LEMMA ReachedGrows ==
  ASSUME Inv, Inv', [Next]_vars, call # "idle", call' # "idle"
  PROVE  reached \in Int /\ reached' \in Int /\ reached <= reached'
<1>1. /\ call \in Calls /\ call' \in Calls
      /\ scanned \in Int /\ progress.object \in Int /\ Len(batch) \in Int
      /\ scanned' \in Int /\ progress'.object \in Int /\ Len(batch') \in Int
      /\ Len(batch) >= 0 /\ Len(batch') >= 0
  BY DEF Inv, Types, scanned
<1>9. /\ call = "list" => reached = 2 * scanned
      /\ call = "download" => reached = 2 * (progress.object - 1)
      /\ call \in {"emit", "yielded"} => reached = 2 * progress.object - Len(batch)
      /\ reached \in Int
  BY <1>1, ReachedFacts DEF reached
<1>10. /\ call' = "list" => reached' = 2 * scanned'
       /\ call' = "download" => reached' = 2 * (progress'.object - 1)
       /\ call' \in {"emit", "yielded"} => reached' = 2 * progress'.object - Len(batch')
       /\ reached' \in Int
  BY <1>1, ReachedFacts DEF reached
<1>2. CASE UNCHANGED vars
  <2>1. reached' = reached
    BY <1>2 DEF vars, reached, scanned
  <2> QED
    BY <1>9, <1>10, <2>1
<1>3. CASE Start \/ SaveLast \/ Fail
  BY <1>3 DEF Start, SaveLast, Fail
<1>4. CASE Upload
  <2>1. reached' = reached
    BY <1>4 DEF Upload, reached, scanned
  <2> QED
    BY <1>9, <1>10, <2>1
<1>5. CASE NextKey
  <2>1. call = "list" /\ rows \in Seq(Nat) /\ listed \in Nat /\ store \in Nat
    BY <1>5 DEF NextKey, Inv, Types
  <2>2. CASE rows = <<>> /\ listed < store
    <3>1. /\ rows' = [i \in 1..(store - listed) |-> listed + i] /\ listed' = store
          /\ call' = "list" /\ store - listed \in Nat
      BY <1>5, <2>1, <2>2 DEF NextKey
    <3>2. Len(rows') = store - listed /\ Len(rows) = 0
      BY <2>2, <3>1
    <3>3. scanned' = scanned
      BY <2>1, <3>1, <3>2 DEF scanned
    <3> QED
      BY <1>1, <1>9, <1>10, <2>1, <3>1, <3>3
  <2>3. CASE rows # <<>>
    <3>1. Len(rows) \in Nat \ {0} /\ Head(rows) = rows[1] /\ Len(Tail(rows)) = Len(rows) - 1
      BY <2>1, <2>3, TailFacts
    <3>2. listed' = listed /\ rows' = Tail(rows)
      BY <1>5, <2>3 DEF NextKey
    <3>3. scanned' = scanned + 1
      BY <2>1, <3>1, <3>2 DEF scanned
    <3>4. call' = "list" \/ call' = "download"
      BY <1>5, <2>1, <2>3 DEF NextKey
    <3>5. call' = "download" => progress'.object = scanned'
      BY DEF Inv, Places, ObjectPlace
    <3>6. CASE call' = "list"
      BY <1>1, <1>9, <1>10, <2>1, <3>3, <3>6
    <3>7. CASE call' = "download"
      <4>1. reached = 2 * scanned /\ reached' = 2 * (progress'.object - 1)
        BY <1>9, <1>10, <2>1, <3>7
      <4>2. progress'.object = scanned + 1
        BY <3>3, <3>5, <3>7
      <4> QED
        BY <1>1, <4>1, <4>2
    <3> QED
      BY <3>4, <3>6, <3>7
  <2> QED
    BY <1>5, <2>1, <2>2, <2>3 DEF NextKey
<1>6. CASE Download
  <2>1. /\ call = "download" /\ call' = "emit" /\ progress' = progress
        /\ batch' = <<2 * progress.object - 1, 2 * progress.object>>
    BY <1>6 DEF Download
  <2>2. Len(batch') = 2
    BY <2>1
  <2> QED
    BY <1>1, <1>9, <1>10, <2>1, <2>2
<1>7. CASE EmitRow
  <2>1. call = "emit" /\ progress.object = scanned /\ batch \in Seq(Nat) /\ scanned' = scanned
    BY <1>7 DEF EmitRow, Inv, Places, ObjectPlace, Types, scanned
  <2>2. CASE batch = <<>>
    <3>1. call' = "list" /\ Len(batch) = 0
      BY <1>7, <2>2 DEF EmitRow
    <3> QED
      BY <1>1, <1>9, <1>10, <2>1, <3>1
  <2>3. CASE batch # <<>>
    <3>1. Len(Tail(batch)) = Len(batch) - 1
      BY <2>1, <2>3, TailFacts
    <3>2. progress' = progress /\ batch' = Tail(batch) /\ call' \in {"emit", "yielded"}
      BY <1>7, <2>1, <2>3 DEF EmitRow
    <3>3. /\ reached = 2 * progress.object - Len(batch)
          /\ reached' = 2 * progress.object - Len(batch')
      BY <1>9, <1>10, <2>1, <3>2
    <3>4. Len(batch') = Len(batch) - 1
      BY <3>1, <3>2
    <3>5. \A o, n \in Int : 2 * o - (n - 1) = (2 * o - n) + 1
      OBVIOUS
    <3>6. reached' = reached + 1
      BY <1>1, <3>3, <3>4, <3>5
    <3> QED
      BY <1>9, <3>6
  <2> QED
    BY <2>2, <2>3
<1>8. ASSUME NEW save \in BOOLEAN, Handle(save)
      PROVE  reached \in Int /\ reached' \in Int /\ reached <= reached'
  BY <1>1, <1>9, <1>10, <1>8 DEF Handle, reached, scanned
<1> QED
  BY <1>2, <1>3, <1>4, <1>5, <1>6, <1>7, <1>8 DEF Next

LEMMA OrderStep ==
  ASSUME Inv, Inv', Order, [Next]_vars
  PROVE  Order'
<1>1. emitted \in Seq(Nat) /\ params \in Nat /\ Len(emitted) \in Nat
  BY DEF Inv, Types
<1>2. CASE emitted' = <<>>
  BY <1>2 DEF Order, EmittedInOrder
<1>3. CASE emitted' = emitted /\ params' = params /\ (call = "idle" => call' = "idle")
  <2>1. EmittedInOrder'
    BY <1>3 DEF Order, EmittedInOrder
  <2>2. ASSUME call' # "idle", Len(emitted') > 0 PROVE emitted'[Len(emitted')] <= reached'
    <3>1. call # "idle" /\ emitted[Len(emitted)] <= reached
      BY <1>3, <2>2 DEF Order
    <3>2. reached \in Int /\ reached' \in Int /\ reached <= reached'
      BY <2>2, <3>1, ReachedGrows
    <3>3. emitted[Len(emitted)] \in Nat
      BY <1>1, <1>3, <2>2
    <3> QED
      BY <1>3, <3>1, <3>2, <3>3
  <2> QED
    BY <2>1, <2>2 DEF Order
<1>4. CASE EmitRow /\ batch # <<>> /\ Head(batch) \notin Bad
  <2> DEFINE x == Head(batch)
             n == Len(emitted)
  <2>1. /\ emitted' = Append(emitted, x) /\ params' = params /\ call = "emit"
        /\ call' = "yielded" /\ batch' = Tail(batch) /\ progress' = progress
    BY <1>4 DEF EmitRow
  <2>2. batch \in Seq(Nat) /\ progress.object \in Nat
    BY DEF Inv, Types
  <2>3. /\ Len(batch) \in Nat \ {0} /\ x = batch[1] /\ x \in Nat
        /\ Len(Tail(batch)) = Len(batch) - 1
    BY <1>4, <2>2, TailFacts
  <2>4. /\ progress.object = scanned /\ params < scanned /\ Len(batch) <= 2
        /\ x = 2 * progress.object - Len(batch) + 1
    BY <2>1, <2>3 DEF Inv, Places, ObjectPlace
  <2>11. /\ reached = 2 * progress.object - Len(batch)
         /\ reached' = 2 * progress.object - Len(Tail(batch))
    BY <2>1 DEF reached, Reached
  <2>5. x > 2 * params /\ x = reached + 1 /\ x = reached'
    <3>1. scanned \in Nat /\ params \in Nat /\ params + 1 <= scanned
      BY <1>1, <2>2, <2>4
    <3> QED
      BY <2>2, <2>3, <2>4, <2>11, <3>1
  <2> HIDE DEF x
  <2>6. /\ Len(emitted') = n + 1 /\ emitted'[n + 1] = x
        /\ \A i \in 1..n : emitted'[i] = emitted[i]
        /\ DOMAIN emitted' = 1..(n + 1) /\ DOMAIN emitted = 1..n
    BY <1>1, <2>1, <2>3
  <2>7. n > 0 => emitted[n] \in Nat /\ emitted[n] <= reached
    BY <1>1, <2>1 DEF Order
  <2>8. ASSUME NEW i \in 1..(n + 1)
        PROVE  emitted'[i] > 2 * params /\ (i > 1 => emitted'[i - 1] < emitted'[i])
    <3>1. CASE i \in 1..n
      <4>1. emitted[i] > 2 * params /\ (i > 1 => emitted[i - 1] < emitted[i])
        BY <2>6, <3>1 DEF Order, EmittedInOrder
      <4>2. i > 1 => i - 1 \in 1..n
        BY <1>1, <3>1
      <4> QED
        BY <2>6, <3>1, <4>1, <4>2
    <3>2. CASE i = n + 1
      <4>1. i > 1 => i - 1 = n /\ n \in 1..n /\ n > 0
        BY <1>1, <3>2
      <4>2. reached \in Int
        BY <2>2, <2>3, <2>11
      <4> QED
        BY <2>3, <2>5, <2>6, <2>7, <3>2, <4>1, <4>2
    <3> QED
      BY <1>1, <3>1, <3>2
  <2>9. EmittedInOrder'
    BY <2>1, <2>6, <2>8 DEF EmittedInOrder
  <2>10. emitted'[Len(emitted')] <= reached'
    BY <2>3, <2>5, <2>6
  <2> QED
    BY <2>9, <2>10 DEF Order
<1>5. \/ emitted' = <<>>
      \/ emitted' = emitted /\ params' = params /\ (call = "idle" => call' = "idle")
      \/ EmitRow /\ batch # <<>> /\ Head(batch) \notin Bad
  BY DEF Next, vars, Start, Upload, NextKey, Download, EmitRow, Handle, SaveLast, Fail
<1> QED
  BY <1>2, <1>3, <1>4, <1>5

LEMMA EndedStep ==
  ASSUME Inv, Ended, [Next]_vars
  PROVE  Ended'
<1>1. done \subseteq done'
  BY DEF Next, vars, Start, Upload, NextKey, Download, EmitRow, Handle, SaveLast, Fail
<1>2. CASE NextKey /\ rows = <<>> /\ listed = store /\ call' = "idle"
  <2>1. call = "list" /\ listed' = listed /\ done' = done /\ listed \in Nat
    BY <1>2 DEF NextKey, Inv, Types
  <2>2. scanned = listed
    BY <1>2, <2>1 DEF scanned
  <2>3. 1..(2 * listed) \subseteq done
    BY <2>1, <2>2 DEF Inv, Frontier
  <2> QED
    BY <1>2, <2>1, <2>3 DEF Ended, CompletedIsDone
<1>3. CASE success' = FALSE
  BY <1>3 DEF Ended
<1>4. CASE success' = success /\ listed' = listed /\ (call = "idle" => call' = "idle")
  BY <1>1, <1>4 DEF Ended, CompletedIsDone
<1>5. CASE success' = success /\ call # "idle"
  BY <1>5 DEF Ended
<1> QED
  BY <1>2, <1>3, <1>4, <1>5
     DEF Next, vars, Start, Upload, NextKey, Download, EmitRow, Handle, SaveLast, Fail

\* A stream gives its rows in key order, each once, and only rows after its checkpoint,
\* through skipped keys, dropped rows and pages that grow while they are listed
\* (iter_object_keys, S3Source.stream).
THEOREM RowsInOrder == ASSUME Objects \in Nat PROVE Spec => []EmittedInOrder
<1>1. Init => Order
  BY DEF Init, Order, EmittedInOrder
<1>2. Inv /\ Inv' /\ Order /\ [Next]_vars => Order'
  BY OrderStep
<1>3. Order => EmittedInOrder
  BY DEF Order
<1>4. Spec => []Inv
  BY PlaceIsFrontier
<1> QED
  BY <1>1, <1>2, <1>3, <1>4, PTL DEF Spec

\* A stream that ended without an error has given the runner every row of every object it
\* has listed, or dropped it as the policy says; what is uploaded later does not count.
THEOREM EndMeansDone == ASSUME Objects \in Nat PROVE Spec => []CompletedIsDone
<1>1. Init => Ended
  BY DEF Init, Ended
<1>2. Inv /\ Ended /\ [Next]_vars => Ended'
  BY EndedStep
<1>3. Ended => CompletedIsDone
  BY DEF Ended, CompletedIsDone
<1>4. Spec => []Inv
  BY PlaceIsFrontier
<1> QED
  BY <1>1, <1>2, <1>3, <1>4, PTL DEF Spec

-----------------------------------------------------------------------------
(* PostgresSource.                                                              *)

PgStages == {"idle", "connect", "inspect", "execute", "fetch", "emit", "yielded"}
PgOpening == {"connect", "inspect", "execute"}
PgReading == {"fetch", "emit", "yielded"}
PgCall == [stage : PgStages, attempt : Nat, conn : Nat, fallback : BOOLEAN]
PgProgress == [seen : Nat, cursor : Nat, dropped : BOOLEAN]

\* The stage of the stream, and the rows that have left its cursor and its batch.
PgStage == call["stream"].stage
PgFrontier == End - Len(rows) - Len(batch)

PgTypes ==
    /\ config \in Configs
    /\ PgStage \in PgStages
    /\ params \in 0..End /\ saved \in 0..End
    /\ progress \in PgProgress
    /\ emitted \in Seq(Nat) /\ rows \in Seq(Nat) /\ batch \in Seq(Nat)

\* What is left of the query are the rows after the frontier; the rows up to it were seen.
PgPlace ==
    /\ PgStage \in PgReading =>
          /\ params <= PgFrontier
          /\ \A i \in 1..Len(rows) : rows[i] = End - Len(rows) + i
          /\ \A i \in 1..Len(batch) : batch[i] = PgFrontier + i
          /\ progress.seen = PgFrontier - params
          /\ progress.cursor <= PgFrontier
    /\ PgStage \notin {"emit", "yielded"} => batch = <<>>
    /\ PgStage \in PgOpening => progress.seen = 0 /\ progress.cursor = 0
    /\ PgStage # "idle" /\ progress.seen = 0 => emitted = <<>>
    /\ PgStage = "yielded" => /\ Len(emitted) > 0 /\ emitted[Len(emitted)] = PgFrontier
                              /\ progress.cursor = PgFrontier /\ params < PgFrontier

\* Everything up to the frontier is done, but for the row the runner holds; the
\* checkpoint never passes the frontier.
PgDone ==
    /\ ~config.checkpoint => saved = 0
    /\ 1..saved \subseteq done
    /\ PgStage # "idle" => 1..params \subseteq done
    /\ PgStage \in {"fetch", "emit"} => 1..PgFrontier \subseteq done
    /\ PgStage = "yielded" => 1..(PgFrontier - 1) \subseteq done
    /\ PgStage \in PgOpening => saved <= params
    /\ PgStage \in PgReading => saved <= PgFrontier

PgOrder ==
    /\ PS!EmittedInOrder
    /\ PgStage \in PgReading => \A i \in DOMAIN emitted : emitted[i] <= PgFrontier

\* Unless a row was dropped, the rows that were seen were emitted.
PgComplete ==
    /\ PgStage # "idle" /\ ~progress.dropped => emitted = [i \in 1..progress.seen |-> params + i]
    /\ PS!ReportIsTrue

PgData == PgTypes /\ PgPlace /\ PgDone /\ PgOrder /\ PgComplete

LEMMA PgTailFacts ==
  ASSUME NEW s \in Seq(Nat), s # <<>>
  PROVE  /\ Len(s) \in Nat \ {0} /\ Head(s) = s[1] /\ Head(s) \in Nat
         /\ Tail(s) \in Seq(Nat) /\ Len(Tail(s)) = Len(s) - 1
         /\ \A i \in 1..Len(Tail(s)) : Tail(s)[i] = s[i + 1]
  OBVIOUS

LEMMA PgInitData == ASSUME End \in Nat, PS!Init PROVE PgData
<1>1. call["stream"] = PS!Idle
  BY DEF PS!Init, PS!Actors
<1> QED
  BY <1>1 DEF PS!Init, PS!Idle, PS!NoProgress, PgData, PgTypes, PgPlace, PgDone, PgOrder,
     PgComplete, PgStage, PgStages, PgOpening, PgReading, PgProgress, PS!EmittedInOrder,
     PS!ReportIsTrue, PS!metrics_snapshot, PS!evaluate_source

\* A step of the stream before its query, or of a health check, leaves the rows alone.
LEMMA PgSameData ==
  ASSUME PgData, UNCHANGED <<config, params, rows, batch, progress, success, left, emitted, done, saved>>,
         PgStage' = PgStage
  PROVE  PgData'
<1>1. (PS!Streaming)' <=> PS!Streaming
  BY DEF PS!Streaming, PgStage
<1> QED
  BY <1>1 DEF PgData, PgTypes, PgPlace, PgDone, PgOrder, PgComplete, PgFrontier,
     PS!EmittedInOrder, PS!ReportIsTrue, PS!metrics_snapshot, PS!evaluate_source

\* The stream goes on towards its query, or tries again before it has seen a row.
LEMMA PgOpeningData ==
  ASSUME End \in Nat, PgData, UNCHANGED <<config, params, progress, emitted, done, saved>>,
         PgStage # "idle", PgStage' \in PgOpening,
         progress.seen = 0, progress.cursor = 0, rows' \in Seq(Nat), batch' = <<>>
  PROVE  PgData'
<1>1. PgStage' \in PgStages /\ PgStage' \notin PgReading /\ PgStage' # "idle"
      /\ PgStage' \notin {"fetch", "emit"} /\ PgStage' # "fetch" /\ PgStage' # "yielded"
  BY DEF PgOpening, PgStages, PgReading
<1>2. saved <= params
  <2>1. CASE PgStage \in PgOpening
    BY <2>1 DEF PgData, PgDone
  <2>2. CASE PgStage \in PgReading
    <3>1. PgFrontier - params = 0 /\ saved <= PgFrontier /\ params \in Int /\ PgFrontier \in Int
      BY <2>2 DEF PgData, PgPlace, PgDone, PgTypes, PgFrontier
    <3> QED
      BY <3>1
  <2> QED
    BY <2>1, <2>2 DEF PgData, PgTypes, PgStages, PgOpening, PgReading
<1>3. PgTypes' /\ PgPlace'
  BY <1>1 DEF PgData, PgTypes, PgPlace
<1>4. PgDone'
  BY <1>1, <1>2 DEF PgData, PgDone
<1>5. PgOrder'
  BY <1>1 DEF PgData, PgOrder, PS!EmittedInOrder
<1>6. PgComplete'
  BY <1>1 DEF PgData, PgComplete, PS!ReportIsTrue, PS!Streaming, PgStage
<1> QED
  BY <1>3, <1>4, <1>5, <1>6 DEF PgData

\* The stream ends with an error, or because the runner leaves it.
LEMMA PgStoppedData ==
  ASSUME PgData, UNCHANGED <<config, params, emitted, done, saved>>, PgStage' = "idle",
         progress' \in PgProgress, rows' \in Seq(Nat), batch' = <<>>,
         success' = "no" \/ left'
  PROVE  PgData'
<1>1. PgTypes' /\ PgPlace'
  BY DEF PgData, PgTypes, PgPlace, PgStages, PgReading, PgOpening
<1>2. PgDone' /\ PgOrder'
  BY DEF PgData, PgDone, PgOrder, PgReading, PgOpening, PS!EmittedInOrder
<1>3. PgComplete'
  BY DEF PgComplete, PS!ReportIsTrue, PS!metrics_snapshot
<1> QED
  BY <1>1, <1>2, <1>3 DEF PgData

LEMMA PgResumeData == ASSUME End \in Nat, PgData, PS!PrepareResume PROVE PgData'
<1>1. /\ PgStage = "idle" /\ PgStage' = "idle" /\ progress' = PS!NoProgress /\ emitted' = <<>>
      /\ params' = (IF config.checkpoint THEN saved ELSE 0)
      /\ UNCHANGED <<config, rows, batch, done, saved>>
  BY DEF PS!PrepareResume, PgStage, PS!Streaming
<1>2. params' \in 0..End /\ progress'.seen = 0 /\ progress' \in PgProgress
  BY <1>1 DEF PgData, PgTypes, PS!NoProgress, PgProgress
<1>3. PgTypes' /\ PgPlace'
  BY <1>1, <1>2 DEF PgData, PgTypes, PgPlace, PgReading, PgOpening
<1>4. PgDone' /\ PgOrder'
  BY <1>1 DEF PgData, PgDone, PgOrder, PgReading, PgOpening, PS!EmittedInOrder
<1>5. PgComplete'
  BY <1>1, <1>2 DEF PgComplete, PS!ReportIsTrue
<1> QED
  BY <1>3, <1>4, <1>5 DEF PgData

LEMMA PgStartData ==
  ASSUME End \in Nat, PgData, PS!Start, PgStage' = "connect" PROVE PgData'
<1>1. /\ PgStage = "idle" /\ progress' = PS!NoProgress /\ emitted' = <<>>
      /\ params = (IF config.checkpoint THEN saved ELSE 0)
      /\ UNCHANGED <<config, params, rows, batch, done, saved>>
  BY DEF PS!Start, PgStage, PS!Streaming
<1>2. progress'.seen = 0 /\ progress'.cursor = 0 /\ progress' \in PgProgress
  BY <1>1 DEF PS!NoProgress, PgProgress
<1>3. params = saved /\ saved \in Nat
  BY <1>1 DEF PgData, PgDone, PgTypes
<1>4. PgTypes' /\ PgPlace'
  BY <1>1, <1>2 DEF PgData, PgTypes, PgPlace, PgReading, PgOpening, PgStages
<1>5. PgDone' /\ PgOrder'
  BY <1>1, <1>3 DEF PgData, PgDone, PgOrder, PgReading, PgOpening, PS!EmittedInOrder
<1>6. PgComplete'
  <2>1. emitted' = [i \in 1..progress'.seen |-> params' + i]
    BY <1>1, <1>2
  <2>2. (PS!Streaming)'
    BY DEF PS!Streaming, PgStage
  <2> QED
    BY <2>1, <2>2 DEF PgComplete, PS!ReportIsTrue
<1> QED
  BY <1>4, <1>5, <1>6 DEF PgData

LEMMA PgCrashData ==
  ASSUME End \in Nat, PgData, PS!Crash, PgStage' = "idle" PROVE PgData'
<1>1. /\ progress' = PS!NoProgress /\ emitted' = <<>> /\ params' = 0 /\ rows' = <<>> /\ batch' = <<>>
      /\ success' = "none" /\ UNCHANGED <<config, done, saved>>
  BY DEF PS!Crash
<1>2. progress' \in PgProgress
  BY <1>1 DEF PS!NoProgress, PgProgress
<1>4. PgTypes' /\ PgPlace'
  BY <1>1, <1>2 DEF PgData, PgTypes, PgPlace, PgReading, PgOpening, PgStages
<1>5. PgDone' /\ PgOrder'
  BY <1>1 DEF PgData, PgDone, PgOrder, PgReading, PgOpening, PS!EmittedInOrder
<1>6. PgComplete'
  BY <1>1 DEF PgComplete, PS!ReportIsTrue, PS!metrics_snapshot
<1> QED
  BY <1>4, <1>5, <1>6 DEF PgData

LEMMA PgSplitFacts ==
  ASSUME NEW s \in Seq(Nat), NEW n \in Nat, n <= Len(s)
  PROVE  /\ SubSeq(s, 1, n) \in Seq(Nat) /\ Len(SubSeq(s, 1, n)) = n
         /\ \A i \in 1..n : SubSeq(s, 1, n)[i] = s[i]
         /\ SubSeq(s, n + 1, Len(s)) \in Seq(Nat)
         /\ Len(SubSeq(s, n + 1, Len(s))) = Len(s) - n
         /\ \A i \in 1..(Len(s) - n) : SubSeq(s, n + 1, Len(s))[i] = s[n + i]
  OBVIOUS

LEMMA PgRunFacts ==
  ASSUME NEW p \in Nat, NEW k \in Nat
  PROVE  Append([i \in 1..k |-> p + i], p + (k + 1)) = [i \in 1..(k + 1) |-> p + i]
  OBVIOUS

LEMMA PgAppendFacts ==
  ASSUME NEW s \in Seq(Nat), NEW x \in Nat
  PROVE  /\ Append(s, x) \in Seq(Nat) /\ Len(Append(s, x)) = Len(s) + 1
         /\ Append(s, x)[Len(s) + 1] = x
         /\ \A i \in 1..Len(s) : Append(s, x)[i] = s[i]
         /\ DOMAIN s = 1..Len(s) /\ DOMAIN Append(s, x) = 1..(Len(s) + 1) /\ Len(s) \in Nat
  OBVIOUS

LEMMA PgExecuteData ==
  ASSUME End \in Nat, PgData, PS!Execute, PgStage' = "fetch" PROVE PgData'
<1>1. /\ PgStage = "execute" /\ rows' = [i \in 1..(End - params) |-> params + i]
      /\ UNCHANGED <<config, params, batch, progress, emitted, done, saved>>
  BY DEF PS!Execute, PgStage
<1>8. PgStage # "idle" /\ PgStage \in PgOpening /\ PgStage \notin {"emit", "yielded"}
  BY <1>1 DEF PgOpening
<1>2. /\ progress.seen = 0 /\ progress.cursor = 0 /\ emitted = <<>> /\ params \in 0..End
      /\ batch = <<>> /\ 1..params \subseteq done /\ saved <= params
  BY <1>8 DEF PgData, PgPlace, PgTypes, PgDone
<1>3. rows' \in Seq(Nat) /\ Len(rows') = End - params
  BY <1>1, <1>2
<1>4. \A i \in 1..Len(rows') : rows'[i] = End - Len(rows') + i
  BY <1>1, <1>2, <1>3
<1>5. PgFrontier' = params /\ batch' = <<>>
  BY <1>1, <1>2, <1>3 DEF PgFrontier
<1>6. PgTypes'
  BY <1>1, <1>3 DEF PgData, PgTypes, PgStages
<1>7. PgPlace'
  BY <1>1, <1>2, <1>4, <1>5 DEF PgPlace, PgOpening
<1>9. PgDone'
  BY <1>1, <1>2, <1>5 DEF PgData, PgDone, PgOpening
<1>10. PgOrder' /\ PgComplete'
  <2>1. (PS!Streaming)'
    BY DEF PS!Streaming, PgStage
  <2> QED
    BY <1>1, <1>2, <2>1 DEF PgOrder, PgComplete, PS!EmittedInOrder, PS!ReportIsTrue
<1> QED
  BY <1>6, <1>7, <1>9, <1>10 DEF PgData

\* A batch is fetched: the frontier stays where it is.
LEMMA PgFetchData ==
  ASSUME End \in Nat, PgData, PgStage = "fetch", PgStage' = "emit",
         NEW n \in Nat, n <= Len(rows),
         batch' = SubSeq(rows, 1, n), rows' = SubSeq(rows, n + 1, Len(rows)),
         UNCHANGED <<config, params, progress, emitted, done, saved>>
  PROVE  PgData'
<1>1. /\ PgStage = "fetch" /\ batch' = SubSeq(rows, 1, n) /\ rows' = SubSeq(rows, n + 1, Len(rows))
      /\ UNCHANGED <<config, params, progress, emitted, done, saved>>
  OBVIOUS
<1>2. rows \in Seq(Nat) /\ Len(rows) \in Nat /\ batch = <<>>
  BY <1>1 DEF PgData, PgTypes, PgPlace
<1>3. n \in Nat /\ n <= Len(rows)
  OBVIOUS
<1>4. /\ batch' \in Seq(Nat) /\ Len(batch') = n /\ \A i \in 1..n : batch'[i] = rows[i]
  BY <1>2, <1>3, PgSplitFacts
<1>5. /\ rows' \in Seq(Nat) /\ Len(rows') = Len(rows) - n
      /\ \A i \in 1..(Len(rows) - n) : rows'[i] = rows[n + i]
  BY <1>2, <1>3, PgSplitFacts
<1>6. /\ PgFrontier = End - Len(rows) /\ PgFrontier' = PgFrontier /\ PgFrontier \in Int
  <2>1. Len(batch) = 0
    BY <1>2
  <2>2. PgFrontier = End - Len(rows) /\ PgFrontier \in Int
    BY <1>2, <2>1 DEF PgFrontier
  <2>3. PgFrontier' = End - (Len(rows) - n) - n
    BY <1>4, <1>5 DEF PgFrontier
  <2>4. End - (Len(rows) - n) - n = End - Len(rows)
    BY <1>2, <1>3
  <2> QED
    BY <2>2, <2>3, <2>4
<1>7. /\ params <= PgFrontier /\ \A i \in 1..Len(rows) : rows[i] = PgFrontier + i
      /\ progress.seen = PgFrontier - params /\ progress.cursor <= PgFrontier
      /\ (progress.seen = 0 => emitted = <<>>)
  BY <1>1, <1>6 DEF PgData, PgPlace, PgReading
<1>8. \A i \in 1..Len(batch') : batch'[i] = PgFrontier' + i
  <2> TAKE i \in 1..Len(batch')
  <2>1. i \in 1..n /\ i \in 1..Len(rows)
    BY <1>2, <1>3, <1>4
  <2> QED
    BY <1>4, <1>6, <1>7, <2>1
<1>9. \A i \in 1..Len(rows') : rows'[i] = End - Len(rows') + i
  <2> TAKE i \in 1..Len(rows')
  <2>1. n + i \in 1..Len(rows) /\ i \in 1..(Len(rows) - n)
    BY <1>2, <1>3, <1>5
  <2>2. rows'[i] = PgFrontier + (n + i)
    BY <1>5, <1>7, <2>1
  <2>3. i \in Int /\ n \in Int /\ Len(rows) \in Int
    BY <1>2
  <2>4. (End - Len(rows)) + (n + i) = End - (Len(rows) - n) + i
    BY <2>3
  <2> QED
    BY <1>5, <1>6, <2>2, <2>4
<1>10. PgTypes'
  BY <1>1, <1>4, <1>5 DEF PgData, PgTypes, PgStages
<1>11. PgPlace'
  BY <1>1, <1>6, <1>7, <1>8, <1>9 DEF PgPlace, PgOpening
<1>12. PgDone' /\ PgOrder'
  BY <1>1, <1>6 DEF PgData, PgDone, PgOrder, PgOpening, PgReading, PS!EmittedInOrder
<1>13. PgComplete'
  BY <1>1 DEF PgData, PgComplete, PS!ReportIsTrue, PS!Streaming, PgStage
<1> QED
  BY <1>10, <1>11, <1>12, <1>13 DEF PgData

\* The query has no more rows: all were seen, and emitted unless one was dropped.
LEMMA PgEndData ==
  ASSUME End \in Nat, PgData, PgStage = "fetch", rows = <<>>, PgStage' = "idle",
         UNCHANGED <<config, params, rows, batch, progress, emitted, done, saved>>
  PROVE  PgData'
<1>1. batch = <<>> /\ PgFrontier = End /\ progress.seen = PgFrontier - params
  BY DEF PgData, PgPlace, PgFrontier, PgReading
<1>2. ~progress.dropped => emitted = [i \in 1..(End - params) |-> params + i]
  BY <1>1 DEF PgData, PgComplete
<1>3. PgComplete'
  BY <1>2 DEF PgComplete, PS!ReportIsTrue, PS!metrics_snapshot, PS!evaluate_source
<1>4. PgTypes' /\ PgPlace'
  BY <1>1 DEF PgData, PgTypes, PgPlace, PgReading, PgOpening, PgStages
<1>5. PgDone' /\ PgOrder'
  BY DEF PgData, PgDone, PgOrder, PgReading, PgOpening, PS!EmittedInOrder
<1> QED
  BY <1>3, <1>4, <1>5 DEF PgData

\* The batch is used up.
LEMMA PgEmptyData ==
  ASSUME PgData, PgStage = "emit", batch = <<>>, PgStage' = "fetch",
         UNCHANGED <<config, params, rows, batch, progress, emitted, done, saved>>
  PROVE  PgData'
<1>1. PgFrontier' = PgFrontier
  BY DEF PgFrontier
<1>2. PgTypes' /\ PgPlace'
  BY <1>1 DEF PgData, PgTypes, PgPlace, PgReading, PgOpening, PgStages
<1>3. PgDone' /\ PgOrder'
  BY <1>1 DEF PgData, PgDone, PgOrder, PgReading, PgOpening, PS!EmittedInOrder
<1>4. PgComplete'
  BY DEF PgData, PgComplete, PS!ReportIsTrue, PS!Streaming, PgStage
<1> QED
  BY <1>2, <1>3, <1>4 DEF PgData

LEMMA PgHandleData ==
  ASSUME End \in Nat, PgData, NEW save \in BOOLEAN, PS!Handle(save), PgStage' = "emit"
  PROVE  PgData'
<1>1. /\ PgStage = "yielded" /\ done' = done \cup {emitted[Len(emitted)]}
      /\ saved' = (IF save /\ config.checkpoint THEN progress.cursor ELSE saved)
      /\ UNCHANGED <<config, params, rows, batch, progress, emitted>>
  BY DEF PS!Handle, PgStage
<1>2. /\ emitted[Len(emitted)] = PgFrontier /\ progress.cursor = PgFrontier
      /\ params < PgFrontier /\ PgFrontier \in Int /\ PgFrontier <= End /\ PgFrontier' = PgFrontier
      /\ params \in Nat /\ saved \in Nat /\ saved <= PgFrontier
      /\ progress.seen = PgFrontier - params
  BY <1>1 DEF PgData, PgPlace, PgTypes, PgDone, PgFrontier, PgReading
<1>3. 1..(PgFrontier - 1) \subseteq done
  BY <1>1 DEF PgData, PgDone
<1>4. 1..PgFrontier \subseteq done'
  BY <1>1, <1>2, <1>3
<1>5. /\ saved' \in 0..End /\ saved <= saved' /\ saved' <= PgFrontier /\ 1..saved' \subseteq done'
      /\ (~config.checkpoint => saved' = 0)
  BY <1>1, <1>2, <1>4 DEF PgData, PgDone, PgTypes
<1>6. PgTypes'
  BY <1>1, <1>5 DEF PgData, PgTypes, PgStages
<1>7. PgPlace'
  BY <1>1, <1>2 DEF PgData, PgPlace, PgOpening, PgReading
<1>8. PgDone'
  <2>1. 1..params \subseteq done'
    BY <1>2, <1>4
  <2> QED
    BY <1>1, <1>2, <1>4, <1>5, <2>1 DEF PgDone, PgOpening
<1>9. PgOrder'
  BY <1>1, <1>2 DEF PgData, PgOrder, PgReading, PS!EmittedInOrder
<1>10. PgComplete'
  BY <1>1 DEF PgData, PgComplete, PS!ReportIsTrue, PS!Streaming, PgStage
<1> QED
  BY <1>6, <1>7, <1>8, <1>9, <1>10 DEF PgData

\* A row leaves the batch and the frontier moves to it.
LEMMA PgNextRow ==
  ASSUME End \in Nat, PgData, PgStage = "emit", batch # <<>>, batch' = Tail(batch), rows' = rows
  PROVE  /\ Head(batch) = PgFrontier + 1 /\ PgFrontier' = PgFrontier + 1
         /\ PgFrontier \in Nat /\ Head(batch) \in Nat /\ Head(batch) <= End /\ batch' \in Seq(Nat)
         /\ \A i \in 1..Len(batch') : batch'[i] = PgFrontier' + i
         /\ params \in Nat /\ params <= PgFrontier /\ saved <= PgFrontier
         /\ progress.seen = PgFrontier - params /\ progress.cursor <= PgFrontier
         /\ 1..PgFrontier \subseteq done /\ 1..params \subseteq done
<1>1. rows \in Seq(Nat) /\ batch \in Seq(Nat) /\ params \in Nat /\ Len(rows) \in Nat
  BY DEF PgData, PgTypes
<1>2. /\ params <= PgFrontier /\ \A i \in 1..Len(batch) : batch[i] = PgFrontier + i
      /\ progress.seen = PgFrontier - params /\ progress.cursor <= PgFrontier
  BY DEF PgData, PgPlace, PgReading
<1>3. saved <= PgFrontier /\ 1..PgFrontier \subseteq done /\ 1..params \subseteq done
  BY DEF PgData, PgDone, PgReading
<1>4. /\ Len(batch) \in Nat \ {0} /\ Head(batch) = batch[1] /\ Head(batch) \in Nat
      /\ batch' \in Seq(Nat) /\ Len(batch') = Len(batch) - 1
      /\ \A i \in 1..Len(batch') : batch'[i] = batch[i + 1]
  BY <1>1, PgTailFacts
<1>5. PgFrontier \in Nat /\ PgFrontier' = PgFrontier + 1 /\ PgFrontier + 1 <= End
  BY <1>1, <1>2, <1>4 DEF PgFrontier
<1>6. Head(batch) = PgFrontier + 1
  BY <1>2, <1>4
<1>7. \A i \in 1..Len(batch') : batch'[i] = PgFrontier' + i
  <2> TAKE i \in 1..Len(batch')
  <2>1. i + 1 \in 1..Len(batch)
    BY <1>4
  <2> QED
    BY <1>2, <1>4, <1>5, <2>1
<1> QED
  BY <1>1, <1>2, <1>3, <1>4, <1>5, <1>6, <1>7

\* It is dropped.
LEMMA PgDroppedData ==
  ASSUME End \in Nat, PgData, PgStage = "emit", batch # <<>>, batch' = Tail(batch), PgStage' = "emit",
         done' = done \cup {Head(batch)}, progress' \in PgProgress,
         progress'.seen = progress.seen + 1, progress'.cursor \in {progress.cursor, Head(batch)},
         progress'.dropped, UNCHANGED <<config, params, rows, emitted, saved>>
  PROVE  PgData'
<1>1. /\ Head(batch) = PgFrontier + 1 /\ PgFrontier' = PgFrontier + 1
      /\ PgFrontier \in Nat /\ Head(batch) \in Nat /\ Head(batch) <= End /\ batch' \in Seq(Nat)
      /\ \A i \in 1..Len(batch') : batch'[i] = PgFrontier' + i
      /\ params \in Nat /\ params <= PgFrontier /\ saved <= PgFrontier
      /\ progress.seen = PgFrontier - params /\ progress.cursor <= PgFrontier
      /\ 1..PgFrontier \subseteq done /\ 1..params \subseteq done
  BY PgNextRow
<1>2. progress.seen \in Nat /\ progress.cursor \in Nat /\ saved \in Nat
  BY DEF PgData, PgTypes, PgProgress
<1>3. progress'.seen = PgFrontier' - params /\ progress'.cursor <= PgFrontier' /\ progress'.seen # 0
      /\ saved <= PgFrontier' /\ params <= PgFrontier'
  BY <1>1, <1>2
<1>4. 1..PgFrontier' \subseteq done'
  BY <1>1
<1>5. PgTypes'
  BY <1>1 DEF PgData, PgTypes, PgStages
<1>6. PgPlace'
  BY <1>1, <1>3 DEF PgData, PgPlace, PgOpening, PgReading
<1>7. PgDone'
  BY <1>1, <1>3, <1>4 DEF PgData, PgDone, PgOpening, PgReading
<1>8. PgOrder'
  <2>3. emitted \in Seq(Nat)
    BY DEF PgData, PgTypes
  <2>4. \A i \in DOMAIN emitted : emitted[i] <= PgFrontier
    BY DEF PgData, PgOrder, PgReading
  <2>1. \A i \in DOMAIN emitted : emitted[i] \in Nat /\ emitted[i] <= PgFrontier
    BY <2>3, <2>4
  <2>2. \A i \in DOMAIN emitted : emitted[i] <= PgFrontier'
    BY <1>1, <2>1
  <2> QED
    BY <2>2 DEF PgData, PgOrder, PS!EmittedInOrder
<1>9. PgComplete'
  BY DEF PgComplete, PS!ReportIsTrue, PS!Streaming, PgStage
<1> QED
  BY <1>5, <1>6, <1>7, <1>8, <1>9 DEF PgData

\* It is given to the runner.
LEMMA PgYieldedData ==
  ASSUME End \in Nat, PgData, PgStage = "emit", batch # <<>>, batch' = Tail(batch), PgStage' = "yielded",
         emitted' = Append(emitted, Head(batch)), progress' \in PgProgress,
         progress'.seen = progress.seen + 1, progress'.cursor = Head(batch),
         progress'.dropped = progress.dropped, UNCHANGED <<config, params, rows, done, saved>>
  PROVE  PgData'
<1>1. /\ Head(batch) = PgFrontier + 1 /\ PgFrontier' = PgFrontier + 1
      /\ PgFrontier \in Nat /\ Head(batch) \in Nat /\ Head(batch) <= End /\ batch' \in Seq(Nat)
      /\ \A i \in 1..Len(batch') : batch'[i] = PgFrontier' + i
      /\ params \in Nat /\ params <= PgFrontier /\ saved <= PgFrontier
      /\ progress.seen = PgFrontier - params /\ progress.cursor <= PgFrontier
      /\ 1..PgFrontier \subseteq done /\ 1..params \subseteq done
  BY PgNextRow
<1>2. progress.seen \in Nat /\ progress.cursor \in Nat /\ saved \in Nat /\ emitted \in Seq(Nat)
  BY DEF PgData, PgTypes, PgProgress
<1>3. /\ progress'.seen = PgFrontier' - params /\ progress'.cursor = PgFrontier' /\ progress'.seen # 0
      /\ saved <= PgFrontier' /\ params < PgFrontier' /\ params <= PgFrontier'
      /\ progress'.cursor <= PgFrontier'
  <2>1. progress'.seen = PgFrontier + 1 - params /\ progress'.cursor = PgFrontier'
    BY <1>1, <1>2
  <2>2. saved <= PgFrontier + 1 /\ params < PgFrontier + 1 /\ params <= PgFrontier + 1
        /\ PgFrontier + 1 - params # 0 /\ PgFrontier + 1 <= PgFrontier + 1
    BY <1>1, <1>2
  <2> QED
    BY <1>1, <2>1, <2>2
<1>4. PgFrontier' - 1 = PgFrontier
  BY <1>1
<1>10. /\ emitted' \in Seq(Nat) /\ Len(emitted') = Len(emitted) + 1
       /\ emitted'[Len(emitted) + 1] = Head(batch)
       /\ \A i \in 1..Len(emitted) : emitted'[i] = emitted[i]
       /\ DOMAIN emitted = 1..Len(emitted) /\ DOMAIN emitted' = 1..(Len(emitted) + 1)
       /\ Len(emitted) \in Nat
  BY <1>1, <1>2, PgAppendFacts
<1>5. PgTypes'
  BY <1>1, <1>10 DEF PgData, PgTypes, PgStages
<1>11. Len(emitted') > 0 /\ emitted'[Len(emitted')] = PgFrontier'
  <2>1. Head(batch) = PgFrontier'
    BY <1>1
  <2> QED
    BY <1>10, <2>1
<1>6. PgPlace'
  BY <1>1, <1>3, <1>11 DEF PgData, PgPlace, PgOpening, PgReading
<1>7. PgDone'
  BY <1>1, <1>3, <1>4 DEF PgData, PgDone, PgOpening, PgReading
<1>8. PgOrder'
  <2> DEFINE n == Len(emitted)
  <2>1. \A i \in 1..n : /\ emitted[i] \in Nat /\ emitted[i] <= PgFrontier
                       /\ emitted[i] > params /\ (i > 1 => emitted[i - 1] < emitted[i])
    <3>1. \A i \in DOMAIN emitted : emitted[i] <= PgFrontier
      BY DEF PgData, PgOrder, PgReading
    <3>2. \A i \in DOMAIN emitted : emitted[i] > params /\ (i > 1 => emitted[i - 1] < emitted[i])
      BY DEF PgData, PgOrder, PS!EmittedInOrder
    <3>3. \A i \in DOMAIN emitted : emitted[i] \in Nat
      BY <1>2
    <3> QED
      BY <1>10, <3>1, <3>2, <3>3
  <2>2. ASSUME NEW i \in 1..(n + 1)
        PROVE  /\ emitted'[i] <= PgFrontier' /\ emitted'[i] > params'
               /\ (i > 1 => emitted'[i - 1] < emitted'[i])
    <3>1. CASE i \in 1..n
      <4>1. i > 1 => i - 1 \in 1..n
        BY <1>10, <3>1
      <4> QED
        BY <1>1, <1>10, <2>1, <3>1, <4>1
    <3>2. CASE i = n + 1
      <4>1. i > 1 => i - 1 \in 1..n
        BY <1>10, <3>2
      <4>2. emitted'[i] = PgFrontier + 1
        BY <1>1, <1>10, <3>2
      <4>3. i > 1 => emitted'[i - 1] \in Nat /\ emitted'[i - 1] <= PgFrontier
        BY <1>10, <2>1, <4>1
      <4>4. PgFrontier \in Nat /\ params \in Nat /\ params <= PgFrontier /\ PgFrontier' = PgFrontier + 1
        BY <1>1
      <4>5. emitted'[i] <= PgFrontier' /\ emitted'[i] > params'
        BY <4>2, <4>4
      <4>7. \A x, f \in Nat : x <= f => x < f + 1
        OBVIOUS
      <4>6. i > 1 => emitted'[i - 1] < emitted'[i]
        BY <4>2, <4>3, <4>4, <4>7
      <4> QED
        BY <4>5, <4>6
    <3> QED
      BY <1>10, <3>1, <3>2
  <2> QED
    BY <1>10, <2>2 DEF PgOrder, PS!EmittedInOrder
<1>9. PgComplete'
  <2>1. ASSUME ~progress'.dropped PROVE emitted' = [i \in 1..progress'.seen |-> params' + i]
    <3>1. emitted = [i \in 1..progress.seen |-> params + i]
      BY <2>1 DEF PgData, PgComplete
    <3>2. Head(batch) = params + (progress.seen + 1)
      <4>1. \A f, p \in Int : f + 1 = p + ((f - p) + 1)
        OBVIOUS
      <4>2. Head(batch) = PgFrontier + 1 /\ progress.seen = PgFrontier - params
            /\ PgFrontier \in Int /\ params \in Int
        BY <1>1
      <4> QED
        BY <4>1, <4>2
    <3> QED
      BY <1>1, <1>2, <3>1, <3>2, PgRunFacts
  <2>2. (PS!Streaming)'
    BY DEF PS!Streaming, PgStage
  <2> QED
    BY <2>1, <2>2 DEF PgComplete, PS!ReportIsTrue
<1> QED
  BY <1>5, <1>6, <1>7, <1>8, <1>9 DEF PgData

-----------------------------------------------------------------------------
(* Connections.                                                              *)

PgConn == [id : Nat, role : {"primary", "standby"}, stale : BOOLEAN]
PgIds == {c.id : c \in conns}
PgUsing(a) == call[a].stage \notin {"idle", "connect"}

\* Every connection that is open belongs to one of the two actors, who each hold one when
\* they are past connecting, or was lost.
PgConns ==
    /\ call \in [PS!Actors -> PgCall]
    /\ call["health"].stage \in {"idle", "connect", "inspect"}
    /\ conns \subseteq PgConn /\ IsFiniteSet(conns)
    /\ PgIds = leaked \cup ({call["stream"].conn, call["health"].conn} \ {0})
    /\ \A a \in PS!Actors : call[a].conn # 0 <=> PgUsing(a)
    /\ \A a \in PS!Actors : call[a].conn \notin leaked
    /\ call["stream"].conn = call["health"].conn => call["stream"].conn = 0
    /\ 0 \notin leaked

\* More numbers than connections: one is free.
LEMMA PgFreeId ==
  ASSUME NEW S, IsFiniteSet(S), NEW f \in [S -> Nat]
  PROVE  \E i \in 1..(Cardinality(S) + 1) : \A c \in S : f[c] # i
<1> DEFINE n == Cardinality(S)
           T == {f[c] : c \in S}
<1>1. n \in Nat
  BY FS_CardinalityType
<1>2. f \in Surjection(S, T)
  BY DEF Surjection
<1>3. IsFiniteSet(T) /\ Cardinality(T) <= n
  BY <1>2, FS_Surjection
<1>4. IsFiniteSet(1..(n + 1)) /\ Cardinality(1..(n + 1)) = n + 1
  <2>1. 1 \in Int /\ n + 1 \in Int /\ ~(1 > n + 1) /\ (n + 1) - 1 + 1 = n + 1
    BY <1>1
  <2> HIDE DEF n
  <2> QED
    BY <2>1, FS_Interval
<1>5. SUFFICES ASSUME \A i \in 1..(n + 1) : \E c \in S : f[c] = i PROVE FALSE
  OBVIOUS
<1>6. 1..(n + 1) \in SUBSET T
  BY <1>5
<1>7. Cardinality(1..(n + 1)) <= Cardinality(T)
  BY <1>3, <1>6, FS_Subset
<1>8. Cardinality(T) \in Nat
  BY <1>3, FS_CardinalityType
<1> QED
  BY <1>1, <1>3, <1>4, <1>7, <1>8

LEMMA PgSameCardinality == ASSUME NEW S PROVE PS!Cardinality(S) = Cardinality(S)
  BY DEF PS!Cardinality, Cardinality

LEMMA PgNewId ==
  ASSUME PgConns
  PROVE  PS!NewId \in Nat \ {0} /\ PS!NewId \notin PgIds
<1> DEFINE f == [c \in conns |-> c.id]
<1>1. f \in [conns -> Nat] /\ IsFiniteSet(conns) /\ \A c \in conns : f[c] = c.id
  BY DEF PgConns, PgConn
<1>2. Cardinality(conns) \in Nat
  BY <1>1, FS_CardinalityType
<1>3. \E i \in 1..(Cardinality(conns) + 1) : \A c \in conns : c.id # i
  <2> HIDE DEF f
  <2> QED
    BY <1>1, PgFreeId
<1>4. PS!NewId \in 1..(Cardinality(conns) + 1) /\ \A c \in conns : c.id # PS!NewId
  BY <1>3, PgSameCardinality DEF PS!NewId
<1> QED
  BY <1>2, <1>4 DEF PgIds

\* Of the two actors a changes its call to r.
LEMMA PgCallAt ==
  ASSUME call \in [PS!Actors -> PgCall], NEW a \in PS!Actors, NEW r \in PgCall,
         call' = [call EXCEPT ![a] = r]
  PROVE  /\ call' \in [PS!Actors -> PgCall] /\ call'[a] = r
         /\ \A b \in PS!Actors : b # a => call'[b] = call[b]
  BY DEF PS!Actors

LEMMA PgStageAt ==
  ASSUME call \in [PS!Actors -> PgCall], NEW a \in PS!Actors, NEW s \in PgStages,
         call' = [call EXCEPT ![a].stage = s]
  PROVE  /\ call' \in [PS!Actors -> PgCall]
         /\ call'[a].stage = s /\ call'[a].conn = call[a].conn
         /\ \A b \in PS!Actors : b # a => call'[b] = call[b]
<1>1. call' = [call EXCEPT ![a] = [call[a] EXCEPT !.stage = s]] /\ call[a] \in PgCall
  OBVIOUS
<1>2. [call[a] EXCEPT !.stage = s] \in PgCall
  BY <1>1 DEF PgCall
<1>3. /\ call' \in [PS!Actors -> PgCall] /\ call'[a] = [call[a] EXCEPT !.stage = s]
      /\ \A b \in PS!Actors : b # a => call'[b] = call[b]
  BY <1>1, <1>2
<1> QED
  BY <1>1, <1>3 DEF PgCall

\* Nothing changes for the connections.
LEMMA PgSameConns ==
  ASSUME PgConns, call' \in [PS!Actors -> PgCall], call'["health"].stage \in {"idle", "connect", "inspect"},
         \A a \in PS!Actors : call'[a].conn = call[a].conn /\ (PgUsing(a)' <=> PgUsing(a)),
         conns' \subseteq PgConn, IsFiniteSet(conns'),
         PgIds' = PgIds, leaked' = leaked
  PROVE  PgConns'
  BY DEF PgConns, PgUsing, PS!Actors

\* a connects.
LEMMA PgOpenConn ==
  ASSUME PgConns, NEW a \in PS!Actors, call[a].stage = "connect",
         call' \in [PS!Actors -> PgCall], call'["health"].stage \in {"idle", "connect", "inspect"},
         PgUsing(a)', call'[a].conn = PS!NewId, \A b \in PS!Actors : b # a => call'[b] = call[b],
         conns' \subseteq PgConn, IsFiniteSet(conns'),
         PgIds' = PgIds \cup {PS!NewId}, leaked' = leaked
  PROVE  PgConns'
<1>1. PS!NewId # 0 /\ PS!NewId \notin PgIds
  BY PgNewId
<1>2. call[a].conn = 0
  BY DEF PgConns, PgUsing
<1> HIDE DEF PS!NewId
<1>3. CASE a = "stream"
  BY <1>1, <1>2, <1>3 DEF PgConns, PgUsing, PS!Actors
<1>4. CASE a = "health"
  BY <1>1, <1>2, <1>4 DEF PgConns, PgUsing, PS!Actors
<1> QED
  BY <1>3, <1>4 DEF PS!Actors

\* a closes its connection, or loses it.
LEMMA PgDropConn ==
  ASSUME PgConns, NEW a \in PS!Actors,
         call' \in [PS!Actors -> PgCall], call'["health"].stage \in {"idle", "connect", "inspect"},
         ~PgUsing(a)', call'[a].conn = 0, \A b \in PS!Actors : b # a => call'[b] = call[b],
         conns' \subseteq PgConn, IsFiniteSet(conns'),
         \/ PgIds' = PgIds \ {call[a].conn} /\ leaked' = leaked
         \/ PgIds' = PgIds /\ leaked' = leaked \cup {call[a].conn} /\ call[a].conn # 0
         \/ PgIds' = PgIds /\ leaked' = leaked /\ call[a].conn = 0
  PROVE  PgConns'
<1>3. CASE a = "stream"
  BY <1>3 DEF PgConns, PgUsing, PS!Actors
<1>4. CASE a = "health"
  BY <1>4 DEF PgConns, PgUsing, PS!Actors
<1> QED
  BY <1>3, <1>4 DEF PS!Actors

LEMMA PgCloseIds ==
  ASSUME PgConns, NEW a \in PS!Actors, PS!Close(a)
  PROVE  /\ conns' \subseteq PgConn /\ IsFiniteSet(conns')
         /\ PgIds' = PgIds \ {call[a].conn}
<1>1. conns' \in SUBSET conns /\ conns' = {c \in conns : c.id # call[a].conn}
  BY DEF PS!Close
<1>2. IsFiniteSet(conns')
  BY <1>1, FS_Subset DEF PgConns
<1> QED
  BY <1>1, <1>2 DEF PgConns, PgIds

-----------------------------------------------------------------------------
(* Steps.                                                                    *)

PgInv == PgData /\ PgConns

LEMMA PgIdleFacts == PS!Idle \in PgCall /\ PS!Idle.conn = 0 /\ PS!Idle.stage = "idle"
  BY DEF PS!Idle, PgCall, PgStages

LEMMA PgConnectFacts ==
  /\ [PS!Idle EXCEPT !.stage = "connect"] \in PgCall
  /\ [PS!Idle EXCEPT !.stage = "connect"].conn = 0
  /\ [PS!Idle EXCEPT !.stage = "connect"].stage = "connect"
  BY DEF PS!Idle, PgCall, PgStages

PgRetry(c, k) == [c EXCEPT !.stage = "connect", !.attempt = k]

LEMMA PgRetryFacts ==
  ASSUME NEW c \in PgCall, NEW k \in Nat
  PROVE  /\ PgRetry(c, k) \in PgCall /\ PgRetry(c, k).conn = c.conn
         /\ PgRetry(c, k).stage = "connect"
  BY DEF PgCall, PgStages, PgRetry

\* An attempt fails: the stream tries again before it has seen a row, or the call ends.
LEMMA PgFailsCall ==
  ASSUME call \in [PS!Actors -> PgCall], NEW a \in PS!Actors, NEW r \in BOOLEAN, PS!Fails(a, r)
  PROVE  /\ call' \in [PS!Actors -> PgCall] /\ call'[a].conn = 0
         /\ \A b \in PS!Actors : b # a => call'[b] = call[b]
         /\ \/ /\ call'[a].stage = "connect" /\ a = "stream"
               /\ progress.seen = 0 /\ progress.cursor = 0 /\ UNCHANGED <<success, left>>
            \/ /\ call'[a].stage = "idle"
               /\ a = "stream" => success' = "no"
               /\ a # "stream" => UNCHANGED <<success, left>>
<1>1. call[a].attempt + 1 \in Nat
  BY DEF PgCall
<1>2. CASE /\ a = "stream" /\ progress.seen = 0 /\ progress.cursor = 0
           /\ call' = [call EXCEPT ![a] = PgRetry(PS!Idle, call[a].attempt + 1)]
           /\ UNCHANGED <<success, left>>
  <2> DEFINE R == PgRetry(PS!Idle, call[a].attempt + 1)
  <2>1. R \in PgCall /\ R.conn = 0 /\ R.stage = "connect"
    BY <1>1, PgIdleFacts, PgRetryFacts
  <2>2. call' = [call EXCEPT ![a] = R]
    BY <1>2
  <2> HIDE DEF R
  <2>3. /\ call' \in [PS!Actors -> PgCall] /\ call'[a] = R
        /\ \A b \in PS!Actors : b # a => call'[b] = call[b]
    BY <2>1, <2>2, PgCallAt
  <2> QED
    BY <1>2, <2>1, <2>3
<1>3. CASE /\ call' = [call EXCEPT ![a] = PS!Idle]
           /\ IF a = "stream" THEN success' = "no" /\ left' = FALSE ELSE UNCHANGED <<success, left>>
  <2>1. /\ call' \in [PS!Actors -> PgCall] /\ call'[a] = PS!Idle
        /\ \A b \in PS!Actors : b # a => call'[b] = call[b]
    BY <1>3, PgIdleFacts, PgCallAt
  <2> QED
    BY <1>3, <2>1, PgIdleFacts
<1> QED
  BY <1>2, <1>3 DEF PS!Fails, PgRetry

\* What an actor does that ends or restarts the call keeps the data.
LEMMA PgFailsData ==
  ASSUME End \in Nat, PgInv, NEW a \in PS!Actors, NEW r \in BOOLEAN, PS!Fails(a, r),
         UNCHANGED <<config, params, progress, emitted, done, saved>>,
         a = "stream" => PgStage # "idle" /\ rows' \in Seq(Nat) /\ batch' = <<>>,
         a # "stream" => UNCHANGED <<rows, batch>>
  PROVE  PgData'
<1>1. call \in [PS!Actors -> PgCall] /\ PgData
  BY DEF PgInv, PgConns
<1>2. /\ \A b \in PS!Actors : b # a => call'[b] = call[b]
      /\ \/ /\ call'[a].stage = "connect" /\ a = "stream"
            /\ progress.seen = 0 /\ progress.cursor = 0 /\ UNCHANGED <<success, left>>
         \/ /\ call'[a].stage = "idle"
            /\ a = "stream" => success' = "no"
            /\ a # "stream" => UNCHANGED <<success, left>>
  BY <1>1, PgFailsCall
<1>3. CASE a = "stream" /\ PgStage' = "connect" /\ progress.seen = 0 /\ progress.cursor = 0
  <2>1. PgStage' \in PgOpening
    BY <1>3 DEF PgOpening
  <2> QED
    BY <1>1, <1>3, <2>1, PgOpeningData
<1>4. CASE a = "stream" /\ PgStage' = "idle" /\ success' = "no"
  <2>1. progress' \in PgProgress
    BY <1>1 DEF PgData, PgTypes
  <2> QED
    BY <1>1, <1>4, <2>1, PgStoppedData
<1>5. CASE a # "stream"
  <2>1. PgStage' = PgStage /\ UNCHANGED <<success, left>>
    BY <1>2, <1>5 DEF PgStage, PS!Actors
  <2> QED
    BY <1>1, <1>5, <2>1, PgSameData
<1> QED
  BY <1>2, <1>3, <1>4, <1>5 DEF PgStage

LEMMA PgFailsConns ==
  ASSUME PgConns, NEW a \in PS!Actors, NEW r \in BOOLEAN, PS!Fails(a, r),
         conns' \subseteq PgConn, IsFiniteSet(conns'),
         \/ PgIds' = PgIds \ {call[a].conn} /\ leaked' = leaked
         \/ PgIds' = PgIds /\ leaked' = leaked \cup {call[a].conn} /\ call[a].conn # 0
         \/ PgIds' = PgIds /\ leaked' = leaked /\ call[a].conn = 0
  PROVE  PgConns'
<1>1. /\ call' \in [PS!Actors -> PgCall] /\ call'[a].conn = 0
      /\ \A b \in PS!Actors : b # a => call'[b] = call[b]
      /\ call'[a].stage \in {"idle", "connect"}
  BY PgFailsCall DEF PgConns
<1>2. call'["health"].stage \in {"idle", "connect", "inspect"} /\ ~PgUsing(a)'
  BY <1>1 DEF PgConns, PS!Actors, PgUsing
<1> QED
  BY <1>1, <1>2, PgDropConn

\* An actor goes to another stage, with its connection as it is.
LEMMA PgGotoConns ==
  ASSUME PgConns, NEW s \in PgStages, PS!Goto("stream", s),
         s \notin {"idle", "connect"}, PgStage \notin {"idle", "connect"},
         UNCHANGED <<conns, leaked>>
  PROVE  PgConns' /\ PgStage' = s
<1>1. call' = [call EXCEPT !["stream"].stage = s] /\ "stream" \in PS!Actors
  BY DEF PS!Goto, PS!Actors
<1>2. call \in [PS!Actors -> PgCall]
  BY DEF PgConns
<1>3. /\ call' \in [PS!Actors -> PgCall]
      /\ call'["stream"].stage = s /\ call'["stream"].conn = call["stream"].conn
      /\ \A b \in PS!Actors : b # "stream" => call'[b] = call[b]
  BY <1>1, <1>2, PgStageAt
<1>4. \A a \in PS!Actors : call'[a].conn = call[a].conn /\ (PgUsing(a)' <=> PgUsing(a))
  BY <1>3 DEF PgUsing, PgStage, PS!Actors
<1>5. call'["health"].stage \in {"idle", "connect", "inspect"} /\ PgIds' = PgIds
  BY <1>3 DEF PgConns, PS!Actors, PgIds
<1>6. conns' \subseteq PgConn /\ IsFiniteSet(conns')
  BY DEF PgConns
<1> QED
  BY <1>3, <1>4, <1>5, <1>6, PgSameConns DEF PgStage

\* The stream ends and closes its connection.
LEMMA PgCloseConns ==
  ASSUME PgConns, NEW a \in PS!Actors, PS!Close(a), call' = [call EXCEPT ![a] = PS!Idle],
         leaked' = leaked
  PROVE  PgConns' /\ call'[a].stage = "idle" /\ \A b \in PS!Actors : b # a => call'[b] = call[b]
<1>2. call \in [PS!Actors -> PgCall]
  BY DEF PgConns
<1>3. /\ call' \in [PS!Actors -> PgCall] /\ call'[a] = PS!Idle
      /\ \A b \in PS!Actors : b # a => call'[b] = call[b]
  BY <1>2, PgCallAt, PgIdleFacts
<1>4. call'[a].conn = 0 /\ call'[a].stage = "idle" /\ ~PgUsing(a)'
  BY <1>3, PgIdleFacts DEF PgUsing
<1>5. call'["health"].stage \in {"idle", "connect", "inspect"}
  BY <1>3, <1>4 DEF PgConns, PS!Actors
<1>6. /\ conns' \subseteq PgConn /\ IsFiniteSet(conns')
      /\ PgIds' = PgIds \ {call[a].conn}
  BY PgCloseIds
<1> QED
  BY <1>3, <1>4, <1>5, <1>6, PgDropConn

LEMMA PgInitInv == ASSUME End \in Nat, PS!Init PROVE PgInv
<1>1. /\ call = [a \in PS!Actors |-> PS!Idle] /\ conns = {} /\ leaked = {}
  BY DEF PS!Init
<1>2. call \in [PS!Actors -> PgCall] /\ \A a \in PS!Actors : call[a] = PS!Idle
  BY <1>1, PgIdleFacts
<1>3. /\ call["stream"].conn = 0 /\ call["health"].conn = 0 /\ call["health"].stage = "idle"
      /\ \A a \in PS!Actors : call[a].conn = 0 /\ ~PgUsing(a)
  BY <1>2, PgIdleFacts DEF PS!Actors, PgUsing
<1>4. PgIds = {} /\ IsFiniteSet(conns)
  BY <1>1, FS_EmptySet DEF PgIds
<1>5. PgConns
  BY <1>1, <1>2, <1>3, <1>4 DEF PgConns
<1> QED
  BY <1>5, PgInitData DEF PgInv

LEMMA PgCrashInv == ASSUME End \in Nat, PgInv, PS!Crash PROVE PgInv'
<1>1. /\ call' = [a \in PS!Actors |-> PS!Idle] /\ conns' = {} /\ leaked' = {}
  BY DEF PS!Crash
<1>2. call' \in [PS!Actors -> PgCall] /\ \A a \in PS!Actors : call'[a] = PS!Idle
  BY <1>1, PgIdleFacts
<1>3. /\ call'["stream"].conn = 0 /\ call'["health"].conn = 0 /\ call'["health"].stage = "idle"
      /\ \A a \in PS!Actors : call'[a].conn = 0 /\ ~PgUsing(a)'
      /\ PgStage' = "idle"
  BY <1>2, PgIdleFacts DEF PS!Actors, PgUsing, PgStage
<1>4. PgIds' = {} /\ IsFiniteSet(conns')
  BY <1>1, FS_EmptySet DEF PgIds
<1>5. PgConns'
  BY <1>1, <1>2, <1>3, <1>4 DEF PgConns
<1> QED
  BY <1>3, <1>5, PgCrashData DEF PgInv

LEMMA PgResumeInv == ASSUME End \in Nat, PgInv, PS!PrepareResume PROVE PgInv'
<1>1. UNCHANGED <<call, conns, leaked>>
  BY DEF PS!PrepareResume
<1>2. PgConns'
  BY <1>1 DEF PgInv, PgConns, PgIds, PgUsing
<1> QED
  BY <1>2, PgResumeData DEF PgInv

\* A call begins.
LEMMA PgBeginConns ==
  ASSUME PgConns, NEW a \in PS!Actors, call[a].stage = "idle",
         call' = [call EXCEPT ![a] = [PS!Idle EXCEPT !.stage = "connect"]], UNCHANGED <<conns, leaked>>
  PROVE  PgConns' /\ call'[a].stage = "connect" /\ \A b \in PS!Actors : b # a => call'[b] = call[b]
<1>1. /\ call' \in [PS!Actors -> PgCall] /\ call'[a] = [PS!Idle EXCEPT !.stage = "connect"]
      /\ \A b \in PS!Actors : b # a => call'[b] = call[b]
  BY PgCallAt, PgConnectFacts DEF PgConns
<1>2. call'[a].conn = 0 /\ call'[a].stage = "connect" /\ ~PgUsing(a)' /\ call[a].conn = 0
  BY <1>1, PgConnectFacts DEF PgUsing, PgConns
<1>3. call'["health"].stage \in {"idle", "connect", "inspect"} /\ PgIds' = PgIds
  BY <1>1, <1>2 DEF PgConns, PS!Actors, PgIds
<1>4. conns' \subseteq PgConn /\ IsFiniteSet(conns')
  BY DEF PgConns
<1> QED
  BY <1>1, <1>2, <1>3, <1>4, PgDropConn

LEMMA PgStartInv == ASSUME End \in Nat, PgInv, PS!Start PROVE PgInv'
<1>1. /\ call' = [call EXCEPT !["stream"] = [PS!Idle EXCEPT !.stage = "connect"]]
      /\ UNCHANGED <<conns, leaked>> /\ call["stream"].stage = "idle" /\ "stream" \in PS!Actors
  BY DEF PS!Start, PS!Streaming, PS!Actors
<1>2. PgConns' /\ call'["stream"].stage = "connect"
  BY <1>1, PgBeginConns DEF PgInv
<1> QED
  BY <1>2, PgStartData DEF PgInv, PgStage

LEMMA PgHealthInv == ASSUME End \in Nat, PgInv, PS!HealthCheck PROVE PgInv'
<1>1. /\ call' = [call EXCEPT !["health"] = [PS!Idle EXCEPT !.stage = "connect"]]
      /\ UNCHANGED <<conns, leaked>> /\ call["health"].stage = "idle" /\ "health" \in PS!Actors
      /\ UNCHANGED <<config, params, rows, batch, progress, success, left, emitted, done, saved>>
  BY DEF PS!HealthCheck, PS!Actors
<1>2. PgConns' /\ \A b \in PS!Actors : b # "health" => call'[b] = call[b]
  BY <1>1, PgBeginConns DEF PgInv
<1>3. PgStage' = PgStage
  BY <1>2 DEF PgStage, PS!Actors
<1> QED
  BY <1>1, <1>2, <1>3, PgSameData DEF PgInv

LEMMA PgHandleInv ==
  ASSUME End \in Nat, PgInv, NEW save \in BOOLEAN, PS!Handle(save) PROVE PgInv'
<1>1. PS!Goto("stream", "emit") /\ PgStage = "yielded" /\ UNCHANGED <<conns, leaked>>
      /\ "emit" \in PgStages
  BY DEF PS!Handle, PgStage, PgStages
<1>2. PgConns' /\ PgStage' = "emit"
  BY <1>1, PgGotoConns DEF PgInv
<1> QED
  BY <1>2, PgHandleData DEF PgInv

LEMMA PgExecuteInv == ASSUME End \in Nat, PgInv, PS!Execute PROVE PgInv'
<1>1. PS!Goto("stream", "fetch") /\ PgStage = "execute" /\ UNCHANGED <<conns, leaked>>
      /\ "fetch" \in PgStages
  BY DEF PS!Execute, PgStage, PgStages
<1>2. PgConns' /\ PgStage' = "fetch"
  BY <1>1, PgGotoConns DEF PgInv
<1> QED
  BY <1>2, PgExecuteData DEF PgInv

LEMMA PgLeaveInv == ASSUME End \in Nat, PgInv, PS!Leave PROVE PgInv'
<1>1. /\ call' = [call EXCEPT !["stream"] = PS!Idle] /\ PS!Close("stream") /\ "stream" \in PS!Actors
      /\ rows' = <<>> /\ batch' = <<>> /\ left' = TRUE
      /\ UNCHANGED <<config, leaked, params, progress, emitted, done, saved>>
  BY DEF PS!Leave, PS!Close, PS!Actors
<1>2. PgConns' /\ PgStage' = "idle"
  BY <1>1, PgCloseConns DEF PgInv, PgStage
<1>3. progress' \in PgProgress /\ rows' \in Seq(Nat)
  BY <1>1 DEF PgInv, PgData, PgTypes
<1>4. PgData'
  BY <1>1, <1>2, <1>3, PgStoppedData DEF PgInv
<1> QED
  BY <1>2, <1>4 DEF PgInv

PgNow(c, role, stale) == [c EXCEPT !.role = role, !.stale = stale]

LEMMA PgNowFacts ==
  ASSUME NEW c \in PgConn, NEW role \in {"primary", "standby"}, NEW stale \in BOOLEAN
  PROVE  PgNow(c, role, stale) \in PgConn /\ PgNow(c, role, stale).id = c.id
  BY DEF PgConn, PgNow

LEMMA PgServerInv == ASSUME End \in Nat, PgInv, PS!ServerChanges PROVE PgInv'
<1>1. UNCHANGED <<config, call, leaked, params, rows, batch, progress, success, left, emitted,
                  done, saved>>
  BY DEF PS!ServerChanges
<1>2. PICK c \in conns, role \in {"primary", "standby"}, stale \in BOOLEAN :
         conns' = (conns \ {c}) \cup {PgNow(c, role, stale)}
  BY Zenon DEF PS!ServerChanges, PgNow
<1> DEFINE d == PgNow(c, role, stale)
<1>3. c \in PgConn /\ IsFiniteSet(conns)
      /\ conns \subseteq PgConn /\ PgConns /\ PgData
  BY DEF PgInv, PgConns
<1>4. d \in PgConn /\ d.id = c.id
  BY <1>3, PgNowFacts
<1>5. conns' = (conns \ {c}) \cup {d}
  BY <1>2
<1> HIDE DEF d
<1>6. conns' \subseteq PgConn /\ PgIds' = PgIds
  BY <1>3, <1>4, <1>5 DEF PgIds
<1>7. IsFiniteSet(conns \ {c})
  <2>1. conns \ {c} \in SUBSET conns
    OBVIOUS
  <2> QED
    BY <1>3, <2>1, FS_Subset
<1>8. IsFiniteSet(conns')
  BY <1>5, <1>7, FS_AddElement
<1>9. /\ call' \in [PS!Actors -> PgCall] /\ call'["health"].stage \in {"idle", "connect", "inspect"}
      /\ \A a \in PS!Actors : call'[a].conn = call[a].conn /\ (PgUsing(a)' <=> PgUsing(a))
  BY <1>1, <1>3 DEF PgConns, PgUsing
<1>10. PgConns'
  BY <1>1, <1>3, <1>6, <1>8, <1>9, PgSameConns
<1>11. PgData'
  BY <1>1, <1>3, PgSameData DEF PgStage
<1> QED
  BY <1>10, <1>11 DEF PgInv

LEMMA PgConnectedInv ==
  ASSUME End \in Nat, PgInv, NEW a \in PS!Actors, PS!Connected(a) PROVE PgInv'
<1>1. /\ call[a].stage = "connect" /\ leaked' = leaked
      /\ call' = [call EXCEPT ![a].conn = PS!NewId, ![a].stage = "inspect"]
      /\ UNCHANGED <<config, params, rows, batch, progress, success, left, emitted, done, saved>>
  BY DEF PS!Connected
<1>2. PICK role \in {"primary", "standby"}, stale \in BOOLEAN :
         conns' = conns \cup {[id |-> PS!NewId, role |-> role, stale |-> stale]}
  BY DEF PS!Connected, PS!Roles
<1>3. PgConns /\ PgData /\ call \in [PS!Actors -> PgCall] /\ conns \subseteq PgConn /\ IsFiniteSet(conns)
  BY DEF PgInv, PgConns
<1>4. PS!NewId \in Nat
  BY <1>3, PgNewId
<1> HIDE DEF PS!NewId
<1> DEFINE n == PS!NewId
           d == [id |-> n, role |-> role, stale |-> stale]
<1>5. d \in PgConn /\ d.id = n
  BY <1>4 DEF PgConn
<1>6. conns' = conns \cup {d}
  BY <1>2
<1>7. call' = [call EXCEPT ![a] = [call[a] EXCEPT !.conn = n, !.stage = "inspect"]]
  BY <1>1
<1> DEFINE r == [call[a] EXCEPT !.conn = n, !.stage = "inspect"]
<1>8. call[a] \in PgCall
  BY <1>3
<1>9. r \in PgCall /\ r.conn = n /\ r.stage = "inspect"
  BY <1>4, <1>8 DEF PgCall, PgStages
<1> HIDE DEF d, r
<1>10. /\ conns' \subseteq PgConn /\ IsFiniteSet(conns') /\ PgIds' = PgIds \cup {n}
  <2>1. IsFiniteSet(conns')
    BY <1>3, <1>6, FS_AddElement
  <2> QED
    BY <1>3, <1>5, <1>6, <2>1 DEF PgIds
<1>11. /\ call' \in [PS!Actors -> PgCall] /\ call'[a] = r
       /\ \A b \in PS!Actors : b # a => call'[b] = call[b]
  BY <1>3, <1>7, <1>9, PgCallAt DEF r
<1>12. call'["health"].stage \in {"idle", "connect", "inspect"} /\ PgUsing(a)' /\ call'[a].conn = n
  BY <1>3, <1>9, <1>11 DEF PgConns, PS!Actors, PgUsing
<1>13. PgConns'
  BY <1>1, <1>3, <1>10, <1>11, <1>12, PgOpenConn
<1>14. PgData'
  <2>1. CASE a = "stream"
    <3>1. PgStage = "connect" /\ PgStage' = "inspect"
      BY <1>1, <1>9, <1>11, <2>1 DEF PgStage
    <3>2. PgStage # "idle" /\ PgStage' \in PgOpening /\ PgStage \in PgOpening
      BY <3>1 DEF PgOpening
    <3>3. progress.seen = 0 /\ progress.cursor = 0 /\ rows \in Seq(Nat) /\ batch = <<>>
      BY <1>3, <3>1, <3>2 DEF PgData, PgPlace, PgTypes
    <3> QED
      BY <1>1, <1>3, <3>2, <3>3, PgOpeningData
  <2>2. CASE a # "stream"
    <3>1. PgStage' = PgStage
      BY <1>11, <2>2 DEF PgStage, PS!Actors
    <3> QED
      BY <1>1, <1>3, <3>1, PgSameData
  <2> QED
    BY <2>1, <2>2
<1> QED
  BY <1>13, <1>14 DEF PgInv

\* A connection that was inspected is used, given up for the primary, or ends the call.
LEMMA PgInspectedInv ==
  ASSUME End \in Nat, PgInv, NEW a \in PS!Actors, PS!Inspected(a) PROVE PgInv'
<1>1. /\ call[a].stage = "inspect"
      /\ UNCHANGED <<config, leaked, params, rows, batch, progress, emitted, done, saved>>
  BY DEF PS!Inspected
<1>2. PgConns /\ PgData /\ call \in [PS!Actors -> PgCall] /\ conns \subseteq PgConn /\ IsFiniteSet(conns)
  BY DEF PgInv, PgConns
<1>3. ASSUME a = "stream"
      PROVE  /\ PgStage = "inspect" /\ PgStage # "idle" /\ PgStage \notin {"idle", "connect"}
             /\ progress.seen = 0 /\ progress.cursor = 0 /\ rows \in Seq(Nat) /\ batch = <<>>
  <2>1. PgStage = "inspect" /\ PgStage \in PgOpening /\ PgStage \notin {"emit", "yielded"}
    BY <1>1, <1>3 DEF PgStage, PgOpening
  <2> QED
    BY <1>2, <2>1 DEF PgData, PgPlace, PgTypes
<1>4. CASE UNCHANGED <<success, left>> /\ a = "health" /\ PS!Close(a) /\ call' = [call EXCEPT ![a] = PS!Idle]
  <2>1. PgConns' /\ \A b \in PS!Actors : b # a => call'[b] = call[b]
    BY <1>1, <1>2, <1>4, PgCloseConns
  <2>2. PgStage' = PgStage
    BY <1>4, <2>1 DEF PgStage, PS!Actors
  <2>3. PgData'
    BY <1>1, <1>2, <1>4, <2>2, PgSameData
  <2> QED
    BY <2>1, <2>3 DEF PgInv
<1>5. CASE UNCHANGED <<success, left, conns>> /\ a = "stream" /\ PS!Goto(a, "execute")
  <2>1. "execute" \in PgStages /\ "execute" \in PgOpening
    BY DEF PgStages, PgOpening
  <2>2. PgConns' /\ PgStage' = "execute"
    BY <1>1, <1>2, <1>3, <1>5, <2>1, PgGotoConns
  <2>3. PgData'
    BY <1>1, <1>2, <1>3, <1>5, <2>1, <2>2, PgOpeningData
  <2> QED
    BY <2>2, <2>3 DEF PgInv
<1>6. CASE /\ PS!Close(a) /\ UNCHANGED <<success, left>>
           /\ call' = [call EXCEPT ![a].fallback = TRUE, ![a].stage = "connect", ![a].conn = 0]
  <2> DEFINE r == [call[a] EXCEPT !.fallback = TRUE, !.stage = "connect", !.conn = 0]
  <2>1. call[a] \in PgCall /\ call' = [call EXCEPT ![a] = r]
    BY <1>2, <1>6
  <2>2. r \in PgCall /\ r.conn = 0 /\ r.stage = "connect"
    BY <2>1 DEF PgCall, PgStages
  <2> HIDE DEF r
  <2>3. /\ call' \in [PS!Actors -> PgCall] /\ call'[a] = r
        /\ \A b \in PS!Actors : b # a => call'[b] = call[b]
    BY <1>2, <2>1, <2>2, PgCallAt
  <2>4. /\ call'["health"].stage \in {"idle", "connect", "inspect"} /\ ~PgUsing(a)' /\ call'[a].conn = 0
        /\ call'[a].stage = "connect"
    BY <1>2, <2>2, <2>3 DEF PgConns, PS!Actors, PgUsing
  <2>5. conns' \subseteq PgConn /\ IsFiniteSet(conns') /\ PgIds' = PgIds \ {call[a].conn}
    BY <1>2, <1>6, PgCloseIds
  <2>6. PgConns'
    BY <1>1, <1>2, <2>3, <2>4, <2>5, PgDropConn
  <2>7. PgData'
    <3>1. CASE a = "stream"
      <4>1. PgStage' \in PgOpening
        BY <2>4, <3>1 DEF PgStage, PgOpening
      <4> QED
        BY <1>1, <1>2, <1>3, <3>1, <4>1, PgOpeningData
    <3>2. CASE a # "stream"
      <4>1. PgStage' = PgStage
        BY <2>3, <3>2 DEF PgStage, PS!Actors
      <4> QED
        BY <1>1, <1>2, <1>6, <4>1, PgSameData
    <3> QED
      BY <3>1, <3>2
  <2> QED
    BY <2>6, <2>7 DEF PgInv
<1>7. CASE PS!Close(a) /\ PS!Fails(a, FALSE)
  <2>1. conns' \subseteq PgConn /\ IsFiniteSet(conns') /\ PgIds' = PgIds \ {call[a].conn}
    BY <1>2, <1>7, PgCloseIds
  <2>2. PgConns'
    BY <1>1, <1>2, <1>7, <2>1, PgFailsConns
  <2>3. /\ a = "stream" => PgStage # "idle" /\ rows' \in Seq(Nat) /\ batch' = <<>>
        /\ a # "stream" => UNCHANGED <<rows, batch>>
    BY <1>1, <1>3
  <2>4. PgData'
    BY <1>1, <1>7, <2>3, PgFailsData
  <2> QED
    BY <2>2, <2>4 DEF PgInv
<1>8. a = "health" \/ a = "stream"
  BY DEF PS!Actors
<1> QED
  BY <1>4, <1>5, <1>6, <1>7, <1>8 DEF PS!Inspected

LEMMA PgConnectFailsInv ==
  ASSUME End \in Nat, PgInv, NEW a \in PS!Actors, PS!ConnectFails(a) PROVE PgInv'
<1>1. /\ call[a].stage \in {"connect", "inspect"}
      /\ leaked' = (IF call[a].stage = "inspect" THEN leaked \cup {call[a].conn} ELSE leaked)
      /\ UNCHANGED <<config, conns, params, rows, batch, progress, emitted, done, saved>>
  BY DEF PS!ConnectFails
<1>2. PICK r \in BOOLEAN : PS!Fails(a, r)
  BY DEF PS!ConnectFails
<1>3. PgConns /\ PgData /\ conns \subseteq PgConn /\ IsFiniteSet(conns) /\ PgIds' = PgIds
  BY <1>1 DEF PgInv, PgConns, PgIds
<1>4. call[a].conn # 0 <=> call[a].stage \notin {"idle", "connect"}
  BY <1>3 DEF PgConns, PgUsing
<1>5. \/ PgIds' = PgIds /\ leaked' = leaked \cup {call[a].conn} /\ call[a].conn # 0
      \/ PgIds' = PgIds /\ leaked' = leaked /\ call[a].conn = 0
  BY <1>1, <1>3, <1>4
<1>6. PgConns'
  BY <1>1, <1>2, <1>3, <1>5, PgFailsConns
<1>7. ASSUME a = "stream" PROVE PgStage # "idle" /\ rows' \in Seq(Nat) /\ batch' = <<>>
  <2>1. PgStage # "idle" /\ PgStage \notin {"emit", "yielded"}
    BY <1>1, <1>7 DEF PgStage
  <2> QED
    BY <1>1, <1>3, <2>1 DEF PgData, PgPlace, PgTypes
<1>8. PgData'
  BY <1>1, <1>2, <1>7, PgFailsData
<1> QED
  BY <1>6, <1>8 DEF PgInv

LEMMA PgAbortInv ==
  ASSUME End \in Nat, PgInv, NEW r \in BOOLEAN, PS!Abort(r), PgStage # "idle",
         UNCHANGED <<config, leaked, params, progress, emitted, done, saved>>
  PROVE  PgInv'
<1>1. PS!Close("stream") /\ PS!Fails("stream", r) /\ rows' = <<>> /\ batch' = <<>>
      /\ "stream" \in PS!Actors
  BY DEF PS!Abort, PS!Actors
<1>2. PgConns
  BY DEF PgInv
<1>3. conns' \subseteq PgConn /\ IsFiniteSet(conns') /\ PgIds' = PgIds \ {call["stream"].conn}
  BY <1>1, <1>2, PgCloseIds
<1>4. PgConns'
  BY <1>1, <1>2, <1>3, PgFailsConns
<1>5. rows' \in Seq(Nat)
  BY <1>1
<1>6. PgData'
  BY <1>1, <1>5, PgFailsData
<1> QED
  BY <1>4, <1>6 DEF PgInv

LEMMA PgReadFailsInv == ASSUME End \in Nat, PgInv, PS!ReadFails PROVE PgInv'
<1>1. PgStage # "idle" /\ UNCHANGED <<config, leaked, params, progress, emitted, done, saved>>
  BY DEF PS!ReadFails, PgStage
<1>2. PICK r \in BOOLEAN : PS!Abort(r)
  BY DEF PS!ReadFails
<1> QED
  BY <1>1, <1>2, PgAbortInv

LEMMA PgFetchInv ==
  ASSUME End \in Nat, \A c \in Configs : c.batch_size \in Nat, PgInv, PS!Fetch PROVE PgInv'
<1> DEFINE n == IF Len(rows) < config.batch_size THEN Len(rows) ELSE config.batch_size
<1>1. /\ PgStage = "fetch" /\ PgStage # "idle" /\ PgStage \notin {"idle", "connect"}
      /\ UNCHANGED <<config, leaked, params, progress, emitted, done, saved>>
  BY DEF PS!Fetch, PgStage
<1>2. PgConns /\ PgData /\ rows \in Seq(Nat) /\ config.batch_size \in Nat /\ Len(rows) \in Nat
  BY DEF PgInv, PgData, PgTypes
<1>3. n \in Nat /\ n <= Len(rows)
  BY <1>2
<1>4. CASE PS!Abort(FALSE)
  BY <1>1, <1>4, PgAbortInv
<1>5. CASE /\ batch' = SubSeq(rows, 1, n) /\ rows' = SubSeq(rows, n + 1, Len(rows))
           /\ PS!Goto("stream", "emit") /\ UNCHANGED <<conns, success, left>>
  <2>1. "emit" \in PgStages
    BY DEF PgStages
  <2>2. PgConns' /\ PgStage' = "emit"
    BY <1>1, <1>2, <1>5, <2>1, PgGotoConns
  <2> HIDE DEF n
  <2>3. PgData'
    BY <1>1, <1>2, <1>3, <1>5, <2>2, PgFetchData
  <2> QED
    BY <2>2, <2>3 DEF PgInv
<1>6. CASE /\ rows = <<>> /\ PS!Close("stream") /\ call' = [call EXCEPT !["stream"] = PS!Idle]
           /\ UNCHANGED <<rows, batch>>
  <2>1. "stream" \in PS!Actors
    BY DEF PS!Actors
  <2>2. PgConns' /\ PgStage' = "idle"
    BY <1>1, <1>2, <1>6, <2>1, PgCloseConns DEF PgStage
  <2>3. PgData'
    BY <1>1, <1>2, <1>6, <2>2, PgEndData
  <2> QED
    BY <2>2, <2>3 DEF PgInv
<1> QED
  BY <1>4, <1>5, <1>6 DEF PS!Fetch

\* The progress after a row: it counts as seen, and as the cursor or as dropped.
PgSeen(p) == [p EXCEPT !.seen = p.seen + 1]
PgGiven(p, r, d) == [p EXCEPT !.cursor = r, !.dropped = p.dropped \/ d]
PgFailed(p) == [p EXCEPT !.dropped = TRUE]

LEMMA PgSeenFacts ==
  ASSUME NEW p \in PgProgress, NEW r \in Nat, NEW d \in BOOLEAN
  PROVE  /\ PgGiven(PgSeen(p), r, d) \in PgProgress /\ PgFailed(PgSeen(p)) \in PgProgress
         /\ PgGiven(PgSeen(p), r, d).seen = p.seen + 1
         /\ PgGiven(PgSeen(p), r, d).cursor = r
         /\ PgGiven(PgSeen(p), r, d).dropped = (p.dropped \/ d)
         /\ PgFailed(PgSeen(p)).seen = p.seen + 1
         /\ PgFailed(PgSeen(p)).cursor = p.cursor
         /\ PgFailed(PgSeen(p)).dropped = TRUE
<1>1. /\ PgSeen(p) \in PgProgress /\ PgSeen(p).seen = p.seen + 1 /\ PgSeen(p).cursor = p.cursor
      /\ PgSeen(p).dropped = p.dropped
  BY DEF PgSeen, PgProgress
<1> DEFINE q == PgSeen(p)
<1> HIDE DEF q
<1>2. q \in PgProgress
  BY <1>1 DEF q
<1>3. /\ PgGiven(q, r, d) \in PgProgress /\ PgGiven(q, r, d).seen = q.seen
      /\ PgGiven(q, r, d).cursor = r /\ PgFailed(q) \in PgProgress /\ PgFailed(q).seen = q.seen
      /\ PgFailed(q).cursor = q.cursor /\ PgFailed(q).dropped = TRUE
  BY <1>2 DEF PgProgress, PgGiven, PgFailed
<1>4. PgGiven(q, r, d).dropped = (q.dropped \/ d)
  BY <1>2 DEF PgProgress, PgGiven
<1>5. q.seen = p.seen + 1 /\ q.cursor = p.cursor /\ q.dropped = p.dropped
  BY <1>1 DEF q
<1>6. PgGiven(q, r, d).dropped = (p.dropped \/ d)
  BY <1>4, <1>5, Zenon
<1>7. /\ PgGiven(q, r, d).seen = p.seen + 1 /\ PgFailed(q).seen = p.seen + 1
      /\ PgFailed(q).cursor = p.cursor
  BY <1>3, <1>5
<1> QED
  BY <1>3, <1>6, <1>7, Zenon DEF q

LEMMA PgKeptFacts ==
  ASSUME NEW p \in PgProgress, NEW r \in Nat
  PROVE  /\ PgGiven(PgSeen(p), r, FALSE) \in PgProgress
         /\ PgGiven(PgSeen(p), r, FALSE).seen = p.seen + 1
         /\ PgGiven(PgSeen(p), r, FALSE).cursor = r
         /\ PgGiven(PgSeen(p), r, FALSE).dropped = p.dropped
<1>1. /\ PgSeen(p) \in PgProgress /\ PgSeen(p).seen = p.seen + 1 /\ PgSeen(p).cursor = p.cursor
      /\ PgSeen(p).dropped = p.dropped
  BY DEF PgSeen, PgProgress
<1> DEFINE q == PgSeen(p)
<1> HIDE DEF q
<1>2. q \in PgProgress
  BY <1>1 DEF q
<1>3. /\ PgGiven(q, r, FALSE) \in PgProgress /\ PgGiven(q, r, FALSE).seen = q.seen
      /\ PgGiven(q, r, FALSE).cursor = r /\ PgGiven(q, r, FALSE).dropped = q.dropped
  BY <1>2 DEF PgProgress, PgGiven
<1>4. q.seen = p.seen + 1 /\ q.cursor = p.cursor /\ q.dropped = p.dropped
  BY <1>1 DEF q
<1> QED
  BY <1>3, <1>4 DEF q

LEMMA PgEmitInv == ASSUME End \in Nat, PgInv, PS!EmitRow PROVE PgInv'
<1> DEFINE r == Head(batch)
<1>1. /\ PgStage = "emit" /\ PgStage # "idle" /\ PgStage \notin {"idle", "connect"}
      /\ UNCHANGED <<config, leaked, params, saved>>
      /\ "fetch" \in PgStages /\ "yielded" \in PgStages /\ "stream" \in PS!Actors
  BY DEF PS!EmitRow, PgStage, PgStages, PS!Actors
<1>2. PgConns /\ PgData /\ progress \in PgProgress /\ batch \in Seq(Nat)
  BY DEF PgInv, PgData, PgTypes
<1>3. batch # <<>> => r \in Nat
  BY <1>2, PgTailFacts
<1> HIDE DEF r
<1>10. ASSUME UNCHANGED <<call, conns>> PROVE PgConns' /\ PgStage' = PgStage
  BY <1>1, <1>2, <1>10 DEF PgConns, PgIds, PgUsing, PgStage
<1>4. CASE /\ batch = <<>> /\ PS!Goto("stream", "fetch")
           /\ UNCHANGED <<conns, rows, batch, progress, success, left, emitted, done>>
  <2>1. PgConns' /\ PgStage' = "fetch"
    BY <1>1, <1>2, <1>4, PgGotoConns
  <2>2. PgData'
    BY <1>1, <1>2, <1>4, <2>1, PgEmptyData
  <2> QED
    BY <2>1, <2>2 DEF PgInv
<1>5. CASE /\ batch # <<>> /\ r \in config.unmapped
           /\ progress' = PgGiven(PgSeen(progress), r, r \in config.unmapped)
           /\ batch' = Tail(batch) /\ done' = done \cup {r}
           /\ UNCHANGED <<call, emitted, conns, rows, success, left>>
  <2>1. PgConns' /\ PgStage' = PgStage
    BY <1>5, <1>10
  <2> DEFINE d == r \in config.unmapped
  <2>2. d \in BOOLEAN /\ d
    BY <1>5
  <2> HIDE DEF d
  <2>3. progress' \in PgProgress /\ progress'.seen = progress.seen + 1 /\ progress'.cursor = r
        /\ progress'.dropped = (progress.dropped \/ d)
    BY <1>2, <1>3, <1>5, <2>2, PgSeenFacts DEF d
  <2>4. progress'.dropped /\ progress'.cursor \in {progress.cursor, r}
    BY <2>2, <2>3
  <2>5. PgData'
    BY <1>1, <1>2, <1>5, <2>1, <2>3, <2>4, PgDroppedData DEF r
  <2> QED
    BY <2>1, <2>5 DEF PgInv
<1>6. CASE /\ batch # <<>> /\ r \notin config.unmapped
           /\ progress' = PgGiven(PgSeen(progress), r, r \in config.unmapped)
           /\ batch' = Tail(batch) /\ emitted' = Append(emitted, r)
           /\ PS!Goto("stream", "yielded")
           /\ UNCHANGED <<conns, rows, success, left, done>>
  <2>1. PgConns' /\ PgStage' = "yielded"
    BY <1>1, <1>2, <1>6, PgGotoConns
  <2>2. progress' = PgGiven(PgSeen(progress), r, FALSE)
    <3>1. (r \in config.unmapped) = FALSE
      BY <1>6
    <3> QED
      BY <1>6, <3>1, Zenon
  <2>3. /\ progress' \in PgProgress /\ progress'.seen = progress.seen + 1 /\ progress'.cursor = r
        /\ progress'.dropped = progress.dropped
    <3>1. r \in Nat
      BY <1>3, <1>6
    <3>2. progress \in PgProgress
      BY <1>2
    <3>3. /\ PgGiven(PgSeen(progress), r, FALSE) \in PgProgress
          /\ PgGiven(PgSeen(progress), r, FALSE).seen = progress.seen + 1
          /\ PgGiven(PgSeen(progress), r, FALSE).cursor = r
          /\ PgGiven(PgSeen(progress), r, FALSE).dropped = progress.dropped
      BY <3>1, <3>2, PgKeptFacts
    <3> QED
      BY <2>2, <3>3, Zenon
  <2>5. PgData'
    BY <1>1, <1>2, <1>6, <2>1, <2>3, PgYieldedData DEF r
  <2> QED
    BY <2>1, <2>5 DEF PgInv
<1>7. CASE /\ batch # <<>> /\ progress' = PgFailed(PgSeen(progress))
           /\ batch' = Tail(batch) /\ done' = done \cup {r}
           /\ UNCHANGED <<call, conns, rows, success, left, emitted>>
  <2>1. PgConns' /\ PgStage' = PgStage
    BY <1>7, <1>10
  <2>3. /\ progress' \in PgProgress /\ progress'.seen = progress.seen + 1
        /\ progress'.cursor = progress.cursor /\ progress'.dropped = TRUE
    BY <1>2, <1>3, <1>7, PgSeenFacts
  <2>4. progress'.dropped /\ progress'.cursor \in {progress.cursor, r}
    BY <2>3
  <2>5. PgData'
    BY <1>1, <1>2, <1>7, <2>1, <2>3, <2>4, PgDroppedData DEF r
  <2> QED
    BY <2>1, <2>5 DEF PgInv
<1>8. CASE /\ batch # <<>> /\ progress' = PgFailed(PgSeen(progress))
           /\ PS!Close("stream") /\ call' = [call EXCEPT !["stream"] = PS!Idle]
           /\ rows' = <<>> /\ batch' = <<>> /\ success' = "no"
           /\ UNCHANGED <<emitted, done>>
  <2>1. PgConns' /\ PgStage' = "idle"
    BY <1>1, <1>2, <1>8, PgCloseConns DEF PgStage
  <2>3. progress' \in PgProgress /\ rows' \in Seq(Nat)
    <3>1. PgFailed(PgSeen(progress)) \in PgProgress /\ TRUE \in BOOLEAN
      BY <1>2, <1>3, <1>8, PgSeenFacts
    <3> QED
      BY <1>8, <3>1
  <2>5. PgData'
    BY <1>1, <1>2, <1>8, <2>1, <2>3, PgStoppedData
  <2> QED
    BY <2>1, <2>5 DEF PgInv
<1> QED
  BY <1>4, <1>5, <1>6, <1>7, <1>8 DEF PS!EmitRow, PgSeen, PgGiven, PgFailed, r

LEMMA PgNextInv ==
  ASSUME End \in Nat, \A c \in Configs : c.batch_size \in Nat, PgInv, [PS!Next]_(PS!vars)
  PROVE  PgInv'
<1>1. CASE UNCHANGED PS!vars
  <2>1. PgStage' = PgStage /\ UNCHANGED <<call, conns, leaked>>
        /\ UNCHANGED <<config, params, rows, batch, progress, success, left, emitted, done, saved>>
    BY <1>1 DEF PS!vars, PgStage
  <2>2. PgData'
    BY <2>1, PgSameData DEF PgInv
  <2>3. PgConns'
    BY <2>1 DEF PgInv, PgConns, PgIds, PgUsing
  <2> QED
    BY <2>2, <2>3 DEF PgInv
<1>2. ASSUME NEW save \in BOOLEAN, PS!Handle(save) PROVE PgInv'
  BY <1>2, PgHandleInv
<1>3. ASSUME NEW a \in PS!Actors, PS!Connected(a) \/ PS!Inspected(a) \/ PS!ConnectFails(a) PROVE PgInv'
  BY <1>3, PgConnectedInv, PgInspectedInv, PgConnectFailsInv
<1>4. CASE PS!PrepareResume \/ PS!Start \/ PS!Leave \/ PS!Crash \/ PS!HealthCheck \/ PS!ServerChanges
  BY <1>4, PgResumeInv, PgStartInv, PgLeaveInv, PgCrashInv, PgHealthInv, PgServerInv
<1>5. CASE PS!Execute \/ PS!Fetch \/ PS!ReadFails \/ PS!EmitRow
  BY <1>5, PgExecuteInv, PgFetchInv, PgReadFailsInv, PgEmitInv
<1> QED
  BY <1>1, <1>2, <1>3, <1>4, <1>5 DEF PS!Next

LEMMA PgAlways ==
  ASSUME End \in Nat, \A c \in Configs : c.batch_size \in Nat
  PROVE  PS!Spec => []PgInv
<1>1. PS!Init => PgInv
  BY PgInitInv
<1>2. PgInv /\ [PS!Next]_(PS!vars) => PgInv'
  BY PgNextInv
<1> QED
  BY <1>1, <1>2, PTL DEF PS!Spec

\* A step handles or drops rows and moves the checkpoint only over rows that are done.
LEMMA PgContractStep ==
  ASSUME End \in Nat, PgInv, PgInv', [PS!Next]_(PS!vars)
  PROVE  [Contract!Step]_(Contract!vars)
<1>1. 1..saved' \subseteq done' /\ saved \in Nat /\ saved' \in Nat
  BY DEF PgInv, PgData, PgDone, PgTypes
<1>2. ASSUME NEW save \in BOOLEAN, PS!Handle(save) PROVE saved <= saved' /\ done \subseteq done'
  <2>1. /\ PgStage = "yielded" /\ done' = done \cup {emitted[Len(emitted)]}
        /\ saved' = (IF save /\ config.checkpoint THEN progress.cursor ELSE saved)
    BY <1>2 DEF PS!Handle, PgStage
  <2>2. saved <= PgFrontier /\ progress.cursor = PgFrontier
    BY <2>1 DEF PgInv, PgData, PgPlace, PgDone, PgReading
  <2> QED
    BY <1>1, <2>1, <2>2
<1>3. CASE \E save \in BOOLEAN : PS!Handle(save)
  BY <1>1, <1>2, <1>3 DEF Contract!Step
<1>4. CASE ~(\E save \in BOOLEAN : PS!Handle(save))
  <2>1. saved' = saved /\ done \subseteq done'
    <3>1. CASE UNCHANGED PS!vars
      BY <3>1 DEF PS!vars
    <3>2. CASE PS!PrepareResume \/ PS!Start \/ PS!Leave \/ PS!Crash \/ PS!HealthCheck
      BY <3>2 DEF PS!PrepareResume, PS!Start, PS!Leave, PS!Crash, PS!HealthCheck
    <3>3. CASE PS!ServerChanges
      BY <3>3 DEF PS!ServerChanges
    <3>4. ASSUME NEW a \in PS!Actors, PS!Connected(a) \/ PS!Inspected(a) \/ PS!ConnectFails(a)
          PROVE  saved' = saved /\ done' = done
      BY <3>4 DEF PS!Connected, PS!Inspected, PS!ConnectFails
    <3>5. CASE PS!Execute \/ PS!Fetch \/ PS!ReadFails
      BY <3>5 DEF PS!Execute, PS!Fetch, PS!ReadFails
    <3>6. CASE PS!EmitRow
      BY <3>6 DEF PS!EmitRow
    <3> QED
      BY <1>4, <3>1, <3>2, <3>3, <3>4, <3>5, <3>6 DEF PS!Next
  <2> QED
    BY <1>1, <2>1 DEF Contract!Step
<1> QED
  BY <1>3, <1>4

\* PostgresSource keeps the contract of a resumable source: a checkpoint passes only rows
\* the runner has handled or the source has dropped, and never goes back, through retries,
\* stale standbys, failovers and crashes (PostgresSource.stream, prepare_resume).
THEOREM PostgresResumes ==
  ASSUME End \in Nat, \A c \in Configs : c.batch_size \in Nat
  PROVE  PS!Spec => Contract!Spec
<1>1. PS!Init => Contract!Init
  BY DEF PS!Init, Contract!Init
<1>2. PgInv /\ PgInv' /\ [PS!Next]_(PS!vars) => [Contract!Step]_(Contract!vars)
  BY PgContractStep
<1>3. PS!Spec => []PgInv
  BY PgAlways
<1> QED
  BY <1>1, <1>2, <1>3, PTL DEF PS!Spec, Contract!Spec

\* A stream gives its rows in cursor order, each once and only those after its checkpoint:
\* the retries of stream() never emit a row again.
THEOREM PostgresInOrder ==
  ASSUME End \in Nat, \A c \in Configs : c.batch_size \in Nat
  PROVE  PS!Spec => []PS!EmittedInOrder
<1>1. PgInv => PS!EmittedInOrder
  BY DEF PgInv, PgData, PgOrder
<1> QED
  BY <1>1, PgAlways, PTL

\* A production report that passes after a stream that succeeded is true: every row after
\* the checkpoint was emitted.
THEOREM PostgresReportIsTrue ==
  ASSUME End \in Nat, \A c \in Configs : c.batch_size \in Nat
  PROVE  PS!Spec => []PS!ReportIsTrue
<1>1. PgInv => PS!ReportIsTrue
  BY DEF PgInv, PgData, PgComplete
<1> QED
  BY <1>1, PgAlways, PTL

\* A connection that is open is held by the stream or by a health check, or was lost when
\* its inspection failed (_resolve_read_connection): no other path leaves one open.
THEOREM PostgresConnections ==
  ASSUME End \in Nat, \A c \in Configs : c.batch_size \in Nat
  PROVE  PS!Spec => []PS!ConnectionsAccounted
<1>1. PgInv => PS!ConnectionsAccounted
  <2> SUFFICES ASSUME PgConns PROVE PS!ConnectionsAccounted
    BY DEF PgInv
  <2>1. {call[a].conn : a \in PS!Actors} = {call["stream"].conn, call["health"].conn}
    BY DEF PS!Actors
  <2> QED
    BY <2>1 DEF PgConns, PgIds, PS!ConnectionsAccounted
<1> QED
  BY <1>1, PgAlways, PTL

-----------------------------------------------------------------------------
(* BigQuerySource.                                                              *)

BqItem == [event : {"none", "started", "batch", "completed", "error"}, rows : Seq(Nat)]
BqProgress == [seen : Nat, cursor : Nat, error : BOOLEAN, dropped : BOOLEAN]

\* The rows of the query, those waiting in the queue, and how many the stream has taken
\* and the pump has put.
BqQuery == BS!Query(params)
BqLive == call \in {"get", "emit", "yielded"}
BqQueued == IF queue = <<>> THEN <<>> ELSE queue[1].rows
BqTaken == progress.seen + Len(batch)
BqPut == BqTaken + Len(BqQueued)

BqTypes ==
    /\ config \in Configs
    /\ call \in {"idle", "get", "emit", "yielded", "closing"}
    /\ pump \in {"off", "query", "read", "put", "end"}
    /\ item \in BqItem /\ queue \in Seq(BqItem) /\ Len(queue) <= 1
    /\ params \in 0..End /\ saved \in 0..End
    /\ rows \in Seq(Nat) /\ batch \in Seq(Nat) /\ emitted \in Seq(Nat)
    /\ progress \in BqProgress /\ stop \in BOOLEAN /\ success \in BOOLEAN /\ getter \in BOOLEAN

\* As long as the stream is not told to stop, the pump ends only with a last item in the
\* queue; a thread is left in Queue.get() only while the stream closes.
BqThreads ==
    /\ pump = "off" <=> call = "idle"
    /\ BqLive => ~stop
    /\ call = "closing" => stop
    /\ getter => call = "closing"
    /\ BqLive /\ pump = "end" => queue # <<>> /\ queue[1].event \in {"completed", "error"}

\* The batch, the queue, the item the pump puts and what it has not read are the rows of
\* the query after those seen, in order.
BqPlace == BqLive =>
    /\ BqPut <= Len(BqQuery)
    /\ \A i \in 1..Len(batch) : batch[i] = BqQuery[progress.seen + i]
    /\ \A i \in 1..Len(BqQueued) : BqQueued[i] = BqQuery[BqTaken + i]
    /\ pump = "query" => BqPut = 0
    /\ pump = "read" => /\ BqPut + Len(rows) = Len(BqQuery)
                        /\ \A i \in 1..Len(rows) : rows[i] = BqQuery[BqPut + i]
    /\ pump = "put" /\ item.event # "error" =>
          /\ BqPut + Len(item.rows) + Len(rows) = Len(BqQuery)
          /\ \A i \in 1..Len(item.rows) : item.rows[i] = BqQuery[BqPut + i]
          /\ \A i \in 1..Len(rows) : rows[i] = BqQuery[BqPut + Len(item.rows) + i]
    /\ pump = "put" /\ item.event # "batch" => item.rows = <<>>
    /\ pump = "put" /\ item.event = "completed" => rows = <<>>
    /\ queue # <<>> /\ queue[1].event # "batch" => BqQueued = <<>>
    /\ queue # <<>> /\ queue[1].event = "completed" => BqTaken = Len(BqQuery)
    /\ call = "get" => batch = <<>>
    /\ call = "yielded" =>
          /\ progress.seen > 0 /\ Len(emitted) > 0
          /\ emitted[Len(emitted)] = BqQuery[progress.seen]
          /\ progress.cursor = IF config.checkpoint = "none" THEN 0 ELSE BqQuery[progress.seen]

\* What the stream has seen is done, but for the row the runner holds; the checkpoint is
\* behind every other row.
BqSeen == IF call = "yielded" THEN progress.seen - 1 ELSE progress.seen
BqDone ==
    /\ config.checkpoint = "none" => params = 0 /\ saved = 0
    /\ 1..saved \subseteq done
    /\ BqLive => /\ 1..params \subseteq done
                 /\ \A j \in 1..BqSeen : BqQuery[j] \in done
                 /\ \A j \in (BqSeen + 1)..Len(BqQuery) : saved < BqQuery[j]
    /\ BS!CompletedIsDone

BqOrder ==
    /\ BS!EmittedInOrder
    /\ BqLive => \A i \in DOMAIN emitted : progress.seen > 0 /\ emitted[i] <= BqQuery[progress.seen]

BqComplete ==
    /\ BqLive => ~success
    /\ BqLive /\ ~progress.dropped => /\ ~progress.error /\ Len(emitted) = progress.seen
                                      /\ \A i \in 1..progress.seen : emitted[i] = BqQuery[i]
    /\ success /\ ~progress.dropped => ~progress.error /\ emitted = BqQuery

BqInv == BqTypes /\ BqThreads /\ BqPlace /\ BqDone /\ BqOrder /\ BqComplete

-----------------------------------------------------------------------------
(* The rows of a query.                                                      *)

\* q lists the rows after p in ascending order.
BqSorted(q, p) ==
    /\ q \in Seq(Nat) /\ Len(q) = End - p
    /\ \A i \in 1..Len(q) : q[i] \in (p + 1)..End
    /\ \A i, j \in 1..Len(q) : i < j => q[i] < q[j]
    /\ \A r \in (p + 1)..End : \E i \in 1..Len(q) : q[i] = r

BqConfigs ==
    /\ End \in Nat
    /\ \A c \in Configs : /\ c.checkpoint \in {"none", "unique", "tiebreaker"}
                          /\ c.batch_size \in Nat \ {0}

LEMMA BqSameCardinality == ASSUME NEW S PROVE BS!Cardinality(S) = Cardinality(S)
  BY DEF BS!Cardinality, Cardinality

\* The WHERE clause of a resumed query selects the rows after its cursor: the unique
\* column, or the column and the tiebreaker, tell them apart.
LEMMA BqAfter ==
  ASSUME NEW r \in Nat, NEW p \in Nat, config.checkpoint \in {"none", "unique", "tiebreaker"},
         config.checkpoint = "none" => p = 0, r > 0
  PROVE  BS!After(r, p) <=> r > p
<1>1. CASE p = 0
  BY <1>1 DEF BS!After
<1>2. CASE p # 0 /\ config.checkpoint = "unique"
  BY <1>2 DEF BS!After, BS!Column
<1>3. CASE p # 0 /\ config.checkpoint = "tiebreaker"
  <2>1. BS!Column(r) = (r + 1) \div 2 /\ BS!Column(p) = (p + 1) \div 2
    BY <1>3 DEF BS!Column
  <2>2. (r + 1) \div 2 > (p + 1) \div 2 \/ ((r + 1) \div 2 = (p + 1) \div 2 /\ r > p) <=> r > p
    OBVIOUS
  <2> QED
    BY <1>3, <2>1, <2>2 DEF BS!After, BS!Tiebreaker
<1> QED
  BY <1>1, <1>2, <1>3

LEMMA BqQueryFacts ==
  ASSUME End \in Nat, config.checkpoint \in {"none", "unique", "tiebreaker"},
         params \in 0..End, config.checkpoint = "none" => params = 0
  PROVE  BqSorted(BqQuery, params)
<1> DEFINE S == {r \in 1..End : BS!After(r, params)}
           n == End - params
           Up(s) == \A i, j \in DOMAIN s : i < j => s[i] < s[j]
<1>1. S = (params + 1)..End /\ n \in Nat
  <2>1. \A r \in 1..End : BS!After(r, params) <=> r > params
    BY BqAfter
  <2> QED
    BY <2>1
<1>2. IsFiniteSet(S) /\ Cardinality(S) = n
  <2>1. /\ IsFiniteSet((params + 1)..End)
        /\ Cardinality((params + 1)..End) =
              (IF params + 1 > End THEN 0 ELSE End - (params + 1) + 1)
    BY FS_Interval
  <2>2. (IF params + 1 > End THEN 0 ELSE End - (params + 1) + 1) = n
    OBVIOUS
  <2> QED
    BY <1>1, <2>1, <2>2
<1>3. BqQuery = CHOOSE s \in [1..n -> S] : Up(s)
  BY <1>2, BqSameCardinality DEF BqQuery, BS!Query
<1>4. \E s \in [1..n -> S] : Up(s)
  <2> DEFINE w == [i \in 1..n |-> params + i]
  <2>1. w \in [1..n -> S]
    BY <1>1
  <2>2. Up(w)
    BY <1>1
  <2> QED
    BY <2>1, <2>2
<1> DEFINE q == BqQuery
<1>5. q \in [1..n -> S] /\ Up(q)
  BY <1>3, <1>4
<1> HIDE DEF q
<1>6. /\ q \in Seq(Nat) /\ Len(q) = n /\ \A i \in 1..n : q[i] \in (params + 1)..End
      /\ \A i, j \in 1..n : i < j => q[i] < q[j]
  BY <1>1, <1>5
<1>7. \A r \in S : \E i \in 1..n : q[i] = r
  <2>1. q \in Injection(1..n, S)
    <3>1. \A i, j \in 1..n : q[i] = q[j] => i = j
      <4> SUFFICES ASSUME NEW i \in 1..n, NEW j \in 1..n, q[i] = q[j], i # j PROVE FALSE
        OBVIOUS
      <4>1. q[i] \in Int /\ (i < j \/ j < i)
        BY <1>6
      <4>2. \A x \in Int : ~(x < x)
        OBVIOUS
      <4>3. q[i] < q[j] \/ q[j] < q[i]
        BY <1>6, <4>1
      <4> QED
        BY <4>1, <4>2, <4>3
    <3> QED
      BY <1>5, <3>1 DEF Injection, IsInjective
  <2>2. Cardinality(1..n) = n
    BY <1>1, FS_Interval
  <2>3. q \in Surjection(1..n, S)
    BY <1>2, <2>1, <2>2, FS_Injection
  <2> QED
    BY <2>3 DEF Surjection
<1> QED
  BY <1>1, <1>6, <1>7 DEF BqSorted, q

\* The same of the query of the next state.
BqCursor ==
    /\ End \in Nat /\ config.checkpoint \in {"none", "unique", "tiebreaker"}
    /\ params \in 0..End /\ (config.checkpoint = "none" => params = 0)

LEMMA BqCursorFacts == BqCursor => BqSorted(BqQuery, params)
  BY BqQueryFacts DEF BqCursor

LEMMA BqNextCursorFacts == BqCursor' => BqSorted(BqQuery, params)'
  BY BqCursorFacts, PTL

LEMMA BqSameQuery == ASSUME config' = config, params' = params PROVE BqQuery' = BqQuery
  BY DEF BqQuery, BS!Query, BS!After, BS!Column, BS!Tiebreaker

-----------------------------------------------------------------------------
(* Steps.                                                                    *)

\* What the proofs of the steps use of the rows of the query.
LEMMA BqRows ==
  ASSUME BqConfigs, BqInv
  PROVE  /\ BqSorted(BqQuery, params) /\ BqQuery \in Seq(Nat) /\ Len(BqQuery) \in Nat
         /\ End \in Nat /\ params \in Nat /\ config.batch_size \in Nat \ {0}
<1>1. config.checkpoint \in {"none", "unique", "tiebreaker"} /\ config.batch_size \in Nat \ {0}
      /\ End \in Nat /\ params \in 0..End /\ (config.checkpoint = "none" => params = 0)
  BY DEF BqConfigs, BqInv, BqTypes, BqDone
<1>2. BqSorted(BqQuery, params)
  BY <1>1, BqQueryFacts
<1> QED
  BY <1>1, <1>2 DEF BqSorted

LEMMA BqInitInv == ASSUME BqConfigs, BS!Init PROVE BqInv
<1> USE DEF BS!Init, BS!NoProgress, BS!NoItem, BqConfigs
<1>1. BqTypes
  <2>1. item \in BqItem /\ queue \in Seq(BqItem) /\ Len(queue) <= 1
    BY DEF BqItem
  <2>2. progress \in BqProgress
    BY DEF BqProgress
  <2>3. rows \in Seq(Nat) /\ batch \in Seq(Nat) /\ emitted \in Seq(Nat) /\ params \in 0..End
        /\ saved \in 0..End /\ config \in Configs
        /\ call \in {"idle", "get", "emit", "yielded", "closing"}
        /\ pump \in {"off", "query", "read", "put", "end"}
    OBVIOUS
  <2>4. stop \in BOOLEAN /\ success \in BOOLEAN
    OBVIOUS
  <2> QED
    BY <2>1, <2>2, <2>3, <2>4 DEF BqTypes
<1>2. BqThreads /\ BqPlace
  BY DEF BqThreads, BqPlace, BqLive
<1>3. BqDone
  BY DEF BqDone, BqLive, BS!CompletedIsDone
<1>4. BqOrder /\ BqComplete
  BY DEF BqOrder, BqComplete, BqLive, BS!EmittedInOrder
<1> QED
  BY <1>1, <1>2, <1>3, <1>4 DEF BqInv

\* A step of the pump leaves what the stream has done alone.
LEMMA BqPumpRest ==
  ASSUME BqInv, UNCHANGED <<config, call, getter, params, progress, success, emitted, done, saved>>
  PROVE  BqDone' /\ BqOrder' /\ BqComplete' /\ BqQuery' = BqQuery /\ (BqLive' <=> BqLive)
<1>1. BqQuery' = BqQuery
  BY BqSameQuery
<1>2. (BqLive' <=> BqLive) /\ BqSeen' = BqSeen
  BY DEF BqLive, BqSeen
<1>3. BqDone'
  BY <1>1, <1>2 DEF BqInv, BqDone, BS!CompletedIsDone
<1>4. BqOrder' /\ BqComplete'
  BY <1>1, <1>2 DEF BqInv, BqOrder, BqComplete, BS!EmittedInOrder
<1> QED
  BY <1>1, <1>2, <1>3, <1>4

LEMMA BqStartInv == ASSUME BqConfigs, BqInv, BS!Start PROVE BqInv'
<1>1. /\ call' = "get" /\ pump' = "query" /\ stop' = FALSE /\ queue' = <<>> /\ item' = BS!NoItem
      /\ params' = (IF config.checkpoint = "none" THEN 0 ELSE saved)
      /\ progress' = [BS!NoProgress EXCEPT !.dropped = progress.dropped] /\ success' = FALSE
      /\ emitted' = <<>> /\ batch' = <<>> /\ rows' = <<>>
      /\ config' = config /\ done' = done /\ saved' = saved
      /\ call = "idle" /\ getter' = getter
  BY DEF BS!Start, BS!threadVars
<1>2. /\ progress \in BqProgress /\ saved \in 0..End /\ End \in Nat /\ config \in Configs
      /\ 1..saved \subseteq done /\ (config.checkpoint = "none" => saved = 0) /\ getter = FALSE
  BY <1>1 DEF BqInv, BqTypes, BqConfigs, BqDone, BqThreads
<1>3. /\ progress' \in BqProgress /\ progress'.seen = 0 /\ progress'.error = FALSE
  BY <1>1, <1>2 DEF BqProgress, BS!NoProgress
<1>4. params' = saved
  BY <1>1, <1>2
<1>5. BqTypes'
  <2>1. item' \in BqItem /\ queue' \in Seq(BqItem) /\ Len(queue') <= 1
    BY <1>1 DEF BqItem, BS!NoItem
  <2>2. rows' \in Seq(Nat) /\ batch' \in Seq(Nat) /\ emitted' \in Seq(Nat) /\ params' \in 0..End
        /\ saved' \in 0..End /\ config' \in Configs
        /\ call' \in {"idle", "get", "emit", "yielded", "closing"}
        /\ pump' \in {"off", "query", "read", "put", "end"}
    BY <1>1, <1>2, <1>4
  <2>3. stop' \in BOOLEAN /\ success' \in BOOLEAN /\ getter' \in BOOLEAN
    BY <1>1, <1>2
  <2> QED
    BY <1>3, <2>1, <2>2, <2>3 DEF BqTypes
<1>6. BqSorted(BqQuery', params')
  <2>1. config'.checkpoint \in {"none", "unique", "tiebreaker"} /\ params' \in 0..End
        /\ (config'.checkpoint = "none" => params' = 0)
    BY <1>1, <1>2, <1>4 DEF BqConfigs
  <2>2. BqCursor'
    BY <1>2, <2>1 DEF BqCursor
  <2> QED
    BY <2>2, BqNextCursorFacts
<1>7. BqLive' /\ BqThreads'
  BY <1>1, <1>2 DEF BqThreads, BqLive
<1>8. BqQueued' = <<>> /\ BqTaken' = 0 /\ BqPut' = 0 /\ Len(BqQuery') \in Nat
  <2>1. BqQueued' = <<>>
    BY <1>1 DEF BqQueued
  <2>2. BqTaken' = 0
    BY <1>1, <1>3 DEF BqTaken
  <2> QED
    BY <1>6, <2>1, <2>2 DEF BqPut, BqSorted
<1>9. BqPlace'
  BY <1>1, <1>8 DEF BqPlace
<1>10. BqDone'
  <2>1. BqSeen' = 0
    BY <1>1, <1>3 DEF BqSeen
  <2>2. \A j \in 1..Len(BqQuery') : saved < BqQuery'[j]
    BY <1>2, <1>4, <1>6 DEF BqSorted
  <2> QED
    BY <1>1, <1>2, <1>4, <2>1, <2>2 DEF BqDone, BS!CompletedIsDone
<1>11. BqOrder' /\ BqComplete'
  BY <1>1, <1>3 DEF BqOrder, BqComplete, BS!EmittedInOrder
<1> QED
  BY <1>5, <1>7, <1>9, <1>10, <1>11 DEF BqInv

\* An item is ready to be put.
LEMMA BqPutFacts ==
  ASSUME NEW e \in {"started", "batch", "completed", "error"}, NEW s \in Seq(Nat), ~stop, BS!Put(e, s)
  PROVE  item' \in BqItem /\ item'.event = e /\ item'.rows = s /\ pump' = "put"
  BY DEF BS!Put, BqItem

\* A pump that finds the stream stopped ends.
LEMMA BqPumpEnds ==
  ASSUME BqInv, stop, pump # "off", pump' = "end", rows' \in Seq(Nat), item' = item,
         queue' = queue, stop' = stop, batch' = batch,
         UNCHANGED <<config, call, getter, params, progress, success, emitted, done, saved>>
  PROVE  BqInv'
<1>1. BqDone' /\ BqOrder' /\ BqComplete' /\ BqQuery' = BqQuery /\ (BqLive' <=> BqLive)
  BY BqPumpRest
<1>2. ~BqLive /\ ~BqLive'
  BY <1>1 DEF BqInv, BqThreads
<1>3. BqTypes' /\ BqThreads' /\ BqPlace'
  BY <1>2 DEF BqInv, BqTypes, BqThreads, BqPlace
<1> QED
  BY <1>1, <1>3 DEF BqInv

LEMMA BqStartQueryInv == ASSUME BqConfigs, BqInv, BS!StartQuery PROVE BqInv'
<1>1. /\ pump = "query" /\ call' = call /\ queue' = queue /\ stop' = stop /\ batch' = batch
      /\ UNCHANGED <<config, call, getter, params, progress, success, emitted, done, saved>>
  BY DEF BS!StartQuery, BS!threadVars
<1>2. BqDone' /\ BqOrder' /\ BqComplete' /\ BqQuery' = BqQuery /\ (BqLive' <=> BqLive)
  BY <1>1, BqPumpRest
<1>3. BqQueued' = BqQueued /\ BqTaken' = BqTaken /\ BqPut' = BqPut
  BY <1>1 DEF BqQueued, BqTaken, BqPut
<1>4. BqQuery \in Seq(Nat) /\ Len(BqQuery) \in Nat
  BY BqRows
<1>0. CASE stop
  <2>1. pump # "off" /\ rows \in Seq(Nat) /\ rows' \in {BqQuery, rows}
    BY DEF BqInv, BqTypes, BS!StartQuery, BqQuery
  <2>2. pump' = "end" /\ item' = item /\ stop' = stop
    BY <1>0 DEF BS!StartQuery, BS!Put
  <2> QED
    BY <1>0, <1>1, <1>4, <2>1, <2>2, BqPumpEnds
<1>9. SUFFICES ASSUME ~stop PROVE BqInv'
  BY <1>0
<1>5. /\ pump' = "put" /\ item' \in BqItem /\ item'.rows = <<>> /\ rows' \in Seq(Nat)
      /\ item'.event \in {"started", "error"} /\ (item'.event = "started" => rows' = BqQuery)
  <2>1. <<>> \in Seq(Nat) /\ rows \in Seq(Nat)
    BY DEF BqInv, BqTypes
  <2>2. CASE rows' = BS!Query(params) /\ BS!Put("started", <<>>)
    BY <1>4, <1>9, <2>1, <2>2, BqPutFacts DEF BqQuery
  <2>3. CASE BS!Put("error", <<>>) /\ UNCHANGED rows
    BY <1>9, <2>1, <2>3, BqPutFacts
  <2> QED
    BY <2>2, <2>3 DEF BS!StartQuery
<1>6. BqTypes' /\ BqThreads'
  BY <1>1, <1>2, <1>5 DEF BqInv, BqTypes, BqThreads, BqLive
<1>7. BqPlace'
  <2>1. SUFFICES ASSUME BqLive PROVE BqPlace'
    BY <1>2 DEF BqPlace
  <2>2. /\ BqPut = 0
        /\ \A i \in 1..Len(batch) : batch[i] = BqQuery[progress.seen + i]
        /\ \A i \in 1..Len(BqQueued) : BqQueued[i] = BqQuery[BqTaken + i]
    BY <1>1, <2>1 DEF BqInv, BqPlace
  <2>3. Len(item'.rows) = 0
    BY <1>5
  <2>4. item'.event # "error" => /\ BqPut' + Len(item'.rows) + Len(rows') = Len(BqQuery')
                                 /\ \A i \in 1..Len(item'.rows) : item'.rows[i] = BqQuery'[BqPut' + i]
                                 /\ \A i \in 1..Len(rows') : rows'[i] = BqQuery'[BqPut' + Len(item'.rows) + i]
    BY <1>2, <1>3, <1>4, <1>5, <2>2, <2>3
  <2>5. BqPut' <= Len(BqQuery') /\ item'.event # "completed"
    BY <1>2, <1>3, <1>4, <1>5, <2>2
  <2> QED
    BY <1>1, <1>2, <1>3, <1>5, <2>1, <2>2, <2>4, <2>5 DEF BqInv, BqPlace
<1> QED
  BY <1>2, <1>6, <1>7 DEF BqInv

LEMMA BqSameRows ==
  ASSUME NEW s \in Seq(Nat), NEW t \in Seq(Nat), Len(s) = Len(t), \A i \in 1..Len(t) : s[i] = t[i]
  PROVE  s = t
<1>1. s = [i \in 1..Len(s) |-> s[i]] /\ t = [i \in 1..Len(t) |-> t[i]]
  OBVIOUS
<1> QED
  BY <1>1

LEMMA BqSplitFacts ==
  ASSUME NEW s \in Seq(Nat), NEW n \in Nat, n <= Len(s)
  PROVE  /\ SubSeq(s, 1, n) \in Seq(Nat) /\ Len(SubSeq(s, 1, n)) = n
         /\ \A i \in 1..n : SubSeq(s, 1, n)[i] = s[i]
         /\ SubSeq(s, n + 1, Len(s)) \in Seq(Nat)
         /\ Len(SubSeq(s, n + 1, Len(s))) = Len(s) - n
         /\ \A i \in 1..(Len(s) - n) : SubSeq(s, n + 1, Len(s))[i] = s[n + i]
  OBVIOUS

LEMMA BqReadRowsInv == ASSUME BqConfigs, BqInv, BS!ReadRows PROVE BqInv'
<1> DEFINE n == IF Len(rows) < config.batch_size THEN Len(rows) ELSE config.batch_size
<1>1. /\ pump = "read" /\ call' = call /\ queue' = queue /\ stop' = stop /\ batch' = batch
      /\ UNCHANGED <<config, call, getter, params, progress, success, emitted, done, saved>>
  BY DEF BS!ReadRows, BS!threadVars
<1>2. BqDone' /\ BqOrder' /\ BqComplete' /\ BqQuery' = BqQuery /\ (BqLive' <=> BqLive)
  BY <1>1, BqPumpRest
<1>3. BqQueued' = BqQueued /\ BqTaken' = BqTaken /\ BqPut' = BqPut
  BY <1>1 DEF BqQueued, BqTaken, BqPut
<1>4. BqQuery \in Seq(Nat) /\ Len(BqQuery) \in Nat /\ config.batch_size \in Nat \ {0}
  BY BqRows
<1>5. rows \in Seq(Nat) /\ Len(rows) \in Nat /\ <<>> \in Seq(Nat)
  BY DEF BqInv, BqTypes
<1>6. n \in Nat /\ n <= Len(rows) /\ (n = 0 => Len(rows) = 0)
  BY <1>4, <1>5
<1>7. CASE stop /\ pump' = "end" /\ UNCHANGED <<item, rows>>
  <2>1. ~BqLive /\ ~BqLive'
    BY <1>2, <1>7 DEF BqInv, BqThreads
  <2>2. BqTypes' /\ BqThreads' /\ BqPlace'
    BY <1>1, <1>7, <2>1 DEF BqInv, BqTypes, BqThreads, BqPlace
  <2> QED
    BY <1>2, <2>2 DEF BqInv
<1>8. CASE BS!Put("error", <<>>) /\ UNCHANGED rows
  <2>0. CASE stop
    <3>1. pump' = "end" /\ item' = item
      BY <1>8, <2>0 DEF BS!Put
    <3> QED
      BY <1>1, <1>5, <1>8, <2>0, <3>1, BqPumpEnds
  <2>9. SUFFICES ASSUME ~stop PROVE BqInv'
    BY <2>0
  <2>1. item' \in BqItem /\ item'.event = "error" /\ item'.rows = <<>> /\ pump' = "put"
    BY <1>5, <1>8, <2>9, BqPutFacts
  <2>2. BqTypes' /\ BqThreads'
    BY <1>1, <1>2, <1>8, <2>1 DEF BqInv, BqTypes, BqThreads, BqLive
  <2>3. BqPlace'
    BY <1>1, <1>2, <1>3, <2>1 DEF BqInv, BqPlace
  <2> QED
    BY <1>2, <2>2, <2>3 DEF BqInv
<1>9. CASE /\ ~stop /\ rows' = SubSeq(rows, n + 1, Len(rows))
           /\ IF n = 0 THEN BS!Put("completed", <<>>) ELSE BS!Put("batch", SubSeq(rows, 1, n))
  <2> DEFINE some == SubSeq(rows, 1, n)
  <2> HIDE DEF n
  <2>1. /\ some \in Seq(Nat) /\ Len(some) = n /\ \A i \in 1..n : some[i] = rows[i]
        /\ rows' \in Seq(Nat) /\ Len(rows') = Len(rows) - n
        /\ \A i \in 1..(Len(rows) - n) : rows'[i] = rows[n + i]
    BY <1>5, <1>6, <1>9, BqSplitFacts
  <2> HIDE DEF some
  <2>2. /\ item' \in BqItem /\ Len(item'.rows) = n /\ \A i \in 1..n : item'.rows[i] = rows[i]
        /\ pump' = "put" /\ item'.event \in {"completed", "batch"}
        /\ (item'.event # "batch" => item'.rows = <<>> /\ n = 0)
    <3>1. CASE n = 0
      <4>1. item' \in BqItem /\ item'.event = "completed" /\ item'.rows = <<>> /\ pump' = "put"
        BY <1>5, <1>9, <3>1, BqPutFacts
      <4>2. Len(item'.rows) = 0
        BY <4>1
      <4> QED
        BY <3>1, <4>1, <4>2
    <3>2. CASE n # 0
      <4>1. item' \in BqItem /\ item'.event = "batch" /\ item'.rows = some /\ pump' = "put"
        BY <1>9, <2>1, <3>2, BqPutFacts DEF some
      <4> QED
        BY <2>1, <3>2, <4>1
    <3> QED
      BY <3>1, <3>2
  <2>3. BqTypes' /\ BqThreads'
    BY <1>1, <1>2, <2>1, <2>2 DEF BqInv, BqTypes, BqThreads, BqLive
  <2>4. BqPlace'
    <3>1. SUFFICES ASSUME BqLive PROVE BqPlace'
      BY <1>2 DEF BqPlace
    <3>2. /\ BqPut <= Len(BqQuery) /\ BqPut + Len(rows) = Len(BqQuery)
          /\ \A i \in 1..Len(rows) : rows[i] = BqQuery[BqPut + i]
          /\ \A i \in 1..Len(batch) : batch[i] = BqQuery[progress.seen + i]
          /\ \A i \in 1..Len(BqQueued) : BqQueued[i] = BqQuery[BqTaken + i]
      BY <1>1, <3>1 DEF BqInv, BqPlace
    <3>3. BqPut \in Nat
      BY DEF BqInv, BqTypes, BqItem, BqProgress, BqPut, BqTaken, BqQueued
    <3>4. BqPut + n + (Len(rows) - n) = Len(BqQuery)
      <4>1. \A a, b, m \in Int : a + m + (b - m) = a + b
        OBVIOUS
      <4>2. BqPut \in Int /\ Len(rows) \in Int /\ n \in Int
        BY <1>5, <1>6, <3>3
      <4>3. BqPut + n + (Len(rows) - n) = BqPut + Len(rows)
        BY <4>1, <4>2
      <4> QED
        BY <3>2, <4>3
    <3>5. \A i \in 1..n : item'.rows[i] = BqQuery[BqPut + i]
      BY <1>5, <1>6, <2>2, <3>2
    <3>6. \A i \in 1..(Len(rows) - n) : rows'[i] = BqQuery[BqPut + n + i]
      <4> TAKE i \in 1..(Len(rows) - n)
      <4>1. n + i \in 1..Len(rows) /\ BqPut + (n + i) = BqPut + n + i
        BY <1>5, <1>6, <3>3
      <4> QED
        BY <2>1, <3>2, <4>1
    <3>7. item'.event = "completed" => rows' = <<>>
      <4>1. item'.event = "completed" => Len(rows') = 0
        BY <1>5, <1>6, <2>1, <2>2
      <4> QED
        BY <2>1, <4>1
    <3> QED
      BY <1>1, <1>2, <1>3, <2>1, <2>2, <3>1, <3>2, <3>4, <3>5, <3>6, <3>7 DEF BqInv, BqPlace
  <2> QED
    BY <1>2, <2>3, <2>4 DEF BqInv
<1> QED
  BY <1>7, <1>8, <1>9 DEF BS!ReadRows

LEMMA BqPutItemInv == ASSUME BqConfigs, BqInv, BS!PutItem PROVE BqInv'
<1>1. /\ pump = "put" /\ call' = call /\ item' = item /\ stop' = stop /\ batch' = batch /\ rows' = rows
      /\ UNCHANGED <<config, call, getter, params, progress, success, emitted, done, saved>>
  BY DEF BS!PutItem, BS!threadVars
<1>2. BqDone' /\ BqOrder' /\ BqComplete' /\ BqQuery' = BqQuery /\ (BqLive' <=> BqLive)
  BY <1>1, BqPumpRest
<1>3. item \in BqItem /\ item.rows \in Seq(Nat)
  BY DEF BqInv, BqTypes, BqItem
<1>4. CASE stop /\ pump' = "end" /\ UNCHANGED queue
  <2>1. ~BqLive /\ ~BqLive'
    BY <1>2, <1>4 DEF BqInv, BqThreads
  <2>2. BqTypes' /\ BqThreads' /\ BqPlace'
    BY <1>1, <1>4, <2>1 DEF BqInv, BqTypes, BqThreads, BqPlace
  <2> QED
    BY <1>2, <2>2 DEF BqInv
<1>5. CASE /\ queue = <<>> /\ queue' = Append(queue, item)
           /\ pump' = IF item.event \in {"completed", "error"} THEN "end" ELSE "read"
  <2>1. queue' \in Seq(BqItem) /\ Len(queue') = 1 /\ queue'[1] = item /\ queue' # <<>>
    BY <1>3, <1>5
  <2>2. pump' \in {"end", "read"} /\ (pump' = "end" => item.event \in {"completed", "error"})
        /\ (pump' = "read" => item.event \notin {"completed", "error"})
    BY <1>5
  <2>3. BqTypes' /\ BqThreads'
    BY <1>1, <1>2, <2>1, <2>2 DEF BqInv, BqTypes, BqThreads, BqLive
  <2>4. BqQueued = <<>> /\ BqQueued' = item.rows /\ BqTaken' = BqTaken
    BY <1>1, <1>5, <2>1 DEF BqQueued, BqTaken
  <2>5. BqPut = BqTaken /\ BqPut' = BqTaken + Len(item.rows) /\ BqTaken \in Nat
    <3>1. Len(BqQueued) = 0
      BY <2>4
    <3>2. BqTaken \in Nat
      BY DEF BqInv, BqTypes, BqProgress, BqTaken
    <3> QED
      BY <2>4, <3>1, <3>2 DEF BqPut
  <2>6. BqPlace'
    <3>1. SUFFICES ASSUME BqLive PROVE BqPlace'
      BY <1>2 DEF BqPlace
    <3>2. /\ BqPut <= Len(BqQuery)
          /\ \A i \in 1..Len(batch) : batch[i] = BqQuery[progress.seen + i]
          /\ (item.event # "batch" => item.rows = <<>>)
          /\ (item.event = "completed" => rows = <<>>)
          /\ (call = "get" => batch = <<>>)
      BY <1>1, <3>1 DEF BqInv, BqPlace
    <3>3. item.event # "error" =>
             /\ BqPut + Len(item.rows) + Len(rows) = Len(BqQuery)
             /\ \A i \in 1..Len(item.rows) : item.rows[i] = BqQuery[BqPut + i]
             /\ \A i \in 1..Len(rows) : rows[i] = BqQuery[BqPut + Len(item.rows) + i]
      BY <1>1, <3>1 DEF BqInv, BqPlace
    <3>4. rows \in Seq(Nat) /\ Len(rows) \in Nat /\ Len(item.rows) \in Nat /\ Len(BqQuery) \in Nat
      BY <1>3, BqRows DEF BqInv, BqTypes
    <3>5. \A i \in 1..Len(item.rows) : item.rows[i] = BqQuery[BqTaken + i]
      <4>1. CASE item.event = "error"
        <5>1. Len(item.rows) = 0
          BY <3>2, <4>1
        <5> QED
          BY <5>1
      <4>2. CASE item.event # "error"
        BY <2>5, <3>3, <4>2
      <4> QED
        BY <4>1, <4>2
    <3>6. BqPut' <= Len(BqQuery)
      <4>1. CASE item.event = "error"
        <5>1. Len(item.rows) = 0
          BY <3>2, <4>1
        <5> QED
          BY <2>5, <3>2, <5>1
      <4>2. CASE item.event # "error"
        BY <2>5, <3>3, <3>4, <4>2
      <4> QED
        BY <4>1, <4>2
    <3>7. pump' = "read" => /\ BqPut' + Len(rows) = Len(BqQuery)
                            /\ \A i \in 1..Len(rows) : rows[i] = BqQuery[BqPut' + i]
      BY <2>2, <2>5, <3>3
    <3>8. item.event = "completed" => BqTaken = Len(BqQuery)
      <4>1. item.event = "completed" => Len(item.rows) = 0 /\ Len(rows) = 0
        BY <3>2
      <4> QED
        BY <2>5, <3>3, <3>4, <4>1
    <3>9. call = "yielded" =>
             /\ progress.seen > 0 /\ Len(emitted) > 0
             /\ emitted[Len(emitted)] = BqQuery[progress.seen]
             /\ progress.cursor = IF config.checkpoint = "none" THEN 0 ELSE BqQuery[progress.seen]
      BY <3>1 DEF BqInv, BqPlace
    <3> QED
      BY <1>1, <1>2, <2>1, <2>2, <2>4, <3>2, <3>5, <3>6, <3>7, <3>8, <3>9 DEF BqPlace
  <2> QED
    BY <1>2, <2>3, <2>6 DEF BqInv
<1> QED
  BY <1>4, <1>5 DEF BS!PutItem

\* The stream is over, or waits for its pump to end.
LEMMA BqOver ==
  ASSUME BqInv, UNCHANGED <<config, params, emitted, done, saved>>, call' \in {"closing", "idle"},
         BqThreads', BqTypes', BS!CompletedIsDone',
         success' /\ ~progress'.dropped => ~progress'.error /\ emitted = BqQuery
  PROVE  BqInv'
<1>1. ~BqLive' /\ BqQuery' = BqQuery
  BY BqSameQuery DEF BqLive
<1>2. BqPlace' /\ BqDone' /\ BqOrder'
  BY <1>1 DEF BqPlace, BqInv, BqDone, BqOrder, BS!EmittedInOrder
<1>3. BqComplete'
  BY <1>1 DEF BqComplete
<1> QED
  BY <1>2, <1>3 DEF BqInv

LEMMA BqFinishTypes ==
  ASSUME BqInv, BS!Finish, UNCHANGED <<config, pump, item, params, rows, saved>>,
         queue' \in Seq(BqItem), Len(queue') <= 1, emitted' \in Seq(Nat), progress' \in BqProgress,
         success' \in BOOLEAN, getter' \in BOOLEAN
  PROVE  BqTypes'
<1>1. call' = "closing" /\ stop' = TRUE /\ batch' = <<>>
  BY DEF BS!Finish
<1>2. batch' \in Seq(Nat)
  BY <1>1
<1>3. stop' \in BOOLEAN
  BY <1>1
<1> QED
  BY <1>1, <1>2, <1>3 DEF BqInv, BqTypes

\* When all rows of the query are seen, every row of the table is done.
LEMMA BqAllDone ==
  ASSUME BqConfigs, BqInv, call \in {"get", "emit"}, progress.seen = Len(BqQuery)
  PROVE  1..End \subseteq done
<1>1. BqSorted(BqQuery, params) /\ End \in Nat /\ params \in Nat
  BY BqRows
<1>2. BqLive /\ BqSeen = progress.seen
  BY DEF BqLive, BqSeen
<1>3. 1..params \subseteq done /\ \A j \in 1..Len(BqQuery) : BqQuery[j] \in done
  BY <1>2 DEF BqInv, BqDone
<1> SUFFICES ASSUME NEW r \in 1..End PROVE r \in done
  OBVIOUS
<1>4. CASE r <= params
  BY <1>1, <1>3, <1>4
<1>5. CASE ~(r <= params)
  <2>1. r \in (params + 1)..End
    BY <1>1, <1>5
  <2>2. PICK j \in 1..Len(BqQuery) : BqQuery[j] = r
    BY <1>1, <2>1 DEF BqSorted
  <2> QED
    BY <1>3, <2>2
<1> QED
  BY <1>4, <1>5

LEMMA BqGetItemInv == ASSUME BqConfigs, BqInv, BS!GetItem PROVE BqInv'
<1>1. /\ call = "get" /\ queue # <<>> /\ queue' = <<>> /\ pump' = pump /\ item' = item /\ rows' = rows
      /\ UNCHANGED <<config, pump, item, getter, params, rows, emitted, done, saved>>
  BY DEF BS!GetItem, BS!threadVars
<1>2. /\ queue \in Seq(BqItem) /\ queue[1] \in BqItem /\ Head(queue) = queue[1]
      /\ queue' \in Seq(BqItem) /\ Len(queue') = 0 /\ queue[1].rows \in Seq(Nat)
  <2>1. queue \in Seq(BqItem) /\ queue[1] \in BqItem
    BY <1>1 DEF BqInv, BqTypes
  <2>2. queue[1].rows \in Seq(Nat)
    BY <2>1 DEF BqItem
  <2> QED
    BY <1>1, <2>1, <2>2
<1>3. BqLive /\ BqQuery' = BqQuery /\ BqQueued = queue[1].rows /\ BqQueued' = <<>> /\ call # "yielded"
  BY <1>1, BqSameQuery DEF BqLive, BqQueued
<1>4. /\ BqPut <= Len(BqQuery) /\ batch = <<>>
      /\ \A i \in 1..Len(BqQueued) : BqQueued[i] = BqQuery[BqTaken + i]
      /\ (queue[1].event # "batch" => BqQueued = <<>>)
      /\ (queue[1].event = "completed" => BqTaken = Len(BqQuery))
  BY <1>1, <1>3 DEF BqInv, BqPlace
<1>5. /\ progress \in BqProgress /\ progress.seen \in Nat /\ Len(BqQuery) \in Nat /\ BqQuery \in Seq(Nat)
      /\ Len(batch) = 0 /\ BqTaken = progress.seen /\ BqPut = progress.seen + Len(BqQueued)
      /\ Len(BqQueued) \in Nat
  <2>1. progress \in BqProgress /\ progress.seen \in Nat
    BY DEF BqInv, BqTypes, BqProgress
  <2>2. Len(batch) = 0
    BY <1>4
  <2> QED
    BY <1>2, <1>3, <2>1, <2>2, BqRows DEF BqTaken, BqPut
<1>6. CASE queue[1].event \in {"started", "batch"} /\ UNCHANGED <<stop, progress, success>>
           /\ \/ queue[1].event = "started" /\ UNCHANGED <<call, batch>>
              \/ queue[1].event = "batch" /\ call' = "emit" /\ batch' = queue[1].rows
  <2>1. pump # "end"
    BY <1>3, <1>6 DEF BqInv, BqThreads
  <2>2. /\ batch' = queue[1].rows /\ batch' \in Seq(Nat) /\ call' \in {"get", "emit"} /\ BqLive'
        /\ (call' = "get" => batch' = <<>>)
    BY <1>1, <1>2, <1>3, <1>4, <1>6 DEF BqLive
  <2>3. BqTypes'
    BY <1>1, <1>2, <1>6, <2>2 DEF BqInv, BqTypes
  <2>4. BqThreads'
    BY <1>1, <1>3, <1>6, <2>1, <2>2 DEF BqInv, BqThreads
  <2>5. Len(BqQueued') = 0 /\ BqTaken' = BqPut /\ BqPut' = BqPut
    <3>1. Len(BqQueued') = 0
      BY <1>3
    <3>2. BqTaken' = progress.seen + Len(queue[1].rows)
      BY <1>6, <2>2 DEF BqTaken
    <3> QED
      BY <1>3, <1>5, <3>1, <3>2 DEF BqPut
  <2>6. BqPlace'
    <3>1. \A i \in 1..Len(batch') : batch'[i] = BqQuery'[progress'.seen + i]
      BY <1>3, <1>4, <1>5, <1>6, <2>2
    <3>2. /\ pump = "query" => BqPut = 0
          /\ pump = "read" => /\ BqPut + Len(rows) = Len(BqQuery)
                              /\ \A i \in 1..Len(rows) : rows[i] = BqQuery[BqPut + i]
          /\ pump = "put" /\ item.event # "error" =>
                /\ BqPut + Len(item.rows) + Len(rows) = Len(BqQuery)
                /\ \A i \in 1..Len(item.rows) : item.rows[i] = BqQuery[BqPut + i]
                /\ \A i \in 1..Len(rows) : rows[i] = BqQuery[BqPut + Len(item.rows) + i]
          /\ pump = "put" /\ item.event # "batch" => item.rows = <<>>
          /\ pump = "put" /\ item.event = "completed" => rows = <<>>
      BY <1>3 DEF BqInv, BqPlace
    <3>3. call' # "yielded"
      BY <2>2
    <3> QED
      BY <1>1, <1>3, <1>4, <2>2, <2>5, <3>1, <3>2, <3>3 DEF BqPlace
  <2>7. BqDone' /\ BqOrder' /\ BqComplete'
    <3>1. BqSeen' = BqSeen
      BY <1>1, <1>6, <2>2 DEF BqSeen
    <3> QED
      BY <1>1, <1>3, <1>6, <2>2, <3>1 DEF BqInv, BqDone, BqOrder, BqComplete, BS!EmittedInOrder,
         BS!CompletedIsDone
  <2> QED
    BY <2>3, <2>4, <2>6, <2>7 DEF BqInv
<1>7. CASE queue[1].event = "completed" /\ BS!Finish /\ success' = TRUE /\ UNCHANGED progress
  <2>1. progress.seen = Len(BqQuery)
    BY <1>4, <1>5, <1>7
  <2>2. 1..End \subseteq done
    BY <1>1, <2>1, BqAllDone
  <2>3. ~progress.dropped => ~progress.error /\ emitted = BqQuery
    <3>1. SUFFICES ASSUME ~progress.dropped PROVE ~progress.error /\ emitted = BqQuery
      OBVIOUS
    <3>2. ~progress.error /\ Len(emitted) = progress.seen
          /\ \A i \in 1..progress.seen : emitted[i] = BqQuery[i]
      BY <1>3, <3>1 DEF BqInv, BqComplete
    <3>3. emitted \in Seq(Nat)
      BY DEF BqInv, BqTypes
    <3> QED
      BY <1>5, <2>1, <3>2, <3>3, BqSameRows
  <2>4. BqTypes'
    <3>1. success' \in BOOLEAN
      BY <1>7
    <3> QED
      BY <1>1, <1>2, <1>5, <1>7, <3>1, BqFinishTypes DEF BqInv, BqTypes
  <2>5. BS!CompletedIsDone' /\ (success' /\ ~progress'.dropped => ~progress'.error /\ emitted = BqQuery)
    BY <1>1, <1>7, <2>2, <2>3 DEF BS!CompletedIsDone
  <2>6. call' \in {"closing", "idle"} /\ BqThreads'
    BY <1>1, <1>7 DEF BS!Finish, BqInv, BqThreads, BqLive
  <2> QED
    BY <1>1, <2>4, <2>5, <2>6, BqOver
<1>8. CASE queue[1].event = "error" /\ BS!Finish /\ UNCHANGED success
           /\ progress' = [progress EXCEPT !.error = TRUE]
  <2>1. progress' \in BqProgress
    BY <1>5, <1>8 DEF BqProgress
  <2>2. ~success' /\ success' \in BOOLEAN
    BY <1>3, <1>8 DEF BqInv, BqComplete, BqTypes
  <2>4. BqTypes'
    BY <1>1, <1>2, <1>8, <2>1, <2>2, BqFinishTypes DEF BqInv, BqTypes
  <2>5. BS!CompletedIsDone'
    BY <2>2 DEF BS!CompletedIsDone
  <2>6. call' \in {"closing", "idle"} /\ BqThreads'
    BY <1>1, <1>8 DEF BS!Finish, BqInv, BqThreads, BqLive
  <2> QED
    BY <1>1, <2>2, <2>4, <2>5, <2>6, BqOver
<1> QED
  BY <1>2, <1>6, <1>7, <1>8 DEF BS!GetItem

LEMMA BqGiveUpInv == ASSUME BqConfigs, BqInv, BS!GiveUp PROVE BqInv'
<1>1. /\ call \in {"get", "yielded"} /\ BS!Finish /\ getter' \in BOOLEAN
      /\ UNCHANGED <<config, pump, item, queue, params, rows, progress, success, emitted, done, saved>>
  BY DEF BS!GiveUp
<1>2. ~success' /\ success' \in BOOLEAN
  BY <1>1 DEF BqInv, BqComplete, BqTypes, BqLive
<1>3. BqTypes'
  BY <1>1, <1>2, BqFinishTypes DEF BqInv, BqTypes
<1>4. call' \in {"closing", "idle"} /\ BqThreads'
  BY <1>1 DEF BS!Finish, BqInv, BqThreads, BqLive
<1>5. BS!CompletedIsDone'
  BY <1>2 DEF BS!CompletedIsDone
<1> QED
  BY <1>1, <1>2, <1>3, <1>4, <1>5, BqOver

LEMMA BqGetterInv == ASSUME BqConfigs, BqInv, BS!GetterReturns PROVE BqInv'
<1>1. /\ getter /\ getter' = FALSE /\ queue' = <<>> /\ call' = call
      /\ UNCHANGED <<config, pump, item, stop, params, rows, batch, progress, success, emitted, done, saved>>
  BY DEF BS!GetterReturns
<1>2. call = "closing" /\ ~BqLive /\ ~BqLive'
  BY <1>1 DEF BqInv, BqThreads, BqLive
<1>3. queue' \in Seq(BqItem) /\ Len(queue') <= 1
  BY <1>1
<1>4. BqTypes' /\ BqThreads'
  BY <1>1, <1>2, <1>3 DEF BqInv, BqTypes, BqThreads
<1>5. BS!CompletedIsDone' /\ (success' /\ ~progress'.dropped => ~progress'.error /\ emitted = BqQuery)
  BY <1>1 DEF BqInv, BqDone, BqComplete, BS!CompletedIsDone
<1> QED
  BY <1>1, <1>2, <1>4, <1>5, BqOver

LEMMA BqCloseInv == ASSUME BqConfigs, BqInv, BS!Close PROVE BqInv'
<1>1. /\ call' = "idle" /\ pump' = "off" /\ getter' = FALSE
      /\ UNCHANGED <<config, item, queue, stop, params, rows, batch, progress, success, emitted, done, saved>>
  BY DEF BS!Close
<1>2. BqTypes' /\ BqThreads'
  BY <1>1 DEF BqInv, BqTypes, BqThreads, BqLive
<1>3. BS!CompletedIsDone' /\ (success' /\ ~progress'.dropped => ~progress'.error /\ emitted = BqQuery)
  BY <1>1 DEF BqInv, BqDone, BqComplete, BS!CompletedIsDone
<1> QED
  BY <1>1, <1>2, <1>3, BqOver

\* A row leaves the batch: the rows of the query go on after it.
LEMMA BqNextRow ==
  ASSUME BqConfigs, BqInv, call = "emit", batch # <<>>, batch' = Tail(batch),
         progress' \in BqProgress, progress'.seen = progress.seen + 1,
         UNCHANGED <<config, params, pump, item, queue, rows>>, call' \in {"emit", "yielded"}
  PROVE  /\ BqQuery' = BqQuery /\ progress.seen \in Nat /\ progress.seen + 1 <= Len(BqQuery)
         /\ Head(batch) = BqQuery[progress.seen + 1] /\ Head(batch) \in Nat /\ batch' \in Seq(Nat)
         /\ BqTaken' = BqTaken /\ BqPut' = BqPut /\ BqQueued' = BqQueued
         /\ \A i \in 1..Len(batch') : batch'[i] = BqQuery[progress'.seen + i]
<1>1. batch \in Seq(Nat) /\ progress.seen \in Nat /\ BqQuery' = BqQuery /\ BqLive
  BY BqSameQuery DEF BqInv, BqTypes, BqProgress, BqLive
<1>2. /\ Len(batch) \in Nat \ {0} /\ Head(batch) = batch[1] /\ Head(batch) \in Nat
      /\ batch' \in Seq(Nat) /\ Len(batch') = Len(batch) - 1
      /\ \A i \in 1..Len(batch') : batch'[i] = batch[i + 1]
  BY <1>1
<1>3. /\ BqPut <= Len(BqQuery) /\ \A i \in 1..Len(batch) : batch[i] = BqQuery[progress.seen + i]
  BY <1>1 DEF BqInv, BqPlace
<1>4. BqQueued' = BqQueued /\ BqTaken' = BqTaken /\ Len(BqQueued) \in Nat /\ Len(BqQuery) \in Nat
  <2>1. BqQueued' = BqQueued
    BY DEF BqQueued
  <2>2. BqTaken' = BqTaken
    BY <1>1, <1>2 DEF BqTaken
  <2>3. Len(BqQueued) \in Nat
    BY DEF BqInv, BqTypes, BqItem, BqQueued
  <2> QED
    BY <2>1, <2>2, <2>3, BqRows
<1>5. progress.seen + 1 <= Len(BqQuery) /\ BqPut' = BqPut
  BY <1>1, <1>2, <1>3, <1>4 DEF BqPut, BqTaken
<1>6. Head(batch) = BqQuery[progress.seen + 1]
  BY <1>2, <1>3
<1>7. \A i \in 1..Len(batch') : batch'[i] = BqQuery[progress'.seen + i]
  <2> TAKE i \in 1..Len(batch')
  <2>1. i \in Nat /\ i + 1 \in 1..Len(batch)
    BY <1>2
  <2>2. progress.seen + (i + 1) = progress.seen + 1 + i
    <3>1. \A a, b \in Nat : a + (b + 1) = a + 1 + b
      OBVIOUS
    <3> QED
      BY <1>1, <2>1, <3>1
  <2> QED
    BY <1>2, <1>3, <2>1, <2>2
<1> QED
  BY <1>1, <1>2, <1>4, <1>5, <1>6, <1>7

LEMMA BqRowPlace ==
  ASSUME BqConfigs, BqInv, call = "emit", batch # <<>>, batch' = Tail(batch),
         progress' \in BqProgress, progress'.seen = progress.seen + 1,
         UNCHANGED <<config, params, pump, item, queue, getter, rows, stop, success, saved>>,
         call' \in {"emit", "yielded"}, emitted' \in Seq(Nat),
         call' = "yielded" =>
             /\ Len(emitted') > 0 /\ emitted'[Len(emitted')] = Head(batch)
             /\ progress'.cursor = IF config.checkpoint = "none" THEN 0 ELSE Head(batch)
  PROVE  BqTypes' /\ BqThreads' /\ BqPlace'
<1>1. /\ BqQuery' = BqQuery /\ progress.seen \in Nat /\ progress.seen + 1 <= Len(BqQuery)
      /\ Head(batch) = BqQuery[progress.seen + 1] /\ Head(batch) \in Nat /\ batch' \in Seq(Nat)
      /\ BqTaken' = BqTaken /\ BqPut' = BqPut /\ BqQueued' = BqQueued
      /\ \A i \in 1..Len(batch') : batch'[i] = BqQuery[progress'.seen + i]
  BY BqNextRow
<1>2. BqLive /\ BqLive'
  BY DEF BqLive
<1>3. BqTypes'
  BY <1>1 DEF BqInv, BqTypes
<1>4. BqThreads'
  BY <1>2 DEF BqInv, BqThreads
<1>5. /\ BqPut <= Len(BqQuery)
      /\ \A i \in 1..Len(BqQueued) : BqQueued[i] = BqQuery[BqTaken + i]
      /\ pump = "query" => BqPut = 0
      /\ pump = "read" => /\ BqPut + Len(rows) = Len(BqQuery)
                          /\ \A i \in 1..Len(rows) : rows[i] = BqQuery[BqPut + i]
      /\ pump = "put" /\ item.event # "error" =>
            /\ BqPut + Len(item.rows) + Len(rows) = Len(BqQuery)
            /\ \A i \in 1..Len(item.rows) : item.rows[i] = BqQuery[BqPut + i]
            /\ \A i \in 1..Len(rows) : rows[i] = BqQuery[BqPut + Len(item.rows) + i]
      /\ pump = "put" /\ item.event # "batch" => item.rows = <<>>
      /\ pump = "put" /\ item.event = "completed" => rows = <<>>
      /\ queue # <<>> /\ queue[1].event # "batch" => BqQueued = <<>>
      /\ queue # <<>> /\ queue[1].event = "completed" => BqTaken = Len(BqQuery)
  BY <1>2 DEF BqInv, BqPlace
<1>6. call' # "get" /\ progress'.seen > 0 /\ BqQuery'[progress'.seen] = Head(batch)
  BY <1>1
<1>7. BqPlace'
  BY <1>1, <1>5, <1>6 DEF BqPlace
<1> QED
  BY <1>3, <1>4, <1>7

\* A row is after all that were emitted before it.
LEMMA BqOrderNext ==
  ASSUME BqConfigs, BqInv, call = "emit", BqQuery' = BqQuery, progress'.seen = progress.seen + 1,
         progress.seen + 1 <= Len(BqQuery), params' = params, call' \in {"emit", "yielded"},
         \/ emitted' = emitted
         \/ emitted' = Append(emitted, BqQuery[progress.seen + 1])
  PROVE  BqOrder'
<1> DEFINE k == progress.seen
           r == BqQuery[k + 1]
           m == Len(emitted)
<1>1. k \in Nat /\ emitted \in Seq(Nat) /\ m \in Nat /\ BqLive
  BY DEF BqInv, BqTypes, BqProgress, BqLive
<1>2. BqSorted(BqQuery, params) /\ params \in Nat /\ Len(BqQuery) \in Nat
  BY BqRows
<1>3. k + 1 \in 1..Len(BqQuery) /\ r \in Nat /\ r > params /\ BqQuery'[progress'.seen] = r
      /\ progress'.seen > 0
  BY <1>1, <1>2 DEF BqSorted
<1>4. ASSUME NEW i \in 1..m
      PROVE  emitted[i] \in Nat /\ emitted[i] < r /\ emitted[i] > params
             /\ (i > 1 => emitted[i - 1] < emitted[i])
  <2>1. i \in DOMAIN emitted /\ emitted[i] \in Nat
    BY <1>1
  <2>2. k > 0 /\ emitted[i] <= BqQuery[k]
    BY <1>1, <2>1 DEF BqInv, BqOrder
  <2>3. k \in 1..Len(BqQuery) /\ k < k + 1
    <3>1. \A a, b \in Nat : a > 0 /\ a + 1 <= b => a \in 1..b /\ a < a + 1
      OBVIOUS
    <3> HIDE DEF k
    <3> QED
      BY <1>1, <1>2, <2>2, <3>1 DEF k
  <2>4. BqQuery[k] \in Nat /\ BqQuery[k] < r
    BY <1>2, <1>3, <2>3 DEF BqSorted
  <2>5. emitted[i] > params /\ (i > 1 => emitted[i - 1] < emitted[i])
    BY <2>1 DEF BqInv, BqOrder, BS!EmittedInOrder
  <2>6. emitted[i] < r
    BY <1>3, <2>1, <2>2, <2>4
  <2> QED
    BY <2>1, <2>5, <2>6
<1> HIDE DEF r
<1>5. CASE emitted' = emitted
  <2>1. DOMAIN emitted = 1..m
    BY <1>1
  <2>2. \A i \in 1..m : emitted[i] <= r
    BY <1>3, <1>4
  <2> QED
    BY <1>3, <1>4, <1>5, <2>1, <2>2 DEF BqOrder, BS!EmittedInOrder
<1>6. CASE emitted' = Append(emitted, r)
  <2>1. /\ DOMAIN emitted' = 1..(m + 1) /\ emitted'[m + 1] = r
        /\ \A i \in 1..m : emitted'[i] = emitted[i]
    BY <1>1, <1>3, <1>6
  <2>2. ASSUME NEW i \in 1..(m + 1)
        PROVE  emitted'[i] <= r /\ emitted'[i] > params /\ (i > 1 => emitted'[i - 1] < emitted'[i])
    <3>1. CASE i \in 1..m
      <4>1. i > 1 => i - 1 \in 1..m
        BY <1>1, <3>1
      <4>2. emitted'[i] = emitted[i] /\ (i > 1 => emitted'[i - 1] = emitted[i - 1])
        BY <2>1, <3>1, <4>1
      <4>3. emitted[i] < r /\ emitted[i] > params /\ (i > 1 => emitted[i - 1] < emitted[i])
        BY <1>4, <3>1
      <4>4. emitted[i] <= r
        <5>1. emitted[i] \in Nat /\ r \in Nat
          BY <1>3, <1>4, <3>1
        <5> QED
          BY <4>3, <5>1
      <4> QED
        BY <4>2, <4>3, <4>4
    <3>2. CASE i = m + 1
      <4>1. i > 1 => i - 1 \in 1..m
        BY <1>1, <3>2
      <4>2. r <= r
        BY <1>3
      <4> QED
        BY <1>3, <1>4, <2>1, <3>2, <4>1, <4>2
    <3> QED
      BY <1>1, <3>1, <3>2
  <2> QED
    BY <1>3, <2>1, <2>2 DEF BqOrder, BS!EmittedInOrder
<1> QED
  BY <1>5, <1>6 DEF r

\* The progress after a row: it counts as seen, and as the cursor, as dropped or as failed.
BqSeenRow(p) == [p EXCEPT !.seen = p.seen + 1]
BqGiven(p, r) == [p EXCEPT !.cursor = r]
BqLost(p, e) == [p EXCEPT !.error = p.error \/ e, !.dropped = TRUE]
BqFailed(p) == [p EXCEPT !.error = TRUE, !.dropped = TRUE]

LEMMA BqSeenFacts ==
  ASSUME NEW p \in BqProgress, NEW r \in Nat, NEW e \in BOOLEAN
  PROVE  /\ BqGiven(BqSeenRow(p), r) \in BqProgress /\ BqLost(BqSeenRow(p), e) \in BqProgress
         /\ BqFailed(BqSeenRow(p)) \in BqProgress
         /\ BqGiven(BqSeenRow(p), r).seen = p.seen + 1 /\ BqGiven(BqSeenRow(p), r).cursor = r
         /\ BqGiven(BqSeenRow(p), r).error = p.error /\ BqGiven(BqSeenRow(p), r).dropped = p.dropped
         /\ BqLost(BqSeenRow(p), e).seen = p.seen + 1 /\ BqLost(BqSeenRow(p), e).dropped = TRUE
         /\ BqFailed(BqSeenRow(p)).dropped = TRUE
<1>1. /\ BqSeenRow(p) \in BqProgress /\ BqSeenRow(p).seen = p.seen + 1
      /\ BqSeenRow(p).error = p.error /\ BqSeenRow(p).dropped = p.dropped
  BY DEF BqSeenRow, BqProgress
<1> DEFINE q == BqSeenRow(p)
<1> HIDE DEF q
<1>2. q \in BqProgress
  BY <1>1 DEF q
<1>3. /\ BqGiven(q, r) \in BqProgress /\ BqGiven(q, r).seen = q.seen /\ BqGiven(q, r).cursor = r
      /\ BqGiven(q, r).error = q.error /\ BqGiven(q, r).dropped = q.dropped
  BY <1>2 DEF BqProgress, BqGiven
<1>4. BqLost(q, e).seen = q.seen /\ BqLost(q, e).dropped = TRUE
  BY <1>2 DEF BqProgress, BqLost
<1>5. BqLost(q, e) \in BqProgress
  <2>1. (q.error \/ e) \in BOOLEAN
    OBVIOUS
  <2> DEFINE x == q.error \/ e
  <2> HIDE DEF x
  <2>2. [q EXCEPT !.error = x, !.dropped = TRUE] \in BqProgress
    BY <1>2, <2>1 DEF BqProgress, x
  <2> QED
    BY <2>2, Zenon DEF BqLost, x
<1>6. BqFailed(q) \in BqProgress /\ BqFailed(q).dropped = TRUE
  BY <1>2 DEF BqProgress, BqFailed
<1>7. q.seen = p.seen + 1 /\ q.error = p.error /\ q.dropped = p.dropped
  BY <1>1 DEF q
<1>8. /\ BqGiven(q, r).seen = p.seen + 1 /\ BqLost(q, e).seen = p.seen + 1
      /\ BqGiven(q, r).error = p.error /\ BqGiven(q, r).dropped = p.dropped
  BY <1>3, <1>4, <1>7
<1> QED
  BY <1>3, <1>4, <1>5, <1>6, <1>8, Zenon DEF q

\* The row is held by the runner.
LEMMA BqYieldInv ==
  ASSUME BqConfigs, BqInv, call = "emit", batch # <<>>, batch' = Tail(batch),
         progress' \in BqProgress, progress'.seen = progress.seen + 1,
         progress'.cursor = (IF config.checkpoint = "none" THEN 0 ELSE Head(batch)),
         progress'.error = progress.error, progress'.dropped = progress.dropped,
         UNCHANGED <<config, params, pump, item, queue, getter, rows, stop, success, saved, done>>,
         call' = "yielded", emitted' = Append(emitted, Head(batch))
  PROVE  BqInv'
<1>1. /\ BqQuery' = BqQuery /\ progress.seen \in Nat /\ progress.seen + 1 <= Len(BqQuery)
      /\ Head(batch) = BqQuery[progress.seen + 1] /\ Head(batch) \in Nat
  BY BqNextRow
<1>2. emitted \in Seq(Nat)
  BY DEF BqInv, BqTypes
<1>3. /\ emitted' \in Seq(Nat) /\ Len(emitted') = Len(emitted) + 1 /\ Len(emitted) \in Nat
      /\ emitted'[Len(emitted')] = Head(batch)
      /\ \A i \in 1..Len(emitted) : emitted'[i] = emitted[i]
  BY <1>1, <1>2
<1>4. BqTypes' /\ BqThreads' /\ BqPlace'
  BY <1>3, BqRowPlace
<1>5. BqOrder'
  BY <1>1, BqOrderNext
<1>6. BqLive /\ BqLive' /\ BqSeen' = BqSeen
  BY <1>1 DEF BqLive, BqSeen
<1>7. BqDone'
  BY <1>1, <1>6 DEF BqInv, BqDone, BS!CompletedIsDone
<1>8. ~success'
  BY <1>6 DEF BqInv, BqComplete
<1>9. ASSUME ~progress'.dropped
      PROVE  /\ ~progress'.error /\ Len(emitted') = progress'.seen
             /\ \A i \in 1..progress'.seen : emitted'[i] = BqQuery'[i]
  <2>1. /\ ~progress.error /\ Len(emitted) = progress.seen
        /\ \A i \in 1..progress.seen : emitted[i] = BqQuery[i]
    BY <1>6, <1>9 DEF BqInv, BqComplete
  <2>2. ASSUME NEW i \in 1..(progress.seen + 1) PROVE emitted'[i] = BqQuery[i]
    <3>1. CASE i \in 1..progress.seen
      BY <1>3, <2>1, <3>1
    <3>2. CASE i = progress.seen + 1
      BY <1>1, <1>3, <2>1, <3>2
    <3>3. \A n \in Nat : \A k \in 1..(n + 1) : k \in 1..n \/ k = n + 1
      OBVIOUS
    <3>4. i \in 1..progress.seen \/ i = progress.seen + 1
      BY <1>1, <3>3
    <3> QED
      BY <3>1, <3>2, <3>4
  <2>3. Len(emitted') = progress'.seen
    BY <1>3, <2>1
  <2>4. ~progress'.error
    BY <2>1
  <2> QED
    BY <1>1, <2>2, <2>3, <2>4
<1>10. BqComplete'
  BY <1>6, <1>8, <1>9 DEF BqComplete
<1> QED
  BY <1>4, <1>5, <1>7, <1>10 DEF BqInv

\* The row is dropped.
LEMMA BqLostInv ==
  ASSUME BqConfigs, BqInv, call = "emit", batch # <<>>, batch' = Tail(batch),
         progress' \in BqProgress, progress'.seen = progress.seen + 1, progress'.dropped = TRUE,
         UNCHANGED <<config, params, pump, item, queue, getter, rows, stop, success, saved, call, emitted>>,
         done' = done \cup {Head(batch)}
  PROVE  BqInv'
<1>1. /\ BqQuery' = BqQuery /\ progress.seen \in Nat /\ progress.seen + 1 <= Len(BqQuery)
      /\ Head(batch) = BqQuery[progress.seen + 1] /\ Head(batch) \in Nat
  BY BqNextRow
<1>2. emitted' \in Seq(Nat)
  BY DEF BqInv, BqTypes
<1>4. BqTypes' /\ BqThreads' /\ BqPlace'
  BY <1>2, BqRowPlace
<1>5. BqOrder'
  BY <1>1, BqOrderNext
<1>6. BqLive /\ BqLive' /\ BqSeen' = progress.seen + 1 /\ BqSeen = progress.seen
  BY <1>1 DEF BqLive, BqSeen
<1>7. ~success'
  BY <1>6 DEF BqInv, BqComplete
<1>8. /\ config.checkpoint = "none" => params = 0 /\ saved = 0
      /\ 1..saved \subseteq done /\ 1..params \subseteq done
      /\ \A j \in 1..progress.seen : BqQuery[j] \in done
      /\ \A j \in (progress.seen + 1)..Len(BqQuery) : saved < BqQuery[j]
  BY <1>6 DEF BqInv, BqDone
<1>9. Len(BqQuery) \in Nat
  BY BqRows
<1>10. \A j \in 1..(progress.seen + 1) : BqQuery[j] \in done'
  <2> TAKE j \in 1..(progress.seen + 1)
  <2>1. j \in 1..progress.seen \/ j = progress.seen + 1
    BY <1>1
  <2> QED
    BY <1>1, <1>8, <2>1
<1>11. \A j \in (progress.seen + 1 + 1)..Len(BqQuery) : saved < BqQuery[j]
  <2> TAKE j \in (progress.seen + 1 + 1)..Len(BqQuery)
  <2>1. j \in (progress.seen + 1)..Len(BqQuery)
    BY <1>1, <1>9
  <2> QED
    BY <1>8, <2>1
<1>12. BqDone'
  BY <1>1, <1>6, <1>7, <1>8, <1>10, <1>11 DEF BqDone, BS!CompletedIsDone
<1>13. BqComplete'
  BY <1>7 DEF BqComplete
<1> QED
  BY <1>4, <1>5, <1>12, <1>13 DEF BqInv

LEMMA BqEmitInv == ASSUME BqConfigs, BqInv, BS!EmitRow PROVE BqInv'
<1> DEFINE r == Head(batch)
           c == IF config.checkpoint = "none" THEN 0 ELSE r
<1>1. /\ call = "emit" /\ BqLive /\ progress \in BqProgress /\ batch \in Seq(Nat)
      /\ config' = config /\ params' = params /\ pump' = pump /\ item' = item /\ queue' = queue
      /\ rows' = rows /\ success' = success /\ saved' = saved /\ getter' = getter
  BY DEF BS!EmitRow, BS!threadVars, BqInv, BqTypes, BqLive
<1>2. batch # <<>> => r \in Nat /\ c \in Nat
  BY <1>1
<1> HIDE DEF r, c
<1>3. ~success
  BY <1>1 DEF BqInv, BqComplete
<1>4. CASE batch = <<>> /\ call' = "get" /\ UNCHANGED <<stop, batch, progress, emitted, done>>
  <2>1. /\ BqQuery' = BqQuery /\ BqTaken' = BqTaken /\ BqPut' = BqPut /\ BqQueued' = BqQueued
        /\ BqLive' /\ BqSeen' = BqSeen
    BY <1>1, <1>4, BqSameQuery DEF BqTaken, BqPut, BqQueued, BqLive, BqSeen
  <2>2. BqTypes' /\ BqThreads'
    BY <1>1, <1>4, <2>1 DEF BqInv, BqTypes, BqThreads
  <2>3. BqPlace'
    BY <1>1, <1>4, <2>1 DEF BqInv, BqPlace
  <2>4. BqDone'
    BY <1>1, <1>4, <2>1 DEF BqInv, BqDone, BS!CompletedIsDone
  <2>5. BqOrder' /\ BqComplete'
    BY <1>1, <1>4, <2>1 DEF BqInv, BqOrder, BqComplete, BS!EmittedInOrder
  <2> QED
    BY <2>2, <2>3, <2>4, <2>5 DEF BqInv
<1>5. CASE /\ batch # <<>> /\ progress' = BqGiven(BqSeenRow(progress), c)
           /\ emitted' = Append(emitted, r) /\ call' = "yielded" /\ batch' = Tail(batch)
           /\ UNCHANGED <<stop, done>>
  <2>1. TRUE \in BOOLEAN
    OBVIOUS
  <2>2. /\ progress' \in BqProgress /\ progress'.seen = progress.seen + 1 /\ progress'.cursor = c
        /\ progress'.error = progress.error /\ progress'.dropped = progress.dropped
    BY <1>1, <1>2, <1>5, <2>1, BqSeenFacts
  <2> QED
    BY <1>1, <1>5, <2>2, BqYieldInv DEF r, c
<1>6. CASE /\ batch # <<>> /\ progress' = BqLost(BqSeenRow(progress), r \in config.bad)
           /\ done' = done \cup {r} /\ batch' = Tail(batch) /\ UNCHANGED <<call, stop, emitted>>
  <2> DEFINE e == r \in config.bad
  <2>1. e \in BOOLEAN
    OBVIOUS
  <2> HIDE DEF e
  <2>2. progress' \in BqProgress /\ progress'.seen = progress.seen + 1 /\ progress'.dropped = TRUE
    BY <1>1, <1>2, <1>6, <2>1, BqSeenFacts DEF e
  <2> QED
    BY <1>1, <1>6, <2>2, BqLostInv DEF r
<1>7. CASE batch # <<>> /\ progress' = BqFailed(BqSeenRow(progress)) /\ BS!Finish /\ UNCHANGED <<emitted, done>>
  <2>1. TRUE \in BOOLEAN
    OBVIOUS
  <2>2. progress' \in BqProgress
    BY <1>1, <1>2, <1>7, <2>1, BqSeenFacts
  <2>3. /\ ~success' /\ success' \in BOOLEAN /\ queue' \in Seq(BqItem) /\ Len(queue') <= 1
        /\ emitted' \in Seq(Nat) /\ getter' \in BOOLEAN
    BY <1>1, <1>3, <1>7 DEF BqInv, BqTypes
  <2>4. BqTypes'
    BY <1>1, <1>7, <2>2, <2>3, BqFinishTypes
  <2>5. call' \in {"closing", "idle"} /\ BqThreads'
    BY <1>1, <1>7 DEF BS!Finish, BqInv, BqThreads, BqLive
  <2>6. BS!CompletedIsDone'
    BY <2>3 DEF BS!CompletedIsDone
  <2> QED
    BY <1>1, <1>7, <2>3, <2>4, <2>5, <2>6, BqOver
<1> QED
  BY <1>4, <1>5, <1>6, <1>7 DEF BS!EmitRow, BqSeenRow, BqGiven, BqLost, BqFailed, r, c

\* The row the runner has handled is the last one seen; a checkpoint saved then names it.
LEMMA BqHandleInv ==
  ASSUME BqConfigs, BqInv, NEW save \in BOOLEAN, BS!Handle(save)
  PROVE  BqInv' /\ saved <= saved'
<1> DEFINE k == progress.seen
           r == BqQuery[k]
<1>1. /\ call = "yielded" /\ call' = "emit" /\ done' = done \cup {emitted[Len(emitted)]}
      /\ saved' = (IF save /\ progress.cursor # 0 THEN progress.cursor ELSE saved)
      /\ UNCHANGED <<config, pump, item, queue, stop, getter, params, rows, batch, progress, success, emitted>>
  BY DEF BS!Handle, BS!threadVars
<1>2. BqLive /\ BqLive' /\ k \in Nat /\ BqSeen = k - 1 /\ BqSeen' = k /\ saved \in 0..End
  BY <1>1 DEF BqLive, BqSeen, BqInv, BqTypes, BqProgress
<1>3. /\ BqQuery' = BqQuery /\ BqTaken' = BqTaken /\ BqPut' = BqPut /\ BqQueued' = BqQueued
  BY <1>1, BqSameQuery DEF BqTaken, BqPut, BqQueued
<1>4. /\ BqSorted(BqQuery, params) /\ Len(BqQuery) \in Nat /\ End \in Nat /\ params \in Nat
  BY BqRows
<1>5. /\ k > 0 /\ emitted[Len(emitted)] = r
      /\ progress.cursor = (IF config.checkpoint = "none" THEN 0 ELSE r)
      /\ BqPut <= Len(BqQuery)
  BY <1>1, <1>2 DEF BqInv, BqPlace
<1>6. k \in 1..Len(BqQuery)
  <2>1. Len(batch) \in Nat /\ Len(BqQueued) \in Nat
    BY DEF BqInv, BqTypes, BqItem, BqQueued
  <2>2. k + Len(batch) + Len(BqQueued) <= Len(BqQuery)
    BY <1>5 DEF BqPut, BqTaken
  <2>3. \A a, b, c, d \in Nat : a > 0 /\ a + b + c <= d => a \in 1..d
    OBVIOUS
  <2> HIDE DEF k
  <2> QED
    BY <1>2, <1>4, <1>5, <2>1, <2>2, <2>3
<1>7. r \in (params + 1)..End /\ r \in Nat
  BY <1>4, <1>6 DEF BqSorted
<1> HIDE DEF r, k
<1>8. /\ config.checkpoint = "none" => params = 0 /\ saved = 0
      /\ 1..saved \subseteq done /\ 1..params \subseteq done
      /\ \A j \in 1..(k - 1) : BqQuery[j] \in done
      /\ \A j \in (k - 1 + 1)..Len(BqQuery) : saved < BqQuery[j]
  BY <1>2 DEF BqInv, BqDone
<1>9. done' = done \cup {r} /\ saved' \in {saved, r} /\ (config.checkpoint = "none" => saved' = saved)
  BY <1>1, <1>5
<1>10. saved < r
  <2>1. k \in (k - 1 + 1)..Len(BqQuery)
    BY <1>2, <1>6
  <2> QED
    BY <1>8, <2>1 DEF r
<1>11. saved <= saved' /\ saved' \in 0..End
  BY <1>2, <1>4, <1>7, <1>9, <1>10
<1>12. \A j \in 1..k : BqQuery[j] \in done'
  <2> TAKE j \in 1..k
  <2>1. j \in 1..(k - 1) \/ j = k
    BY <1>2
  <2> QED
    BY <1>8, <1>9, <2>1 DEF r
<1>13. \A j \in (k + 1)..Len(BqQuery) : saved' < BqQuery[j]
  <2> TAKE j \in (k + 1)..Len(BqQuery)
  <2>1. j \in 1..Len(BqQuery) /\ k < j /\ j \in (k - 1 + 1)..Len(BqQuery)
    BY <1>2, <1>4, <1>6
  <2>2. r < BqQuery[j] /\ saved < BqQuery[j]
    BY <1>4, <1>6, <1>8, <2>1 DEF BqSorted, r
  <2> QED
    BY <1>9, <2>2
<1>14. 1..r \subseteq done'
  <2> SUFFICES ASSUME NEW x \in 1..r PROVE x \in done'
    OBVIOUS
  <2>1. CASE x <= params
    BY <1>4, <1>8, <1>9, <2>1
  <2>2. CASE ~(x <= params)
    <3>1. x \in (params + 1)..End
      BY <1>4, <1>7, <2>2
    <3>2. PICK j \in 1..Len(BqQuery) : BqQuery[j] = x
      BY <1>4, <3>1 DEF BqSorted
    <3>3. j <= k
      <4>1. ~(k < j)
        <5> SUFFICES ASSUME k < j PROVE FALSE
          OBVIOUS
        <5>1. r < x
          BY <1>4, <1>6, <3>2 DEF BqSorted, r
        <5> QED
          BY <1>7, <5>1
      <4> QED
        BY <1>2, <1>4, <4>1
    <3>4. j \in 1..k
      BY <1>2, <3>3
    <3> QED
      BY <1>12, <3>2, <3>4
  <2> QED
    BY <2>1, <2>2
<1>15. 1..saved' \subseteq done' /\ 1..params \subseteq done'
  BY <1>8, <1>9, <1>14
<1>16. ~success'
  BY <1>1, <1>2 DEF BqInv, BqComplete
<1>17. BqDone'
  BY <1>1, <1>2, <1>3, <1>8, <1>9, <1>12, <1>13, <1>15, <1>16 DEF BqDone, BS!CompletedIsDone
<1>18. BqTypes'
  BY <1>1, <1>11 DEF BqInv, BqTypes
<1>19. BqThreads' /\ BqPlace'
  BY <1>1, <1>2, <1>3 DEF BqInv, BqThreads, BqPlace
<1>20. BqOrder' /\ BqComplete'
  BY <1>1, <1>2, <1>3, <1>16 DEF BqInv, BqOrder, BqComplete, BS!EmittedInOrder
<1> QED
  BY <1>11, <1>17, <1>18, <1>19, <1>20 DEF BqInv

LEMMA BqNextInv == ASSUME BqConfigs, BqInv, [BS!Next]_(BS!vars) PROVE BqInv'
<1>1. CASE UNCHANGED BS!vars
  <2>1. /\ UNCHANGED <<config, call, pump, item, queue, stop, getter, params, rows, batch, progress, success,
                       emitted, done, saved>>
    BY <1>1 DEF BS!vars, BS!threadVars
  <2>2. /\ BqQuery' = BqQuery /\ BqTaken' = BqTaken /\ BqPut' = BqPut /\ BqQueued' = BqQueued
        /\ BqLive' = BqLive /\ BqSeen' = BqSeen
    BY <2>1, BqSameQuery DEF BqTaken, BqPut, BqQueued, BqLive, BqSeen
  <2>3. BqTypes' /\ BqThreads'
    BY <2>1, <2>2 DEF BqInv, BqTypes, BqThreads
  <2>4. BqPlace'
    BY <2>1, <2>2 DEF BqInv, BqPlace
  <2>5. BqDone' /\ BqOrder' /\ BqComplete'
    BY <2>1, <2>2 DEF BqInv, BqDone, BqOrder, BqComplete, BS!CompletedIsDone, BS!EmittedInOrder
  <2> QED
    BY <2>3, <2>4, <2>5 DEF BqInv
<1>2. ASSUME NEW save \in BOOLEAN, BS!Handle(save) PROVE BqInv'
  BY <1>2, BqHandleInv
<1>3. CASE BS!Start \/ BS!StartQuery \/ BS!ReadRows \/ BS!PutItem
  BY <1>3, BqStartInv, BqStartQueryInv, BqReadRowsInv, BqPutItemInv
<1>4. CASE BS!GetItem \/ BS!EmitRow \/ BS!GiveUp \/ BS!GetterReturns \/ BS!Close
  BY <1>4, BqGetItemInv, BqEmitInv, BqGiveUpInv, BqGetterInv, BqCloseInv
<1> QED
  BY <1>1, <1>2, <1>3, <1>4 DEF BS!Next

LEMMA BqAlways == ASSUME BqConfigs PROVE BS!Spec => []BqInv
<1>1. BS!Init => BqInv
  BY BqInitInv
<1>2. BqInv /\ [BS!Next]_(BS!vars) => BqInv'
  BY BqNextInv
<1> QED
  BY <1>1, <1>2, PTL DEF BS!Spec

\* A step handles or drops rows and moves the checkpoint only over rows that are done.
LEMMA BqContractStep ==
  ASSUME BqConfigs, BqInv, BqInv', [BS!Next]_(BS!vars)
  PROVE  [Contract!Step]_(Contract!vars)
<1>1. 1..saved' \subseteq done' /\ saved \in Nat /\ saved' \in Nat
  BY DEF BqInv, BqDone, BqTypes, BqConfigs
<1>2. ASSUME NEW save \in BOOLEAN, BS!Handle(save) PROVE saved <= saved' /\ done \subseteq done'
  <2>1. done' = done \cup {emitted[Len(emitted)]}
    BY <1>2 DEF BS!Handle
  <2> QED
    BY <1>2, <2>1, BqHandleInv
<1>3. CASE \E save \in BOOLEAN : BS!Handle(save)
  BY <1>1, <1>2, <1>3 DEF Contract!Step
<1>4. CASE ~(\E save \in BOOLEAN : BS!Handle(save))
  <2>1. saved' = saved /\ done \subseteq done'
    <3>1. CASE UNCHANGED BS!vars
      BY <3>1 DEF BS!vars
    <3>2. CASE BS!Start \/ BS!StartQuery \/ BS!ReadRows \/ BS!PutItem
      BY <3>2 DEF BS!Start, BS!StartQuery, BS!ReadRows, BS!PutItem
    <3>3. CASE BS!GetItem \/ BS!GiveUp \/ BS!GetterReturns \/ BS!Close
      BY <3>3 DEF BS!GetItem, BS!GiveUp, BS!GetterReturns, BS!Close
    <3>4. CASE BS!EmitRow
      BY <3>4 DEF BS!EmitRow
    <3> QED
      BY <1>4, <3>1, <3>2, <3>3, <3>4 DEF BS!Next
  <2> QED
    BY <1>1, <2>1 DEF Contract!Step
<1> QED
  BY <1>3, <1>4

\* BigQuerySource keeps the contract of a resumable source: a checkpoint passes only rows
\* the runner has handled or the source has dropped, and never goes back, although the pump
\* thread reads ahead of the stream (BigQuerySource.stream, pump_query_batches, build_query).
THEOREM BigQueryResumes == ASSUME BqConfigs PROVE BS!Spec => Contract!Spec
<1>1. BS!Init => Contract!Init
  BY DEF BS!Init, Contract!Init
<1>2. BqInv /\ BqInv' /\ [BS!Next]_(BS!vars) => [Contract!Step]_(Contract!vars)
  BY BqContractStep
<1>3. BS!Spec => []BqInv
  BY BqAlways
<1> QED
  BY <1>1, <1>2, <1>3, PTL DEF BS!Spec, Contract!Spec

\* A stream gives its rows in query order, each once and only those after its checkpoint,
\* whatever the pump has put in the queue (stream, queue_put_with_stop).
THEOREM BigQueryInOrder == ASSUME BqConfigs PROVE BS!Spec => []BS!EmittedInOrder
<1>1. BqInv => BS!EmittedInOrder
  BY DEF BqInv, BqOrder
<1> QED
  BY <1>1, BqAlways, PTL

\* A stream that reports success has given the runner every row there is, those of earlier
\* streams included (the "completed" event of pump_query_batches).
THEOREM BigQueryCompleted == ASSUME BqConfigs PROVE BS!Spec => []BS!CompletedIsDone
<1>1. BqInv => BS!CompletedIsDone
  BY DEF BqInv, BqDone
<1> QED
  BY <1>1, BqAlways, PTL

\* A production report that passes is true: the last stream emitted every row of its query,
\* and the source is ready again (production_report.evaluate, health_snapshot).
THEOREM BigQueryReportIsTrue == ASSUME BqConfigs PROVE BS!Spec => []BS!ReportIsTrue
<1>1. BqInv => BS!ReportIsTrue
  <2> SUFFICES ASSUME BqInv, BS!evaluate(BS!metrics_snapshot) PROVE emitted = BqQuery /\ BS!health_snapshot.ready
    BY DEF BS!ReportIsTrue, BqQuery
  <2>1. call = "idle" /\ success /\ ~progress.dropped
    BY DEF BS!evaluate, BS!metrics_snapshot
  <2>2. emitted = BqQuery /\ ~progress.error
    BY <2>1 DEF BqInv, BqComplete
  <2> QED
    BY <2>1, <2>2 DEF BS!health_snapshot
<1> QED
  BY <1>1, BqAlways, PTL

\* A stream that waits for the queue has something to get, or a pump that will put
\* something: every path on which the pump ends first leaves a last item in the queue
\* (pump_query_batches, queue_put_with_stop).
THEOREM BigQueryNobodyWaits == ASSUME BqConfigs PROVE BS!Spec => []BS!NobodyWaitsForever
<1>1. BqInv => BS!NobodyWaitsForever
  BY DEF BqInv, BqThreads, BqTypes, BqLive, BS!NobodyWaitsForever
<1> QED
  BY <1>1, BqAlways, PTL

-----------------------------------------------------------------------------
(* PostgresDLQ.                                                              *)
PD == INSTANCE PostgresDLQ

PdAssumptions == Letters \subseteq Nat

PdRecs == [id : Nat, letter : Letters \cup {0}, attempt : Nat]
PdTasks == [call : {"idle", "write", "replay", "acknowledge"}, todo : Seq(Letters), sent : Nat,
            rec : PdRecs, epoch : Nat, stage : {"idle", "connect", "run", "commit", "rollback"},
            again : BOOLEAN]
PdConns == [epoch : Nat, up : BOOLEAN, ready : BOOLEAN, view : SUBSET PdRecs,
            dirty : SUBSET Tasks, failed : BOOLEAN, serial : Nat]

PdTypes ==
    /\ task \in [Tasks -> PdTasks] /\ store \subseteq PdRecs /\ hand \in [Letters -> PdRecs]
    /\ conn \in PdConns
    /\ scan \in [todo : Seq(PdRecs), seen : Seq(PdRecs), must : SUBSET PdRecs, open : BOOLEAN]
    /\ mixed \in BOOLEAN

\* Everybody who knows the id of a row means the same letter by it, and no id is ahead of
\* the sequence that gives them.
PdName(x) == <<x.id, x.letter>>
PdNames ==
    {PdName(PD!Nothing)} \cup {PdName(x) : x \in store \cup conn.view}
    \cup {PdName(hand[l]) : l \in Letters} \cup {PdName(task[t].rec) : t \in Tasks} \cup {PdName(scan.todo[i]) : i \in DOMAIN scan.todo}
PdNamed ==
    /\ \A n, m \in PdNames : n[1] = m[1] => n[2] = m[2]
    /\ \A n \in PdNames : n[1] < conn.serial

\* How far a call is.
PdCall(n) ==
    /\ n.stage # "idle" => n.call # "idle"
    /\ n.stage = "connect" => n.sent = 0
    /\ n.stage \in {"connect", "run"} => n.sent < Len(n.todo)
    /\ n.stage = "commit" => n.sent = Len(n.todo) /\ n.sent > 0
    /\ n.call = "replay" => n.rec # PD!Nothing
    /\ n.call = "acknowledge" => n.rec.letter \in removed
PdCalls ==
    /\ \A l \in Letters : hand[l] = PD!Nothing \/ hand[l].letter = l
    /\ \A t \in Tasks : PdCall(task[t]) /\ task[t].epoch <= conn.epoch

\* A table that has the letters it must have, and one in which the statements that a call
\* has sent have had their effect.
PdIds(data) == {x.id : x \in data}
PdLetters(data) == {x.letter : x \in data}
PdGood(data) == written \ removed \subseteq PdLetters(data) /\ gone \cap PdIds(data) = {}
PdDone(n, data) ==
    /\ n.call = "write" => \A i \in 1..n.sent : n.todo[i] \in PdLetters(data) \cup removed
    /\ n.call = "acknowledge" /\ n.sent > 0 => n.rec.id \notin PdIds(data)

\* The effects are in the open transaction, and in the table unless the call is one of
\* those that a rollback undoes.
PdKept ==
    /\ PdGood(store) /\ PdGood(conn.view)
    /\ \A g \in gone : g \in Nat /\ g < conn.serial
    /\ \A t \in Tasks : PD!Mine(t) => /\ PdDone(task[t], conn.view)
                                      /\ t \notin conn.dirty => PdDone(task[t], store)

PdInv == PdTypes /\ PdNamed /\ PdCalls /\ (~mixed => PdKept)

LEMMA PdNothing == PD!Nothing \in PdRecs /\ PD!Nothing.id = 0
  BY DEF PD!Nothing, PdRecs

LEMMA PdIdle ==
  /\ PD!Idle \in PdTasks /\ PdCall(PD!Idle) /\ PD!Idle.epoch = 0 /\ PD!Idle.rec = PD!Nothing
  /\ \A data : PdDone(PD!Idle, data)
<1>1. <<>> \in Seq(Letters)
  OBVIOUS
<1> QED
  BY <1>1, PdNothing DEF PD!Idle, PdTasks, PdCall, PdDone

LEMMA PdInitInv == ASSUME PD!Init PROVE PdInv
<1>1. /\ task = [t \in Tasks |-> PD!Idle] /\ store = {}
      /\ conn = [epoch |-> 1, up |-> TRUE, ready |-> TRUE, view |-> {}, dirty |-> {}, failed |-> FALSE,
                 serial |-> 1]
      /\ scan = PD!NoScan /\ hand = [l \in Letters |-> PD!Nothing]
      /\ written = {} /\ gone = {} /\ mixed = FALSE
  BY DEF PD!Init
<1>2. PD!NoScan \in [todo : Seq(PdRecs), seen : Seq(PdRecs), must : SUBSET PdRecs, open : BOOLEAN]
      /\ DOMAIN PD!NoScan.todo = {}
  <2>1. <<>> \in Seq(PdRecs)
    OBVIOUS
  <2> QED
    BY <2>1 DEF PD!NoScan
<1>3. PdTypes
  BY <1>1, <1>2, PdIdle, PdNothing DEF PdTypes, PdConns
<1>4. PdNames \subseteq {PdName(PD!Nothing)}
  BY <1>1, <1>2, PdIdle DEF PdNames
<1>5. PdNamed
  BY <1>1, <1>4, PdNothing DEF PdNamed, PdName
<1>6. PdCalls
  BY <1>1, PdIdle DEF PdCalls
<1>7. PdKept
  BY <1>1, PdIdle DEF PdKept, PdGood, PD!Mine, PdLetters, PdIds
<1> QED
  BY <1>3, <1>5, <1>6, <1>7 DEF PdInv

LEMMA PdNothingKnown == PdName(PD!Nothing)' = PdName(PD!Nothing)
  BY DEF PdName, PD!Nothing

\* A step that makes nobody know a new name.
LEMMA PdNamesStay ==
  ASSUME PdNamed, PdTypes,
         \A x \in store' : PdName(x) \in PdNames,
         \A x \in conn'.view : PdName(x) \in PdNames,
         \A l \in Letters : PdName(hand'[l]) \in PdNames,
         \A t \in Tasks : PdName(task'[t].rec) \in PdNames,
         \A i \in DOMAIN scan'.todo : PdName(scan'.todo[i]) \in PdNames,
         conn'.serial = conn.serial
  PROVE  PdNamed'
<1>1. PdNames' \subseteq PdNames
  BY PdNothingKnown DEF PdNames, PdName
<1> QED
  BY <1>1 DEF PdNamed

\* Who knows names.
LEMMA PdKnown ==
  /\ PdName(PD!Nothing) \in PdNames
  /\ \A x \in store : PdName(x) \in PdNames
  /\ \A x \in conn.view : PdName(x) \in PdNames
  /\ \A l \in Letters : PdName(hand[l]) \in PdNames
  /\ \A t \in Tasks : PdName(task[t].rec) \in PdNames
  /\ \A i \in DOMAIN scan.todo : PdName(scan.todo[i]) \in PdNames
  BY DEF PdNames

-----------------------------------------------------------------------------
\* A call begins.
LEMMA PdBegin ==
  ASSUME PdInv, NEW t \in Tasks, NEW c \in PdTasks, PD!Begin(t, c), c.sent = 0, Len(c.todo) > 0,
         c.call # "idle", c.call = "replay" => c.rec # PD!Nothing, c.epoch = 0, PdName(c.rec) \in PdNames, removed \subseteq removed',
         c.call = "acknowledge" => c.rec.letter \in removed'
  PROVE  PdInv'
<1> DEFINE n == [c EXCEPT !.stage = "connect"]
<1>1. /\ task' = [task EXCEPT ![t] = n]
      /\ UNCHANGED <<store, conn, scan, hand, written, gone, mixed>>
  BY DEF PD!Begin
<1>2. /\ n \in PdTasks /\ n.stage = "connect" /\ n.sent = 0 /\ n.todo = c.todo /\ n.epoch = 0 /\ n.rec = c.rec
      /\ n.call = c.call
  BY DEF PdTasks
<1> HIDE DEF n
<1>3. \A u \in Tasks : task'[u] = IF u = t THEN n ELSE task[u]
  BY <1>1 DEF PdInv, PdTypes
<1>4. PdTypes'
  BY <1>1, <1>2 DEF PdInv, PdTypes
<1>5. \A u \in Tasks : PdName(task'[u].rec) \in PdNames
  BY <1>2, <1>3, PdKnown
<1>6. PdNamed'
  BY <1>1, <1>5, PdKnown, PdNamesStay DEF PdInv
<1>7. PdCalls'
  <2>1. \A u \in Tasks : PdCall(task[u])' /\ task'[u].epoch <= conn'.epoch
    <3> SUFFICES ASSUME NEW u \in Tasks PROVE PdCall(task[u])' /\ task'[u].epoch <= conn'.epoch
      OBVIOUS
    <3>1. PdCall(task[u]) /\ task[u].epoch <= conn.epoch /\ conn.epoch \in Nat
      BY DEF PdInv, PdCalls, PdTypes, PdConns
    <3> QED
      BY <1>1, <1>2, <1>3, <3>1 DEF PdCall
  <2> QED
    BY <1>1, <2>1 DEF PdInv, PdCalls
<1>8. ASSUME ~mixed PROVE PdKept'
  <2>1. PdKept
    BY <1>8 DEF PdInv
  <2>2. PdGood(store)' /\ PdGood(conn.view)'
    BY <1>1, <2>1 DEF PdKept, PdGood, PdLetters, PdIds
  <2>3. \A data : PdDone(n, data)'
    BY <1>2 DEF PdDone
  <2>4. ASSUME NEW u \in Tasks, PD!Mine(u)'
        PROVE  PdDone(task[u], conn.view)' /\ (u \notin conn'.dirty => PdDone(task[u], store)')
    <3>1. CASE u = t
      BY <1>3, <2>3, <3>1 DEF PdDone, PdLetters, PdIds
    <3>2. CASE u # t
      BY <1>1, <1>3, <2>1, <2>4, <3>2 DEF PdDone, PdLetters, PdIds, PdKept, PD!Mine
    <3> QED
      BY <3>1, <3>2
  <2> QED
    BY <1>1, <2>1, <2>2, <2>4 DEF PdKept
<1> QED
  BY <1>1, <1>4, <1>6, <1>7, <1>8 DEF PdInv

LEMMA PdWrite ==
  ASSUME PdInv, NEW t \in Tasks, NEW letters \in Seq(Letters), PD!Write(t, letters) PROVE PdInv'
<1> DEFINE c == [PD!Idle EXCEPT !.call = "write", !.todo = letters]
<1>1. PD!Begin(t, c) /\ letters # <<>> /\ removed' = removed
  BY DEF PD!Write
<1>2. c \in PdTasks /\ c.sent = 0 /\ c.todo = letters /\ c.epoch = 0 /\ c.rec = PD!Nothing /\ c.call = "write"
  BY PdIdle DEF PdTasks, PD!Idle
<1>3. Len(letters) > 0
  BY <1>1
<1> HIDE DEF c
<1> QED
  BY <1>1, <1>2, <1>3, PdKnown, PdBegin

LEMMA PdHandle ==
  ASSUME PdInv, NEW t \in Tasks, NEW l \in Letters, hand[l] # PD!Nothing,
         NEW verb \in {"replay", "acknowledge"},
         PD!Begin(t, [PD!Idle EXCEPT !.call = verb, !.todo = <<l>>, !.rec = hand[l]]),
         removed \subseteq removed', verb = "acknowledge" => l \in removed'
  PROVE  PdInv'
<1> DEFINE c == [PD!Idle EXCEPT !.call = verb, !.todo = <<l>>, !.rec = hand[l]]
<1>1. hand[l] \in PdRecs /\ hand[l].letter = l
  BY DEF PdInv, PdTypes, PdCalls
<1>7. <<l>> \in Seq(Letters) /\ verb \in {"idle", "write", "replay", "acknowledge"}
  OBVIOUS
<1>2. c \in PdTasks /\ c.sent = 0 /\ c.todo = <<l>> /\ c.epoch = 0 /\ c.rec = hand[l] /\ c.call = verb
  BY <1>1, <1>7, PdIdle DEF PdTasks, PD!Idle
<1>3. Len(<<l>>) > 0
  OBVIOUS
<1> HIDE DEF c
<1>4. PD!Begin(t, c)
  BY DEF c
<1>5. c.call = "acknowledge" => c.rec.letter \in removed'
  BY <1>1, <1>2
<1>6. PdName(c.rec) \in PdNames
  BY <1>2, PdKnown
<1> QED
  BY <1>2, <1>3, <1>4, <1>5, <1>6, PdBegin

LEMMA PdReplay ==
  ASSUME PdInv, NEW t \in Tasks, NEW l \in Letters, PD!Replay(t, l) PROVE PdInv'
  BY PdHandle DEF PD!Replay

LEMMA PdAcknowledge ==
  ASSUME PdInv, NEW t \in Tasks, NEW l \in Letters, PD!Acknowledge(t, l) PROVE PdInv'
  BY PdHandle DEF PD!Acknowledge

-----------------------------------------------------------------------------
\* A step of a call that makes nobody know a new name.
LEMMA PdStep ==
  ASSUME PdInv, NEW t \in Tasks, NEW n \in PdTasks, task' = [task EXCEPT ![t] = n],
         store' \subseteq PdRecs, hand' \in [Letters -> PdRecs],
         conn' \in PdConns,
         conn'.serial = conn.serial, conn.epoch <= conn'.epoch, scan' = scan,
         \A x \in store' : PdName(x) \in PdNames, \A x \in conn'.view : PdName(x) \in PdNames,
         \A l \in Letters : /\ hand'[l] = PD!Nothing \/ hand'[l].letter = l
                            /\ PdName(hand'[l]) \in PdNames,
         PdName(n.rec) \in PdNames, PdCall(n), n.epoch <= conn'.epoch, removed' = removed,
         mixed' \in BOOLEAN, ~mixed' => PdKept'
  PROVE  PdInv'
<1>1. \A u \in Tasks : task'[u] = IF u = t THEN n ELSE task[u]
  BY DEF PdInv, PdTypes
<1>2. PdTypes'
  BY DEF PdInv, PdTypes
<1>3. \A u \in Tasks : PdName(task'[u].rec) \in PdNames
  BY <1>1, PdKnown
<1>4. PdNamed'
  BY <1>3, PdKnown, PdNamesStay DEF PdInv
<1>5. \A u \in Tasks : PdCall(task[u])' /\ task'[u].epoch <= conn'.epoch
  <2> SUFFICES ASSUME NEW u \in Tasks PROVE PdCall(task[u])' /\ task'[u].epoch <= conn'.epoch
    OBVIOUS
  <2>1. PdCall(task[u]) /\ task[u].epoch <= conn.epoch /\ task[u].epoch \in Nat /\ conn.epoch \in Nat
        /\ conn'.epoch \in Nat
    BY DEF PdInv, PdCalls, PdTypes, PdTasks, PdConns
  <2> QED
    BY <1>1, <2>1 DEF PdCall
<1>6. \A l \in Letters : (hand[l] = PD!Nothing)' \/ hand'[l].letter = l
  BY DEF PD!Nothing
<1> QED
  BY <1>2, <1>4, <1>5, <1>6 DEF PdInv, PdCalls

\* What the invariant says of one call.
LEMMA PdOf ==
  ASSUME PdInv, NEW t \in Tasks
  PROVE  /\ task[t] \in PdTasks /\ PdCall(task[t]) /\ task[t].epoch <= conn.epoch
         /\ PdName(task[t].rec) \in PdNames /\ task[t].rec.id < conn.serial
         /\ store \subseteq PdRecs /\ hand \in [Letters -> PdRecs] /\ mixed \in BOOLEAN
         /\ conn \in PdConns /\ conn.epoch \in Nat /\ conn.view \subseteq PdRecs /\ conn.serial \in Nat
         /\ \A l \in Letters : /\ hand[l] = PD!Nothing \/ hand[l].letter = l
                               /\ PdName(hand[l]) \in PdNames
<1>1. PdName(task[t].rec) \in PdNames
  BY PdKnown
<1>2. PdName(task[t].rec)[1] < conn.serial
  BY <1>1 DEF PdInv, PdNamed
<1> QED
  BY <1>1, <1>2, PdKnown DEF PdInv, PdTypes, PdCalls, PdName, PdConns

\* The promises are kept by a step of one call, if the tables and the effects of the calls
\* in the open transaction are.
LEMMA PdKeeps ==
  ASSUME PdInv, PdKept, NEW t \in Tasks, NEW n \in PdTasks, task' = [task EXCEPT ![t] = n],
         removed' = removed, conn'.serial = conn.serial, \A g \in gone' : g \in Nat /\ g < conn.serial,
         PdGood(store)', PdGood(conn.view)',
         conn'.up /\ n.epoch = conn'.epoch => PdDone(n, conn'.view) /\ (t \notin conn'.dirty => PdDone(n, store')),
         \A u \in Tasks \ {t} : conn'.up /\ task[u].epoch = conn'.epoch =>
             PdDone(task[u], conn'.view) /\ (u \notin conn'.dirty => PdDone(task[u], store'))
  PROVE  PdKept'
<1>1. \A u \in Tasks : task'[u] = IF u = t THEN n ELSE task[u]
  BY DEF PdInv, PdTypes
<1>2. ASSUME NEW u \in Tasks, PD!Mine(u)'
      PROVE  PdDone(task[u], conn.view)' /\ (u \notin conn'.dirty => PdDone(task[u], store)')
  <2>1. CASE u = t
    BY <1>1, <1>2, <2>1 DEF PD!Mine, PdDone, PdLetters, PdIds
  <2>2. CASE u # t
    BY <1>1, <1>2, <2>2 DEF PD!Mine, PdDone, PdLetters, PdIds
  <2> QED
    BY <2>1, <2>2
<1> QED
  BY <1>2 DEF PdKept

\* A call that has sent nothing, and an idle one, have no effects.
LEMMA PdNoEffect == ASSUME NEW n \in PdTasks, n.sent = 0, NEW data PROVE PdDone(n, data)
  BY DEF PdDone, PdTasks

\* A connection that is made anew, and one that is given up, see what is committed.
LEMMA PdFresh ==
  ASSUME conn \in PdConns, store \subseteq PdRecs
  PROVE  /\ PD!Fresh \in PdConns /\ PD!Fresh.epoch = conn.epoch + 1 /\ PD!Fresh.serial = conn.serial
         /\ PD!Fresh.view = store /\ PD!Fresh.dirty = {} /\ PD!Fresh.up
<1> DEFINE r == [conn EXCEPT !.epoch = @ + 1, !.up = TRUE]
           q == [r EXCEPT !.view = store, !.dirty = {}]
<1>1. r \in PdConns /\ r.epoch = conn.epoch + 1 /\ r.up /\ r.serial = conn.serial
  <2>1. conn.epoch + 1 \in Nat
    BY DEF PdConns
  <2> DEFINE e == conn.epoch + 1
  <2>2. r = [conn EXCEPT !.epoch = e, !.up = TRUE] /\ e \in Nat
    BY <2>1
  <2> HIDE DEF e, r
  <2>3. r \in PdConns /\ r.epoch = e /\ r.up /\ r.serial = conn.serial
    BY <2>2 DEF PdConns
  <2> QED
    BY <2>3 DEF e
<1>2. PD!Fresh = [q EXCEPT !.failed = FALSE]
  BY DEF PD!Fresh
<1> HIDE DEF r
<1>3. /\ q \in PdConns /\ q.epoch = conn.epoch + 1 /\ q.up /\ q.serial = conn.serial
      /\ q.view = store /\ q.dirty = {}
  BY <1>1 DEF PdConns
<1> HIDE DEF q
<1> QED
  BY <1>2, <1>3 DEF PdConns

LEMMA PdDown ==
  ASSUME conn \in PdConns, store \subseteq PdRecs
  PROVE  /\ PD!Down \in PdConns /\ PD!Down.epoch = conn.epoch /\ PD!Down.serial = conn.serial
         /\ ~PD!Down.up
<1> DEFINE r == [conn EXCEPT !.up = FALSE, !.ready = FALSE, !.view = store]
<1>1. r \in PdConns /\ r.epoch = conn.epoch /\ ~r.up /\ r.serial = conn.serial
  BY DEF PdConns
<1>2. PD!Down = [r EXCEPT !.dirty = {}, !.failed = FALSE]
  BY DEF PD!Down
<1> HIDE DEF r
<1> QED
  BY <1>1, <1>2 DEF PdConns

LEMMA PdConnect == ASSUME PdInv, NEW t \in Tasks, PD!Connect(t) PROVE PdInv'
<1> DEFINE c == IF conn.up THEN conn ELSE PD!Fresh
           ddl == task[t].call = "write" /\ ~c.ready
           ready == [c EXCEPT !.ready = TRUE, !.dirty = {}]
           run == [task[t] EXCEPT !.stage = "run", !.epoch = c.epoch]
<1>1. /\ task[t].stage = "connect"
      /\ scan' = scan /\ hand' = hand /\ written' = written /\ removed' = removed /\ gone' = gone
      /\ mixed' = mixed
      /\ \/ ddl /\ c.failed /\ task' = [task EXCEPT ![t] = PD!Idle] /\ conn' = conn /\ store' = store
         \/ /\ task' = [task EXCEPT ![t] = run]
            /\ \/ ddl /\ conn' = ready /\ store' = c.view
               \/ ~ddl /\ conn' = c /\ store' = store
  BY DEF PD!Connect
<1>2. /\ c \in PdConns
      /\ conn.epoch <= c.epoch /\ (~conn.up => c.epoch > conn.epoch) /\ c.serial = conn.serial
      /\ \/ conn.up /\ c = conn
         \/ ~conn.up /\ c.view = store /\ c.dirty = {}
  <2>1. /\ conn.epoch \in Nat /\ store \subseteq PdRecs
        /\ conn \in PdConns
    BY PdOf
  <2>2. CASE conn.up
    BY <2>1, <2>2
  <2>3. CASE ~conn.up
    <3>1. c = PD!Fresh
      BY <2>3
    <3> QED
      BY <2>1, <2>3, <3>1, PdFresh
  <2> QED
    BY <2>2, <2>3
<1>3. task[t] \in PdTasks /\ task[t].sent = 0 /\ PdCall(task[t])
  BY <1>1, PdOf DEF PdCall
<1>4. /\ run \in PdTasks /\ run.sent = 0 /\ run.epoch = c.epoch /\ PdCall(run) /\ run.rec = task[t].rec /\ run.call = task[t].call
  <2>1. c.epoch \in Nat
    BY <1>2 DEF PdConns
  <2> QED
    BY <1>1, <1>3, <2>1 DEF PdTasks, PdCall
<1>5. /\ ready \in PdConns
      /\ ready.epoch = c.epoch /\ ready.serial = c.serial /\ ready.view = c.view /\ ready.dirty = {}
      /\ ready.up = c.up
  BY <1>2 DEF PdConns
<1>6. \A x \in c.view : PdName(x) \in PdNames
  BY <1>2, PdKnown
<1> HIDE DEF c, run, ready, ddl
<1>7. CASE task' = [task EXCEPT ![t] = PD!Idle] /\ conn' = conn /\ store' = store
  <2>1. ASSUME ~mixed' PROVE PdKept'
    <3>1. PdKept
      BY <1>1, <2>1 DEF PdInv
    <3>2. PdGood(store)' /\ PdGood(conn.view)' /\ \A g \in gone' : g \in Nat /\ g < conn.serial
      BY <1>1, <1>7, <3>1 DEF PdKept, PdGood, PdLetters, PdIds
    <3>3. \A u \in Tasks \ {t} : conn'.up /\ task[u].epoch = conn'.epoch =>
              PdDone(task[u], conn'.view) /\ (u \notin conn'.dirty => PdDone(task[u], store'))
      BY <1>7, <3>1 DEF PdKept, PD!Mine
    <3>4. PdDone(PD!Idle, conn'.view) /\ PdDone(PD!Idle, store')
      BY PdIdle
    <3> QED
      BY <1>1, <1>7, <3>1, <3>2, <3>3, <3>4, PdIdle, PdKeeps
  <2> QED
    <3>1. /\ scan' = scan /\ removed' = removed /\ conn'.serial = conn.serial /\ conn.epoch <= conn'.epoch
          /\ conn' \in PdConns /\ store' \subseteq PdRecs /\ hand' \in [Letters -> PdRecs] /\ mixed' \in BOOLEAN
          /\ PD!Idle.epoch <= conn'.epoch
      BY <1>1, <1>7, PdOf, PdIdle DEF PdConns
    <3>2. /\ \A x \in store' : PdName(x) \in PdNames
          /\ \A x \in conn'.view : PdName(x) \in PdNames
          /\ PdName(PD!Idle.rec) \in PdNames
      BY <1>7, PdKnown, PdIdle
    <3>3. \A l \in Letters : /\ hand'[l] = PD!Nothing \/ hand'[l].letter = l
                             /\ PdName(hand'[l]) \in PdNames
      BY <1>1, PdOf
    <3> QED
      BY <1>7, <2>1, <3>1, <3>2, <3>3, PdIdle, PdStep
<1>8. ASSUME task' = [task EXCEPT ![t] = run], conn' \in PdConns,
             conn'.epoch = c.epoch, conn'.serial = c.serial, conn'.view = c.view, conn'.up = c.up,
             \/ conn'.dirty = c.dirty /\ store' = store
             \/ conn'.dirty = {} /\ store' = c.view
      PROVE  PdInv'
  <2>1. ASSUME ~mixed' PROVE PdKept'
    <3>1. PdKept
      BY <1>1, <2>1 DEF PdInv
    <3>2. PdGood(store)' /\ PdGood(conn.view)' /\ \A g \in gone' : g \in Nat /\ g < conn.serial
      BY <1>1, <1>2, <1>5, <1>8, <3>1 DEF PdKept, PdGood, PdLetters, PdIds
    <3>3. ASSUME NEW u \in Tasks \ {t}, conn'.up, task[u].epoch = conn'.epoch
          PROVE PdDone(task[u], conn'.view) /\ (u \notin conn'.dirty => PdDone(task[u], store'))
      <4>1. conn'.epoch = c.epoch /\ task[u].epoch <= conn.epoch /\ conn.epoch \in Nat /\ c.epoch \in Nat
        BY <1>2, <1>5, <1>8, PdOf DEF PdConns
      <4>2. conn.up /\ c = conn /\ PD!Mine(u)
        BY <1>2, <3>3, <4>1 DEF PD!Mine
      <4>3. PdDone(task[u], conn.view) /\ (u \notin conn.dirty => PdDone(task[u], store))
        BY <3>1, <4>2 DEF PdKept
      <4> QED
        BY <1>5, <1>8, <4>2, <4>3
    <3>4. PdDone(run, conn'.view) /\ PdDone(run, store')
      BY <1>4, PdNoEffect
    <3> QED
      BY <1>1, <1>2, <1>4, <1>5, <1>8, <3>1, <3>2, <3>3, <3>4, PdKeeps
  <2>2. /\ conn' \in PdConns
        /\ conn'.serial = conn.serial /\ conn.epoch <= conn'.epoch /\ run.epoch <= conn'.epoch
        /\ conn'.view = c.view
    BY <1>2, <1>4, <1>5, <1>8 DEF PdConns
  <2>3. store' \subseteq PdRecs /\ \A x \in store' : PdName(x) \in PdNames
    BY <1>2, <1>6, <1>8, PdOf, PdKnown DEF PdConns
  <2>4. hand' \in [Letters -> PdRecs] /\ mixed' \in BOOLEAN
        /\ \A l \in Letters : /\ hand'[l] = PD!Nothing \/ hand'[l].letter = l
                              /\ PdName(hand'[l]) \in PdNames
    BY <1>1, PdOf
  <2>5. PdName(run.rec) \in PdNames
    BY <1>4, PdOf
  <2> QED
    <3>1. scan' = scan /\ removed' = removed /\ \A x \in conn'.view : PdName(x) \in PdNames
      BY <1>1, <1>6, <2>2
    <3> QED
      BY <1>4, <1>8, <2>1, <2>2, <2>3, <2>4, <2>5, <3>1, PdStep
<1>9. CASE task' = [task EXCEPT ![t] = run] /\ ddl /\ conn' = ready /\ store' = c.view
  BY <1>5, <1>8, <1>9
<1>10. CASE task' = [task EXCEPT ![t] = run] /\ ~ddl /\ conn' = c /\ store' = store
  BY <1>2, <1>8, <1>10
<1> QED
  BY <1>1, <1>7, <1>9, <1>10

-----------------------------------------------------------------------------
\* What a statement does to the rows: it takes none away but one that somebody
\* acknowledges, and gives new rows the next id.
LEMMA PdEffect ==
  ASSUME PdInv, NEW t \in Tasks, task[t].stage = "run", NEW n \in PdTasks, n = task[t],
         NEW data, data = conn.view, NEW v, v = PD!Effect(data, n), NEW l, l = n.todo[n.sent + 1]
  PROVE  /\ v \subseteq PdRecs /\ l \in Letters /\ n.sent < Len(n.todo)
         /\ \A x \in v : PdName(x) \in PdNames \/ (n.call = "write" /\ PdName(x) = <<conn.serial, l>>)
         /\ PdLetters(data) \ removed \subseteq PdLetters(v)
         /\ \A i \in PdIds(v) : i \in PdIds(data) \/ i = conn.serial
         /\ n.call = "write" => l \in PdLetters(v)
         /\ n.call = "acknowledge" => n.rec.id \notin PdIds(v) /\ PdIds(v) \subseteq PdIds(data)
<1>1. /\ n.sent < Len(n.todo) /\ n.call # "idle" /\ n.sent \in Nat /\ n.todo \in Seq(Letters)
      /\ n.rec \in PdRecs /\ PdName(n.rec) \in PdNames /\ data \subseteq PdRecs /\ conn.serial \in Nat
      /\ (n.call = "acknowledge" => n.rec.letter \in removed)
  BY PdOf DEF PdTasks, PdCall
<1>2. l \in Letters
  BY <1>1
<1>3. \A x \in data : PdName(x) \in PdNames
  BY PdKnown
<1>4. CASE n.call = "write"
  <2>1. v = PD!Insert(data, l)
    BY <1>4 DEF PD!Effect
  <2>2. PD!NewRow(l) \in PdRecs /\ PD!NewRow(l).letter = l /\ PD!NewRow(l).id = conn.serial
    BY <1>1, <1>2 DEF PD!NewRow, PdRecs
  <2>3. v = data \/ v = data \cup {PD!NewRow(l)}
    BY <2>1 DEF PD!Insert
  <2>4. l \in PdLetters(v)
    BY <2>1, <2>2 DEF PD!Insert, PdLetters
  <2> QED
    BY <1>1, <1>2, <1>3, <1>4, <2>2, <2>3, <2>4 DEF PdLetters, PdIds, PdName
<1>5. CASE n.call = "replay"
  <2> DEFINE Set(row) == IF row.id = n.rec.id THEN [row EXCEPT !.attempt = n.rec.attempt + 1] ELSE row
  <2>1. v = {Set(row) : row \in data}
    BY <1>5 DEF PD!Effect, PD!Update
  <2>2. \A row \in data : Set(row) \in PdRecs /\ Set(row).id = row.id /\ Set(row).letter = row.letter
    BY <1>1 DEF PdRecs
  <2> HIDE DEF Set
  <2>3. v \subseteq PdRecs /\ \A x \in v : PdName(x) \in PdNames
    BY <1>3, <2>1, <2>2 DEF PdName
  <2>4. PdLetters(data) \subseteq PdLetters(v) /\ PdIds(v) \subseteq PdIds(data)
    BY <2>1, <2>2 DEF PdLetters, PdIds
  <2> QED
    BY <1>1, <1>2, <1>5, <2>3, <2>4
<1>6. CASE n.call = "acknowledge"
  <2>1. v = {row \in data : row.id # n.rec.id}
    BY <1>6 DEF PD!Effect, PD!Delete
  <2>2. \A x \in data : x.id = n.rec.id => x.letter \in removed
    <3> SUFFICES ASSUME NEW x \in data, x.id = n.rec.id PROVE x.letter \in removed
      OBVIOUS
    <3>1. PdName(x)[1] = PdName(n.rec)[1] => PdName(x)[2] = PdName(n.rec)[2]
      BY <1>1, <1>3 DEF PdInv, PdNamed
    <3> QED
      BY <1>1, <1>6, <3>1 DEF PdName
  <2>3. v \subseteq PdRecs /\ \A x \in v : PdName(x) \in PdNames
    BY <1>1, <1>3, <2>1
  <2>4. PdLetters(data) \ removed \subseteq PdLetters(v)
    BY <2>1, <2>2 DEF PdLetters
  <2>5. n.rec.id \notin PdIds(v) /\ PdIds(v) \subseteq PdIds(data)
    BY <2>1 DEF PdIds
  <2> QED
    BY <1>1, <1>2, <1>6, <2>3, <2>4, <2>5
<1> QED
  BY <1>1, <1>4, <1>5, <1>6 DEF PdTasks

\* The effects of the other calls outlast a statement, and so do the promises.
LEMMA PdOutlasts ==
  ASSUME PdInv, NEW data, NEW v, PdLetters(data) \ removed \subseteq PdLetters(v),
         \A i \in PdIds(v) : i \in PdIds(data) \/ i = conn.serial
  PROVE  /\ \A u \in Tasks : PdDone(task[u], data) => PdDone(task[u], v)
         /\ (\A g \in gone : g \in Nat /\ g < conn.serial) /\ PdGood(data) => PdGood(v)
<1>1. conn.serial \in Nat /\ \A u \in Tasks : task[u].rec.id < conn.serial
  BY PdOf DEF PdInv, PdTypes, PdConns
<1>2. ~(conn.serial < conn.serial)
  BY <1>1
<1>3. \A u \in Tasks : PdDone(task[u], data) => PdDone(task[u], v)
  <2> SUFFICES ASSUME NEW u \in Tasks, PdDone(task[u], data) PROVE PdDone(task[u], v)
    OBVIOUS
  <2>1. task[u].rec.id # conn.serial
    BY <1>1, <1>2
  <2> QED
    BY <2>1 DEF PdDone
<1>4. (\A g \in gone : g \in Nat /\ g < conn.serial) /\ PdGood(data) => PdGood(v)
  BY <1>2 DEF PdGood
<1> QED
  BY <1>3, <1>4

LEMMA PdExecute == ASSUME PdInv, NEW t \in Tasks, PD!Execute(t) PROVE PdInv'
<1> DEFINE m == task[t]
           l == m.todo[m.sent + 1]
           v == PD!Effect(conn.view, m)
           n == [m EXCEPT !.sent = @ + 1, !.stage = IF m.sent + 1 = Len(m.todo) THEN "commit" ELSE "run"]
           serial == IF m.call = "write" THEN conn.serial + 1 ELSE conn.serial
<1>1. /\ m.stage = "run" /\ PD!Mine(t)
      /\ task' = [task EXCEPT ![t] = n]
      /\ conn' = [conn EXCEPT !.view = v, !.dirty = @ \cup {t}, !.serial = serial]
      /\ store' = store /\ scan' = scan /\ hand' = hand /\ written' = written /\ removed' = removed
      /\ gone' = gone /\ mixed' = mixed
  BY DEF PD!Execute
<1>2. m \in PdTasks /\ PdCall(m) /\ m.epoch <= conn.epoch /\ conn \in PdConns /\ m.rec.id < conn.serial
      /\ conn.serial \in Nat
  BY PdOf
<1>3. /\ v \subseteq PdRecs /\ l \in Letters /\ m.sent < Len(m.todo)
      /\ \A x \in v : PdName(x) \in PdNames \/ (m.call = "write" /\ PdName(x) = <<conn.serial, l>>)
      /\ PdLetters(conn.view) \ removed \subseteq PdLetters(v)
      /\ \A i \in PdIds(v) : i \in PdIds(conn.view) \/ i = conn.serial
      /\ m.call = "write" => l \in PdLetters(v)
      /\ m.call = "acknowledge" => m.rec.id \notin PdIds(v) /\ PdIds(v) \subseteq PdIds(conn.view)
  BY <1>1, <1>2, PdEffect
<1>4. /\ n \in PdTasks /\ PdCall(n) /\ n.sent = m.sent + 1 /\ n.rec = m.rec /\ n.epoch = m.epoch
      /\ n.call = m.call /\ n.todo = m.todo
  <2>1. m.sent + 1 \in Nat /\ Len(m.todo) \in Nat
    BY <1>2 DEF PdTasks
  <2> QED
    <3>1. n.sent = m.sent + 1 /\ n.rec = m.rec /\ n.epoch = m.epoch /\ n.call = m.call /\ n.todo = m.todo
          /\ n.stage = IF m.sent + 1 = Len(m.todo) THEN "commit" ELSE "run"
      BY <1>2 DEF PdTasks
    <3>2. n \in PdTasks
      BY <1>2, <2>1 DEF PdTasks
    <3>3. m.sent \in Nat
      BY <1>2 DEF PdTasks
    <3> HIDE DEF n
    <3>4. PdCall(n)
      BY <1>1, <1>2, <1>3, <2>1, <3>1, <3>3 DEF PdCall
    <3> QED
      BY <3>1, <3>2, <3>4
<1> HIDE DEF v
<1>5. /\ conn' \in PdConns /\ conn'.view = v /\ conn'.dirty = conn.dirty \cup {t} /\ conn'.serial = serial
      /\ conn'.epoch = conn.epoch /\ conn'.up = conn.up
  <2>1. serial \in Nat /\ conn.dirty \cup {t} \in SUBSET Tasks
    BY <1>2 DEF PdConns
  <2> HIDE DEF serial
  <2> QED
    BY <1>1, <1>2, <1>3, <2>1 DEF PdConns
<1>6. conn.serial <= serial /\ (m.call = "write" => conn.serial < serial) /\ serial \in Nat
  BY <1>2
<1> HIDE DEF n, serial
<1>7. \A u \in Tasks : task'[u] = IF u = t THEN n ELSE task[u]
  BY <1>1 DEF PdInv, PdTypes
<1>8. PdTypes'
  BY <1>1, <1>4, <1>5 DEF PdInv, PdTypes
<1>9. PdNamed'
  <2>1. \A x \in PdNames' : x \in PdNames \/ (m.call = "write" /\ x = <<conn.serial, l>>)
    <3>1. \A u \in Tasks : PdName(task'[u].rec) \in PdNames
      BY <1>4, <1>7, PdKnown
    <3> QED
      BY <1>1, <1>3, <1>5, <3>1, PdKnown, PdNothingKnown DEF PdNames, PdName
  <2>2. \A x \in PdNames : x[1] < conn.serial /\ x[1] \in Nat
    <3>1. \A x \in PdRecs : PdName(x)[1] \in Nat
      BY DEF PdRecs, PdName
    <3>2. \A x \in PdNames : \E y \in PdRecs : x = PdName(y)
      BY PdNothing DEF PdNames, PdInv, PdTypes, PdConns, PdTasks
    <3> QED
      BY <3>1, <3>2 DEF PdInv, PdNamed
  <2>3. \A x \in PdNames' : x[1] < serial
    BY <1>2, <1>6, <2>1, <2>2
  <2>4. \A x, y \in PdNames' : x[1] = y[1] => x[2] = y[2]
    BY <1>2, <2>1, <2>2 DEF PdInv, PdNamed
  <2> QED
    BY <1>5, <2>3, <2>4 DEF PdNamed
<1>10. PdCalls'
  <2>1. \A u \in Tasks : PdCall(task[u])' /\ task'[u].epoch <= conn'.epoch
    BY <1>1, <1>2, <1>4, <1>5, <1>7 DEF PdInv, PdCalls, PdCall
  <2> QED
    BY <1>1, <2>1 DEF PdInv, PdCalls, PD!Nothing
<1>11. ASSUME ~mixed' PROVE PdKept'
  <2>1. PdKept
    BY <1>1, <1>11 DEF PdInv
  <2>2. PdGood(v) /\ \A u \in Tasks : PdDone(task[u], conn.view) => PdDone(task[u], v)
    BY <1>3, <2>1, PdOutlasts DEF PdKept
  <2>3. PdGood(store)' /\ PdGood(conn.view)'
    BY <1>1, <1>5, <2>1, <2>2 DEF PdKept, PdGood
  <2>4. \A g \in gone' : g \in Nat /\ g < conn'.serial
    <3>1. \A g \in gone : g \in Nat /\ g < conn.serial
      BY <2>1 DEF PdKept
    <3> QED
      BY <1>1, <1>2, <1>5, <1>6, <3>1
  <2>5. ASSUME NEW u \in Tasks, PD!Mine(u)'
        PROVE  PdDone(task[u], conn.view)' /\ (u \notin conn'.dirty => PdDone(task[u], store)')
    <3>1. CASE u = t
      <4>1. PdDone(m, v)
        BY <1>1, <2>1, <2>2 DEF PdKept
      <4>2. PdDone(n, v)
        <5>1. n.call = "write" => \A i \in 1..n.sent : n.todo[i] \in PdLetters(v) \cup removed
          <6>1. m.sent \in Nat
            BY <1>2 DEF PdTasks
          <6> QED
            BY <1>3, <1>4, <4>1, <6>1 DEF PdDone
        <5> QED
          BY <1>3, <1>4, <5>1 DEF PdDone
      <4> QED
        BY <1>1, <1>5, <1>7, <3>1, <4>2 DEF PdDone
    <3>2. CASE u # t
      <4>1. PD!Mine(u)
        BY <1>5, <1>7, <2>5, <3>2 DEF PD!Mine
      <4> QED
        BY <1>1, <1>5, <1>7, <2>1, <2>2, <3>2, <4>1 DEF PdKept, PdDone
    <3> QED
      BY <3>1, <3>2
  <2> QED
    BY <2>3, <2>4, <2>5 DEF PdKept
<1> QED
  BY <1>8, <1>9, <1>10, <1>11 DEF PdInv

\* What a call that returns leaves behind.
LEMMA PdReturns ==
  ASSUME PdInv, NEW t \in Tasks, PD!Done(t), task[t].stage = "commit", removed' = removed
  PROVE  /\ task' = [task EXCEPT ![t] = PD!Idle] /\ hand' \in [Letters -> PdRecs]
         /\ \A l \in Letters : /\ hand'[l] = PD!Nothing \/ hand'[l].letter = l
                               /\ PdName(hand'[l]) \in PdNames
         /\ \A data : PdGood(data) /\ PdDone(task[t], data) => PdGood(data)'
         /\ (\A g \in gone : g \in Nat /\ g < conn.serial) => \A g \in gone' : g \in Nat /\ g < conn.serial
<1> DEFINE n == task[t]
<1>1. /\ task' = [task EXCEPT ![t] = PD!Idle]
      /\ written' = IF n.call = "write" THEN written \cup PD!ToSet(n.todo) ELSE written
      /\ gone' = IF n.call = "acknowledge" THEN gone \cup {n.rec.id} ELSE gone
      /\ hand' = IF n.call = "replay" /\ hand[n.rec.letter] = n.rec
                 THEN [hand EXCEPT ![n.rec.letter].attempt = @ + 1] ELSE hand
  BY DEF PD!Done
<1>2. /\ n \in PdTasks /\ n.sent = Len(n.todo) /\ n.sent > 0 /\ n.rec \in PdRecs /\ n.rec.id < conn.serial
      /\ n.rec.id \in Nat /\ n.todo \in Seq(Letters)
      /\ (n.call = "replay" => n.rec # PD!Nothing)
  BY PdOf DEF PdCall, PdTasks, PdRecs
<1>3. /\ hand \in [Letters -> PdRecs]
      /\ \A l \in Letters : (hand[l] = PD!Nothing \/ hand[l].letter = l) /\ PdName(hand[l]) \in PdNames
  BY PdOf
<1> HIDE DEF n
<1>4. /\ hand' \in [Letters -> PdRecs]
      /\ \A l \in Letters : /\ hand'[l] = PD!Nothing \/ hand'[l].letter = l
                            /\ PdName(hand'[l]) \in PdNames
  <2>1. CASE n.call = "replay" /\ hand[n.rec.letter] = n.rec
    <3> DEFINE r == n.rec.letter
               h == [n.rec EXCEPT !.attempt = @ + 1]
    <3>1. h \in PdRecs /\ h.id = n.rec.id /\ h.letter = n.rec.letter
      BY <1>2 DEF PdRecs
    <3>2. hand' = [hand EXCEPT ![r] = h]
      BY <1>1, <2>1
    <3> HIDE DEF h, r
    <3>3. \A l \in Letters : hand'[l] = IF l = r THEN h ELSE hand[l]
      BY <1>3, <3>2
    <3>4. r \in Letters => h.letter = r /\ PdName(h) \in PdNames
      BY <1>2, <1>3, <2>1, <3>1 DEF r, PdName
    <3> QED
      BY <1>3, <3>1, <3>2, <3>3, <3>4
  <2>2. CASE ~(n.call = "replay" /\ hand[n.rec.letter] = n.rec)
    BY <1>1, <1>3, <2>2
  <2> QED
    BY <2>1, <2>2
<1>5. ASSUME NEW data, PdGood(data), PdDone(n, data)
      PROVE  written' \ removed' \subseteq PdLetters(data) /\ gone' \cap PdIds(data) = {}
  <2>1. n.call = "write" => \A x \in PD!ToSet(n.todo) : x \in PdLetters(data) \cup removed
    BY <1>2, <1>5 DEF PdDone, PD!ToSet
  <2>2. n.call = "acknowledge" => n.rec.id \notin PdIds(data)
    BY <1>2, <1>5 DEF PdDone
  <2> QED
    BY <1>1, <1>5, <2>1, <2>2 DEF PdGood
<1>6. (\A g \in gone : g \in Nat /\ g < conn.serial) => \A g \in gone' : g \in Nat /\ g < conn.serial
  BY <1>1, <1>2
<1> QED
  BY <1>1, <1>4, <1>5, <1>6 DEF PdGood, n

LEMMA PdCommit == ASSUME PdInv, NEW t \in Tasks, PD!Commit(t) PROVE PdInv'
<1> DEFINE kept == IF conn.failed THEN store ELSE conn.view
<1>1. /\ task[t].stage = "commit" /\ PD!Mine(t) /\ PD!Done(t) /\ store' = kept
      /\ conn' = [conn EXCEPT !.view = kept, !.dirty = {}, !.failed = FALSE]
      /\ mixed' = (mixed \/ conn.failed) /\ scan' = scan /\ removed' = removed
  BY DEF PD!Commit
<1>2. /\ conn \in PdConns /\ store \subseteq PdRecs /\ conn.view \subseteq PdRecs /\ conn.epoch \in Nat
      /\ mixed \in BOOLEAN /\ conn.failed \in BOOLEAN
  BY PdOf DEF PdConns
<1>3. kept \subseteq PdRecs /\ \A x \in kept : PdName(x) \in PdNames
  BY <1>2, PdKnown
<1> HIDE DEF kept
<1>4. /\ conn' \in PdConns /\ conn'.view = kept /\ conn'.dirty = {} /\ conn'.serial = conn.serial
      /\ conn'.epoch = conn.epoch /\ conn'.up = conn.up
  BY <1>1, <1>2, <1>3 DEF PdConns
<1>5. /\ task' = [task EXCEPT ![t] = PD!Idle] /\ hand' \in [Letters -> PdRecs]
      /\ \A l \in Letters : /\ hand'[l] = PD!Nothing \/ hand'[l].letter = l
                            /\ PdName(hand'[l]) \in PdNames
      /\ \A data : PdGood(data) /\ PdDone(task[t], data) => written' \ removed' \subseteq PdLetters(data) /\ gone' \cap PdIds(data) = {}
      /\ (\A g \in gone : g \in Nat /\ g < conn.serial) => \A g \in gone' : g \in Nat /\ g < conn.serial
  BY <1>1, PdReturns DEF PdGood
<1>6. ASSUME ~mixed' PROVE PdKept'
  <2>1. PdKept /\ kept = conn.view
    BY <1>1, <1>2, <1>6 DEF PdInv, kept
  <2>2. PdGood(conn.view) /\ PdDone(task[t], conn.view)
    BY <1>1, <2>1 DEF PdKept
  <2>3. PdGood(store)' /\ PdGood(conn.view)'
    BY <1>1, <1>4, <1>5, <2>1, <2>2 DEF PdGood
  <2>4. \A u \in Tasks \ {t} : conn'.up /\ task[u].epoch = conn'.epoch =>
            PdDone(task[u], conn'.view) /\ (u \notin conn'.dirty => PdDone(task[u], store'))
    BY <1>1, <1>4, <2>1 DEF PdKept, PD!Mine
  <2>5. \A g \in gone' : g \in Nat /\ g < conn.serial
    BY <1>5, <2>1 DEF PdKept
  <2> QED
    BY <1>1, <1>4, <1>5, <2>1, <2>3, <2>4, <2>5, PdIdle, PdKeeps
<1>7. conn.epoch <= conn'.epoch /\ PD!Idle.epoch <= conn'.epoch /\ mixed' \in BOOLEAN
  BY <1>1, <1>2, <1>4, PdIdle
<1>8. PdName(PD!Idle.rec) \in PdNames
  BY PdIdle, PdKnown
<1> QED
  BY <1>1, <1>3, <1>4, <1>5, <1>6, <1>7, <1>8, PdIdle, PdStep

LEMMA PdRefused == ASSUME PdInv, NEW t \in Tasks, PD!Refused(t) PROVE PdInv'
<1> DEFINE n == [task[t] EXCEPT !.stage = "rollback"]
<1>1. /\ task' = [task EXCEPT ![t] = n] /\ conn' = [conn EXCEPT !.failed = TRUE] /\ task[t].stage = "run"
      /\ store' = store /\ scan' = scan /\ hand' = hand /\ written' = written /\ removed' = removed
      /\ gone' = gone /\ mixed' = mixed
  BY DEF PD!Refused
<1>2. n \in PdTasks /\ PdCall(n) /\ n.epoch = task[t].epoch /\ n.rec = task[t].rec
      /\ n.call = task[t].call /\ n.sent = task[t].sent /\ n.todo = task[t].todo
  BY <1>1, PdOf DEF PdTasks, PdCall
<1>3. /\ conn' \in PdConns /\ conn'.view = conn.view /\ conn'.dirty = conn.dirty
      /\ conn'.serial = conn.serial /\ conn'.epoch = conn.epoch /\ conn'.up = conn.up
  <2>1. conn \in PdConns
    BY PdOf
  <2> QED
    BY <1>1, <2>1 DEF PdConns
<1> HIDE DEF n
<1>4. ASSUME ~mixed' PROVE PdKept'
  <2>1. PdKept
    BY <1>1, <1>4 DEF PdInv
  <2>2. PdGood(store)' /\ PdGood(conn.view)' /\ \A g \in gone' : g \in Nat /\ g < conn.serial
    BY <1>1, <1>3, <2>1 DEF PdKept, PdGood
  <2>3. \A u \in Tasks : conn'.up /\ task[u].epoch = conn'.epoch =>
            PdDone(task[u], conn'.view) /\ (u \notin conn'.dirty => PdDone(task[u], store'))
    BY <1>1, <1>3, <2>1 DEF PdKept, PD!Mine
  <2>4. conn'.up /\ n.epoch = conn'.epoch => PdDone(n, conn'.view) /\ (t \notin conn'.dirty => PdDone(n, store'))
    BY <1>2, <2>3 DEF PdDone
  <2> QED
    BY <1>1, <1>2, <1>3, <2>1, <2>2, <2>3, <2>4, PdKeeps
<1>5. /\ store' \subseteq PdRecs /\ hand' \in [Letters -> PdRecs] /\ mixed' \in BOOLEAN
      /\ conn.epoch <= conn'.epoch /\ n.epoch <= conn'.epoch /\ PdName(n.rec) \in PdNames
      /\ \A l \in Letters : /\ hand'[l] = PD!Nothing \/ hand'[l].letter = l
                            /\ PdName(hand'[l]) \in PdNames
  BY <1>1, <1>2, <1>3, PdOf
<1>6. (\A x \in store' : PdName(x) \in PdNames) /\ (\A x \in conn'.view : PdName(x) \in PdNames)
  BY <1>1, <1>3, PdKnown
<1> QED
  BY <1>1, <1>2, <1>3, <1>4, <1>5, <1>6, PdStep

LEMMA PdRollback == ASSUME PdInv, NEW t \in Tasks, PD!Rollback(t) PROVE PdInv'
<1>1. /\ task' = [task EXCEPT ![t] = PD!Idle]
      /\ conn' = IF PD!Mine(t) THEN [conn EXCEPT !.view = store, !.dirty = {}, !.failed = FALSE] ELSE conn
      /\ mixed' = (mixed \/ (PD!Mine(t) /\ conn.dirty \ {t} # {}))
      /\ store' = store /\ scan' = scan /\ hand' = hand /\ written' = written /\ removed' = removed
      /\ gone' = gone
  BY DEF PD!Rollback
<1>2. /\ conn \in PdConns /\ store \subseteq PdRecs /\ conn.epoch \in Nat /\ mixed \in BOOLEAN
      /\ hand \in [Letters -> PdRecs] /\ PD!Mine(t) \in BOOLEAN
      /\ \A l \in Letters : /\ hand[l] = PD!Nothing \/ hand[l].letter = l
                            /\ PdName(hand[l]) \in PdNames
  BY PdOf DEF PD!Mine, PdConns
<1>3. /\ conn' \in PdConns /\ conn'.serial = conn.serial
      /\ conn'.epoch = conn.epoch /\ conn'.up = conn.up
      /\ \/ PD!Mine(t) /\ conn'.view = store /\ conn'.dirty = {}
         \/ ~PD!Mine(t) /\ conn' = conn
  BY <1>1, <1>2 DEF PdConns
<1>4. ASSUME ~mixed' PROVE PdKept'
  <2>1. PdKept /\ ~(PD!Mine(t) /\ conn.dirty \ {t} # {})
    BY <1>1, <1>2, <1>4 DEF PdInv
  <2>2. PdGood(store)' /\ PdGood(conn.view)' /\ \A g \in gone' : g \in Nat /\ g < conn.serial
    BY <1>1, <1>3, <2>1 DEF PdKept, PdGood
  <2>3. ASSUME NEW u \in Tasks \ {t}, conn'.up, task[u].epoch = conn'.epoch
        PROVE  PdDone(task[u], conn'.view) /\ (u \notin conn'.dirty => PdDone(task[u], store'))
    <3>1. PdDone(task[u], conn.view) /\ (u \notin conn.dirty => PdDone(task[u], store))
      BY <1>3, <2>1, <2>3 DEF PdKept, PD!Mine
    <3>2. PD!Mine(t) => u \notin conn.dirty
      BY <2>1
    <3> QED
      BY <1>1, <1>3, <3>1, <3>2
  <2> QED
    BY <1>1, <1>3, <2>1, <2>2, <2>3, PdIdle, PdKeeps
<1>5. /\ conn.epoch <= conn'.epoch /\ PD!Idle.epoch <= conn'.epoch /\ mixed' \in BOOLEAN
      /\ PdName(PD!Idle.rec) \in PdNames
  BY <1>1, <1>2, <1>3, PdIdle, PdKnown
<1>6. (\A x \in store' : PdName(x) \in PdNames) /\ (\A x \in conn'.view : PdName(x) \in PdNames)
  BY <1>1, <1>3, PdKnown
<1>7. /\ store' \subseteq PdRecs /\ hand' \in [Letters -> PdRecs]
      /\ \A l \in Letters : /\ hand'[l] = PD!Nothing \/ hand'[l].letter = l
                            /\ PdName(hand'[l]) \in PdNames
  BY <1>1, <1>2
<1> QED
  BY <1>1, <1>3, <1>4, <1>5, <1>6, <1>7, PdIdle, PdStep

\* The call that a lost connection leaves: it ends, or starts again with nothing sent.
LEMMA PdAgain ==
  ASSUME PdInv, NEW t \in Tasks, task[t].stage \in {"connect", "run", "commit"},
         NEW n, n = IF task[t].again THEN PD!Idle ELSE PD!Again(task[t])
  PROVE  /\ n \in PdTasks /\ PdCall(n) /\ n.sent = 0 /\ n.epoch <= conn.epoch /\ PdName(n.rec) \in PdNames
         /\ \A data : PdDone(n, data)
<1>1. task[t] \in PdTasks /\ PdCall(task[t]) /\ task[t].epoch <= conn.epoch /\ conn.epoch \in Nat
      /\ PdName(task[t].rec) \in PdNames
  BY PdOf
<1>2. CASE task[t].again
  <2>1. n = PD!Idle /\ PD!Idle.sent = 0
    BY <1>2 DEF PD!Idle
  <2>2. PD!Idle.epoch <= conn.epoch /\ PdName(PD!Idle.rec) \in PdNames
    BY <1>1, PdIdle, PdKnown
  <2> QED
    BY <2>1, <2>2, PdIdle
<1>3. CASE ~task[t].again
  <2> DEFINE m == task[t]
  <2>1. n = [m EXCEPT !.stage = "connect", !.again = TRUE, !.sent = 0]
    BY <1>3 DEF PD!Again
  <2>2. n \in PdTasks /\ n.sent = 0 /\ n.stage = "connect" /\ n.call = m.call /\ n.todo = m.todo
        /\ n.rec = m.rec /\ n.epoch = m.epoch
    <3>1. m \in PdTasks
      BY <1>1
    <3> HIDE DEF m
    <3>2. n.sent = 0 /\ n.stage = "connect" /\ n.call = m.call /\ n.todo = m.todo
          /\ n.rec = m.rec /\ n.epoch = m.epoch
      BY <2>1, <3>1 DEF PdTasks
    <3>3. n \in PdTasks
      <4> DEFINE k == [m EXCEPT !.stage = "connect", !.again = TRUE]
      <4>1. k \in PdTasks
        BY <3>1 DEF PdTasks
      <4>2. n = [k EXCEPT !.sent = 0]
        BY <2>1
      <4> HIDE DEF k
      <4> QED
        BY <4>1, <4>2 DEF PdTasks
    <3> QED
      BY <3>2, <3>3
  <2>3. m.sent \in Nat /\ Len(m.todo) \in Nat
    BY <1>1 DEF PdTasks
  <2>4. Len(m.todo) > 0
    BY <1>1, <2>3 DEF PdCall
  <2>5. PdCall(n)
    BY <1>1, <2>2, <2>4 DEF PdCall
  <2> QED
    BY <1>1, <2>2, <2>5, PdNoEffect
<1> QED
  BY <1>2, <1>3

LEMMA PdLost == ASSUME PdInv, NEW t \in Tasks, PD!Lost(t) PROVE PdInv'
<1> DEFINE n == IF task[t].again THEN PD!Idle ELSE PD!Again(task[t])
           breaks == task[t].stage = "connect" \/ PD!Mine(t)
<1>1. /\ task[t].stage \in {"connect", "run", "commit"} /\ task' = [task EXCEPT ![t] = n]
      /\ store' = store \/ (PD!Mine(t) /\ store' = conn.view)
      /\ conn' = IF breaks \/ ~task[t].again THEN [PD!Down EXCEPT !.view = store'] ELSE conn
      /\ scan' = scan /\ hand' = hand /\ written' = written /\ removed' = removed
      /\ gone' = gone /\ mixed' = mixed
  BY DEF PD!Lost
<1>2. /\ n \in PdTasks /\ PdCall(n) /\ n.sent = 0 /\ n.epoch <= conn.epoch /\ PdName(n.rec) \in PdNames
      /\ \A data : PdDone(n, data)
  BY <1>1, PdAgain
<1>3. /\ conn \in PdConns /\ store \subseteq PdRecs /\ conn.view \subseteq PdRecs /\ conn.epoch \in Nat
      /\ mixed \in BOOLEAN /\ hand \in [Letters -> PdRecs]
      /\ \A l \in Letters : /\ hand[l] = PD!Nothing \/ hand[l].letter = l
                            /\ PdName(hand[l]) \in PdNames
  BY PdOf
<1>4. store' \subseteq PdRecs /\ \A x \in store' : PdName(x) \in PdNames
  BY <1>1, <1>3, PdKnown
<1>5. /\ conn' \in PdConns /\ conn'.serial = conn.serial /\ conn'.epoch = conn.epoch
      /\ \/ ~conn'.up /\ conn'.view = store'
         \/ conn' = conn /\ store' = store
  <2>1. CASE breaks \/ ~task[t].again
    <3>1. /\ PD!Down \in PdConns /\ PD!Down.epoch = conn.epoch /\ PD!Down.serial = conn.serial
          /\ ~PD!Down.up /\ conn' = [PD!Down EXCEPT !.view = store']
      BY <1>1, <1>3, <2>1, PdDown
    <3> QED
      BY <1>4, <3>1 DEF PdConns
  <2>2. CASE ~(breaks \/ ~task[t].again)
    BY <1>1, <1>3, <2>2
  <2> QED
    BY <2>1, <2>2
<1> HIDE DEF n, breaks
<1>6. ASSUME ~mixed' PROVE PdKept'
  <2>1. PdKept
    BY <1>1, <1>6 DEF PdInv
  <2>2. PdGood(store)' /\ PdGood(conn.view)' /\ \A g \in gone' : g \in Nat /\ g < conn.serial
    BY <1>1, <1>5, <2>1 DEF PdKept, PdGood
  <2>3. \A u \in Tasks \ {t} : conn'.up /\ task[u].epoch = conn'.epoch =>
            PdDone(task[u], conn'.view) /\ (u \notin conn'.dirty => PdDone(task[u], store'))
    BY <1>5, <2>1 DEF PdKept, PD!Mine
  <2> QED
    BY <1>1, <1>2, <1>5, <2>1, <2>2, <2>3, PdKeeps
<1>7. (\A x \in conn'.view : PdName(x) \in PdNames) /\ conn.epoch <= conn'.epoch /\ n.epoch <= conn'.epoch
      /\ mixed' \in BOOLEAN /\ hand' \in [Letters -> PdRecs]
      /\ \A l \in Letters : /\ hand'[l] = PD!Nothing \/ hand'[l].letter = l
                            /\ PdName(hand'[l]) \in PdNames
  BY <1>1, <1>2, <1>3, <1>4, <1>5, PdKnown
<1> QED
  BY <1>1, <1>2, <1>4, <1>5, <1>6, <1>7, PdStep

-----------------------------------------------------------------------------
\* A step of the source: it changes nothing but what it and its user know of the rows.
LEMMA PdReads ==
  ASSUME PdInv, UNCHANGED <<task, store, conn, written, removed, gone, mixed>>,
         hand' \in [Letters -> PdRecs],
         scan' \in [todo : Seq(PdRecs), seen : Seq(PdRecs), must : SUBSET PdRecs, open : BOOLEAN],
         \A l \in Letters : /\ hand'[l] = PD!Nothing \/ hand'[l].letter = l
                            /\ PdName(hand'[l]) \in PdNames,
         \A i \in DOMAIN scan'.todo : PdName(scan'.todo[i]) \in PdNames
  PROVE  PdInv'
<1>1. PdTypes'
  BY DEF PdInv, PdTypes
<1>2. PdNamed'
  BY PdKnown, PdNamesStay DEF PdInv
<1>3. PdCalls'
  BY DEF PdInv, PdCalls, PdCall, PD!Nothing
<1>4. PdKept => PdKept'
  BY DEF PdKept, PdGood, PdDone, PdLetters, PdIds, PD!Mine
<1> QED
  BY <1>1, <1>2, <1>3, <1>4 DEF PdInv

LEMMA PdScanned ==
  ASSUME PdInv
  PROVE  /\ scan \in [todo : Seq(PdRecs), seen : Seq(PdRecs), must : SUBSET PdRecs, open : BOOLEAN]
         /\ hand \in [Letters -> PdRecs]
         /\ \A l \in Letters : (hand[l] = PD!Nothing \/ hand[l].letter = l) /\ PdName(hand[l]) \in PdNames
         /\ \A i \in DOMAIN scan.todo : PdName(scan.todo[i]) \in PdNames
  BY PdKnown DEF PdInv, PdTypes, PdCalls

LEMMA PdOrder ==
  ASSUME NEW bound, NEW S, NEW order \in PD!BoundedSeq(S, bound)
  PROVE  \E n \in Nat : order \in [1..n -> S]
  BY DEF PD!BoundedSeq, PD!SeqOf

LEMMA PdSelect == ASSUME PdInv, PD!Select PROVE PdInv'
<1> DEFINE read == {PD!AsRead(row) : row \in store}
<1>1. /\ UNCHANGED <<task, store, conn, written, removed, gone, mixed>>
      /\ hand' = [l \in Letters |-> PD!Nothing]
      /\ \E order \in PD!BoundedSeq(read, PD!Cardinality(Letters)) :
             scan' = [todo |-> order, seen |-> <<>>, must |-> store, open |-> TRUE]
  BY DEF PD!Select
<1>2. PICK order \in PD!BoundedSeq(read, PD!Cardinality(Letters)) :
             scan' = [todo |-> order, seen |-> <<>>, must |-> store, open |-> TRUE]
  BY <1>1
<1>3. store \subseteq PdRecs /\ \A x \in store : PdName(x) \in PdNames
  BY PdKnown DEF PdInv, PdTypes
<1>4. \A row \in store : /\ PD!AsRead(row) \in PdRecs
                         /\ PdName(PD!AsRead(row)) = PdName(row)
  BY <1>3 DEF PD!AsRead, PD!Decrypted, PdRecs, PdName
<1>5. \A x \in read : x \in PdRecs /\ PdName(x) \in PdNames
  BY <1>3, <1>4
<1>6. order \in Seq(PdRecs) /\ \A i \in DOMAIN order : PdName(order[i]) \in PdNames
  <2>1. PICK n \in Nat : order \in [1..n -> read]
    BY PdOrder
  <2> HIDE DEF read
  <2> QED
    BY <1>5, <2>1
<1>7. hand' \in [Letters -> PdRecs] /\ \A l \in Letters : hand'[l] = PD!Nothing /\ PdName(hand'[l]) \in PdNames
  BY <1>1, PdNothing, PdKnown
<1>8. scan' \in [todo : Seq(PdRecs), seen : Seq(PdRecs), must : SUBSET PdRecs, open : BOOLEAN]
      /\ scan'.todo = order
  BY <1>2, <1>3, <1>6
<1> QED
  BY <1>1, <1>6, <1>7, <1>8, PdReads

LEMMA PdOffer == ASSUME PdInv, PD!Offer PROVE PdInv'
<1> DEFINE rec == Head(scan.todo)
           due == rec.attempt < MaxAttempts
<1>1. /\ UNCHANGED <<task, store, conn, written, removed, gone, mixed>> /\ scan.todo # <<>>
      /\ scan' = [scan EXCEPT !.todo = Tail(@), !.seen = IF due THEN Append(@, rec) ELSE @]
      /\ hand' = IF due THEN [hand EXCEPT ![rec.letter] = rec] ELSE hand
  BY DEF PD!Offer
<1>2. /\ scan \in [todo : Seq(PdRecs), seen : Seq(PdRecs), must : SUBSET PdRecs, open : BOOLEAN]
      /\ hand \in [Letters -> PdRecs]
      /\ \A l \in Letters : (hand[l] = PD!Nothing \/ hand[l].letter = l) /\ PdName(hand[l]) \in PdNames
      /\ \A i \in DOMAIN scan.todo : PdName(scan.todo[i]) \in PdNames
  BY PdScanned
<1>3. rec \in PdRecs /\ PdName(rec) \in PdNames /\ Tail(scan.todo) \in Seq(PdRecs)
      /\ Append(scan.seen, rec) \in Seq(PdRecs)
      /\ \A i \in DOMAIN Tail(scan.todo) : PdName(Tail(scan.todo)[i]) \in PdNames
  <2>1. scan.todo \in Seq(PdRecs) /\ scan.seen \in Seq(PdRecs)
    BY <1>2
  <2> QED
    BY <1>1, <1>2, <2>1
<1> HIDE DEF rec
<1>4. /\ scan' \in [todo : Seq(PdRecs), seen : Seq(PdRecs), must : SUBSET PdRecs, open : BOOLEAN]
      /\ scan'.todo = Tail(scan.todo)
  BY <1>1, <1>2, <1>3
<1>5. /\ hand' \in [Letters -> PdRecs]
      /\ \A l \in Letters : (hand'[l] = PD!Nothing \/ hand'[l].letter = l) /\ PdName(hand'[l]) \in PdNames
  BY <1>1, <1>2, <1>3
<1> QED
  BY <1>1, <1>3, <1>4, <1>5, PdReads

LEMMA PdScanEnds == ASSUME PdInv, PD!ScanEnds PROVE PdInv'
<1>1. /\ UNCHANGED <<task, store, conn, written, removed, gone, mixed>> /\ hand' = hand
      /\ scan' = PD!NoScan
  BY DEF PD!ScanEnds
<1>2. scan' \in [todo : Seq(PdRecs), seen : Seq(PdRecs), must : SUBSET PdRecs, open : BOOLEAN]
      /\ DOMAIN scan'.todo = {}
  <2>1. <<>> \in Seq(PdRecs)
    OBVIOUS
  <2> QED
    BY <1>1, <2>1 DEF PD!NoScan
<1> QED
  BY <1>1, <1>2, PdScanned, PdReads

LEMMA PdNextInv == ASSUME PdInv, [PD!Next]_PD!vars PROVE PdInv'
<1>1. CASE UNCHANGED PD!vars
  BY <1>1, PdScanned, PdReads DEF PD!vars
<1>2. ASSUME NEW t \in Tasks, NEW l \in Letters,
             PD!Write(t, <<l>>) \/ PD!Replay(t, l) \/ PD!Acknowledge(t, l)
      PROVE  PdInv'
  <2>1. <<l>> \in Seq(Letters)
    OBVIOUS
  <2> QED
    BY <1>2, <2>1, PdWrite, PdReplay, PdAcknowledge
<1>3. ASSUME NEW t \in Tasks, NEW l \in Letters, NEW m \in Letters, PD!Write(t, <<l, m>>) PROVE PdInv'
  <2>1. <<l, m>> \in Seq(Letters)
    OBVIOUS
  <2> QED
    BY <1>3, <2>1, PdWrite
<1>4. ASSUME NEW t \in Tasks, \/ PD!Connect(t) \/ PD!Execute(t) \/ PD!Commit(t) \/ PD!Refused(t)
                              \/ PD!Rollback(t) \/ PD!Lost(t)
      PROVE  PdInv'
  BY <1>4, PdConnect, PdExecute, PdCommit, PdRefused, PdRollback, PdLost
<1>5. CASE PD!Select \/ PD!Offer \/ PD!ScanEnds
  BY <1>5, PdSelect, PdOffer, PdScanEnds
<1> QED
  BY <1>1, <1>2, <1>3, <1>4, <1>5 DEF PD!Next

\* A letter is in the table from the return of write() until somebody acknowledges it, and
\* not after acknowledge() has returned, unless a rollback undid what another call had sent.
THEOREM DeadLettersKept == PD!Spec => []PD!LettersKept
<1>1. PD!Init => PdInv
  BY PdInitInv
<1>2. PdInv /\ [PD!Next]_PD!vars => PdInv'
  BY PdNextInv
<1>3. PdInv => PD!LettersKept
  BY DEF PdInv, PdKept, PdGood, PdLetters, PdIds, PD!LettersKept
<1> QED
  BY <1>1, <1>2, <1>3, PTL DEF PD!Spec

-----------------------------------------------------------------------------
\* A scan goes through the letters in order; one that was there has been offered or is
\* still to come.
PdScan ==
    scan.open =>
        /\ \A i, j \in DOMAIN scan.todo : i < j => scan.todo[i].letter < scan.todo[j].letter
        /\ \A i \in DOMAIN scan.seen, j \in DOMAIN scan.todo : scan.seen[i].letter < scan.todo[j].letter
        /\ \A i, j \in DOMAIN scan.seen : i < j => scan.seen[i].letter < scan.seen[j].letter
        /\ \A row \in scan.must : PD!AsRead(row).attempt < MaxAttempts =>
              \/ \E i \in DOMAIN scan.seen : scan.seen[i] = PD!AsRead(row)
              \/ \E i \in DOMAIN scan.todo : scan.todo[i] = PD!AsRead(row)

LEMMA PdScanStays == ASSUME PdScan, scan' = scan, config' = config PROVE PdScan'
  BY DEF PdScan, PD!AsRead, PD!Decrypted

LEMMA PdScanSelect == ASSUME PdScan, PD!Select PROVE PdScan'
<1> DEFINE read == {PD!AsRead(row) : row \in store}
<1>1. PICK order \in PD!BoundedSeq(read, PD!Cardinality(Letters)) :
          /\ PD!ToSet(order) = read
          /\ \A i, j \in DOMAIN order : i < j => order[i].letter < order[j].letter
          /\ scan' = [todo |-> order, seen |-> <<>>, must |-> store, open |-> TRUE]
  BY DEF PD!Select
<1>2. config' = config
  BY DEF PD!Select
<1>3. \A row \in store : \E i \in DOMAIN order : order[i] = PD!AsRead(row)
  BY <1>1 DEF PD!ToSet
<1>4. scan'.todo = order /\ scan'.seen = <<>> /\ scan'.must = store /\ DOMAIN scan'.seen = {}
  BY <1>1
<1> HIDE DEF read
<1> QED
  BY <1>1, <1>2, <1>3, <1>4 DEF PdScan, PD!AsRead, PD!Decrypted

\* A record's letter is the number of a letter, or 0 for none.
LEMMA PdLetterNat == ASSUME PdAssumptions PROVE \A x \in PdRecs : x.letter \in Nat
<1>1. Letters \cup {0} \subseteq Nat
  BY DEF PdAssumptions
<1>2. \A x \in PdRecs : x.letter \in Letters \cup {0}
  BY DEF PdRecs
<1> QED
  BY <1>1, <1>2

\* The head of the letters to come is passed on or passed over.
LEMMA PdScanOffer == ASSUME PdInv, PdAssumptions, PdScan, PD!Offer PROVE PdScan'
<1> DEFINE todo == scan.todo
           seen == scan.seen
           rec == Head(todo)
           due == rec.attempt < MaxAttempts
           later == Tail(todo)
           offered == Append(seen, rec)
<1>1. /\ scan.open /\ todo # <<>> /\ config' = config
      /\ scan' = [scan EXCEPT !.todo = later, !.seen = IF due THEN offered ELSE seen]
  BY DEF PD!Offer
<1>2. scan \in [todo : Seq(PdRecs), seen : Seq(PdRecs), must : SUBSET PdRecs, open : BOOLEAN]
  BY DEF PdInv, PdTypes
<1>3. todo \in Seq(PdRecs) /\ seen \in Seq(PdRecs)
  BY <1>2
<1>4. /\ \A i, j \in DOMAIN todo : i < j => todo[i].letter < todo[j].letter
      /\ \A i \in DOMAIN seen, j \in DOMAIN todo : seen[i].letter < todo[j].letter
      /\ \A i, j \in DOMAIN seen : i < j => seen[i].letter < seen[j].letter
      /\ \A row \in scan.must : PD!AsRead(row).attempt < MaxAttempts =>
            (\E i \in DOMAIN seen : seen[i] = PD!AsRead(row)) \/ \E i \in DOMAIN todo : todo[i] = PD!AsRead(row)
  BY <1>1 DEF PdScan
<1>5. /\ scan'.todo = later /\ scan'.seen = IF due THEN offered ELSE seen
      /\ scan'.must = scan.must
  BY <1>1, <1>2
<1> HIDE DEF todo, seen, later, offered, rec, due
<1>6. /\ \A i, j \in DOMAIN later : i < j => later[i].letter < later[j].letter
      /\ \A i \in DOMAIN seen, j \in DOMAIN later : seen[i].letter < later[j].letter
      /\ \A i \in DOMAIN offered, j \in DOMAIN later : offered[i].letter < later[j].letter
      /\ \A i, j \in DOMAIN offered : i < j => offered[i].letter < offered[j].letter
      /\ \A i \in DOMAIN todo : todo[i] = rec \/ \E j \in DOMAIN later : later[j] = todo[i]
      /\ \A i \in DOMAIN seen : offered[i] = seen[i] /\ i \in DOMAIN offered
      /\ \E i \in DOMAIN offered : offered[i] = rec
  <2>1. later = Tail(todo) /\ offered = Append(seen, Head(todo)) /\ rec = Head(todo) /\ Letters \subseteq Nat
    BY DEF PdAssumptions, later, offered, rec
  <2>2. /\ \A i, j \in DOMAIN todo : i < j => todo[i].letter < todo[j].letter
        /\ \A i \in DOMAIN seen, j \in DOMAIN todo : seen[i].letter < todo[j].letter
        /\ \A i, j \in DOMAIN seen : i < j => seen[i].letter < seen[j].letter
    BY <1>4
  <2>3. todo \in Seq(PdRecs) /\ seen \in Seq(PdRecs) /\ todo # <<>>
    BY <1>1, <1>3
  <2> USE <2>1, <2>2, <2>3
  <2>4. /\ Len(todo) \in Nat /\ Len(todo) > 0 /\ Head(todo) = todo[1] /\ 1 \in DOMAIN todo
        /\ DOMAIN todo = 1..Len(todo) /\ DOMAIN seen = 1..Len(seen) /\ Len(seen) \in Nat
    OBVIOUS
  <2>5. DOMAIN later = 1..(Len(todo) - 1) /\ \A i \in DOMAIN later : later[i] = todo[i + 1] /\ i + 1 \in DOMAIN todo
    BY <2>4
  <2>6. DOMAIN offered = 1..(Len(seen) + 1) /\ offered[Len(seen) + 1] = todo[1]
        /\ \A i \in DOMAIN seen : offered[i] = seen[i] /\ i \in DOMAIN offered
    BY <2>4
  <2>7. \A i \in DOMAIN offered : i = Len(seen) + 1 \/ i \in DOMAIN seen
    BY <2>4, <2>6
  <2>13. ASSUME NEW i \in DOMAIN todo, NEW j \in DOMAIN todo, i < j PROVE todo[i].letter < todo[j].letter
    BY <2>13
  <2>8. \A i, j \in DOMAIN later : i < j => later[i].letter < later[j].letter
    <3> SUFFICES ASSUME NEW i \in DOMAIN later, NEW j \in DOMAIN later, i < j
                 PROVE  later[i].letter < later[j].letter
      OBVIOUS
    <3>1. i + 1 < j + 1
      BY <2>4, <2>5
    <3>2. todo[i + 1].letter < todo[j + 1].letter
      BY <2>5, <3>1
    <3> QED
      BY <2>5, <3>2
  <2>9. \A j \in DOMAIN later : 1 < j + 1 /\ todo[1].letter < todo[j + 1].letter
    <3> SUFFICES ASSUME NEW j \in DOMAIN later PROVE 1 < j + 1 /\ todo[1].letter < todo[j + 1].letter
      OBVIOUS
    <3>1. 1 < j + 1
      BY <2>4, <2>5
    <3> QED
      BY <2>4, <2>5, <3>1
  <2>10. \A i \in DOMAIN todo : todo[i] = Head(todo) \/ \E j \in DOMAIN later : later[j] = todo[i]
    <3> SUFFICES ASSUME NEW i \in DOMAIN todo, i # 1 PROVE \E j \in DOMAIN later : later[j] = todo[i]
      BY <2>4
    <3>1. i - 1 \in DOMAIN later /\ later[i - 1] = todo[i]
      BY <2>4, <2>5
    <3> QED
      BY <3>1
  <2>11. \A i, j \in DOMAIN offered : i < j => offered[i].letter < offered[j].letter
    <3> SUFFICES ASSUME NEW i \in DOMAIN offered, NEW j \in DOMAIN offered, i < j
                 PROVE  offered[i].letter < offered[j].letter
      OBVIOUS
    <3>1. i \in DOMAIN seen
      BY <2>4, <2>6, <2>7
    <3>2. CASE j \in DOMAIN seen
      BY <2>6, <3>1, <3>2
    <3>3. CASE j = Len(seen) + 1
      BY <2>4, <2>6, <3>1, <3>3
    <3> QED
      BY <2>7, <3>2, <3>3
  <2>12. \A i \in DOMAIN offered, j \in DOMAIN later : offered[i].letter < later[j].letter
    BY <2>4, <2>5, <2>6, <2>7, <2>9
  <2> QED
    BY <2>4, <2>5, <2>6, <2>8, <2>10, <2>11, <2>12
<1>7. ASSUME NEW row \in scan.must, PD!AsRead(row).attempt < MaxAttempts
      PROVE  \/ \E i \in DOMAIN scan'.seen : scan'.seen[i] = PD!AsRead(row)
             \/ \E i \in DOMAIN scan'.todo : scan'.todo[i] = PD!AsRead(row)
  <2>1. CASE \E i \in DOMAIN seen : seen[i] = PD!AsRead(row)
    BY <1>5, <1>6, <2>1
  <2>2. CASE \E i \in DOMAIN todo : todo[i] = PD!AsRead(row)
    <3>1. PD!AsRead(row) = rec => due
      BY <1>7 DEF due
    <3> QED
      BY <1>5, <1>6, <2>2, <3>1
  <2> QED
    BY <1>4, <1>7, <2>1, <2>2
<1>8. /\ \A i, j \in DOMAIN scan'.todo : i < j => scan'.todo[i].letter < scan'.todo[j].letter
      /\ \A i \in DOMAIN scan'.seen, j \in DOMAIN scan'.todo : scan'.seen[i].letter < scan'.todo[j].letter
      /\ \A i, j \in DOMAIN scan'.seen : i < j => scan'.seen[i].letter < scan'.seen[j].letter
  BY <1>4, <1>5, <1>6
<1> QED
  BY <1>1, <1>5, <1>7, <1>8 DEF PdScan, PD!AsRead, PD!Decrypted

LEMMA PdScanNext == ASSUME PdInv, PdAssumptions, PdScan, [PD!Next]_PD!vars PROVE PdScan'
<1>1. CASE UNCHANGED PD!vars
  BY <1>1, PdScanStays DEF PD!vars
<1>2. ASSUME NEW t \in Tasks,
             \/ \E l \in Letters : PD!Write(t, <<l>>) \/ PD!Replay(t, l) \/ PD!Acknowledge(t, l)
             \/ \E l, m \in Letters : PD!Write(t, <<l, m>>)
      PROVE  PdScan'
  BY <1>2, PdScanStays DEF PD!Write, PD!Replay, PD!Acknowledge, PD!Begin
<1>3. ASSUME NEW t \in Tasks, \/ PD!Connect(t) \/ PD!Execute(t) \/ PD!Commit(t) \/ PD!Refused(t)
                              \/ PD!Rollback(t) \/ PD!Lost(t)
      PROVE  PdScan'
  <2>1. scan' = scan /\ config' = config
    BY <1>3 DEF PD!Connect, PD!Execute, PD!Commit, PD!Refused, PD!Rollback, PD!Lost
  <2> QED
    BY <2>1, PdScanStays
<1>4. CASE PD!ScanEnds
  BY <1>4 DEF PD!ScanEnds, PD!NoScan, PdScan
<1> QED
  BY <1>1, <1>2, <1>3, <1>4, PdScanSelect, PdScanOffer DEF PD!Next

\* A scan that ends has offered every letter that was there when it began, with attempts
\* left, and none twice.
THEOREM DeadLettersScanned == ASSUME PdAssumptions PROVE PD!Spec => []PD!ScanIsTrue
<1>1. PD!Init => PdInv /\ PdScan
  <2>1. PD!Init => scan = PD!NoScan
    BY DEF PD!Init
  <2>2. scan = PD!NoScan => PdScan
    BY DEF PD!NoScan, PdScan
  <2> QED
    BY <2>1, <2>2, PdInitInv
<1>2. PdInv /\ PdScan /\ [PD!Next]_PD!vars => (PdInv /\ PdScan)'
  BY PdNextInv, PdScanNext
<1>3. PdInv /\ PdScan => PD!ScanIsTrue
  <2> SUFFICES ASSUME PdInv, PdScan, scan.open, scan.todo = <<>>
               PROVE  /\ PD!IsInjective([i \in DOMAIN scan.seen |-> scan.seen[i].letter])
                      /\ \A row \in scan.must : PD!AsRead(row).attempt < MaxAttempts =>
                             PD!AsRead(row) \in PD!ToSet(scan.seen)
    BY DEF PD!ScanIsTrue
  <2>1. scan.seen \in Seq(PdRecs) /\ DOMAIN scan.todo = {}
    BY DEF PdInv, PdTypes
  <2>2. \A i \in DOMAIN scan.seen : i \in Nat /\ scan.seen[i].letter \in Nat
    <3>1. \A x \in PdRecs : x.letter \in Nat
      BY PdLetterNat
    <3>2. \A i \in DOMAIN scan.seen : i \in Nat /\ scan.seen[i] \in PdRecs
      BY <2>1
    <3> QED
      BY <3>1, <3>2
  <2>3. \A i, j \in DOMAIN scan.seen : scan.seen[i].letter = scan.seen[j].letter => i = j
    <3> SUFFICES ASSUME NEW i \in DOMAIN scan.seen, NEW j \in DOMAIN scan.seen,
                        scan.seen[i].letter = scan.seen[j].letter, i # j PROVE FALSE
      OBVIOUS
    <3>1. i < j \/ j < i
      BY <2>2
    <3>2. scan.seen[i].letter < scan.seen[j].letter \/ scan.seen[j].letter < scan.seen[i].letter
      BY <3>1 DEF PdScan
    <3> QED
      BY <2>2, <3>2
  <2>4. PD!IsInjective([i \in DOMAIN scan.seen |-> scan.seen[i].letter])
    BY <2>3 DEF PD!IsInjective
  <2> QED
    BY <2>1, <2>4 DEF PdScan, PD!ToSet
<1> QED
  BY <1>1, <1>2, <1>3, PTL DEF PD!Spec

-----------------------------------------------------------------------------
\* With one caller every replay counts, unless the payload is encrypted.
PdFew == \A c \in Configs : IsFiniteSet(c.writers \cup c.handlers)
PdCounted == PD!OneCaller /\ ~config.sealed

\* An open transaction, and a failed one, belongs to a call.
PdOpen(t) == task[t].stage \in {"run", "commit", "rollback"} /\ PD!Mine(t)
PdOwned ==
    /\ conn.view = store \/ \E t \in Tasks : PdOpen(t)
    /\ conn.failed => \E t \in Tasks : PdOpen(t) /\ task[t].stage = "rollback"

\* A letter has one row; until somebody acknowledges it the row stays, and has no fewer
\* attempts than the letter has counted replays.
PdRows(data, counts, out) ==
    /\ \A x \in data : x.letter \in Letters
    /\ \A x, y \in data : x.letter = y.letter => x = y
    /\ \A x \in data : x.letter \notin out => x.attempt >= counts[x.letter]
    /\ \A l \in Letters \ out : counts[l] > 0 => \E x \in data : x.letter = l
PdHas(data, x) == \E y \in data : y.letter = x.letter /\ y.id = x.id

\* What a scan read of a letter is its row, as long as nobody acknowledges it.
PdSteady(x, counts, out, data, view) ==
    /\ x.letter \in Letters
    /\ x.letter \notin out => x.attempt >= counts[x.letter] /\ PdHas(data, x) /\ PdHas(view, x)

\* A call of replay() works on what was last read; once it has sent its statement, the row
\* is ahead of that.
PdReplaying(n, offered, view, out) ==
    n.call = "replay" =>
        /\ n.rec.letter \in Letters /\ n.rec # PD!Nothing /\ offered[n.rec.letter] = n.rec
        /\ n.stage = "commit" =>
              \A x \in view : x.letter = n.rec.letter /\ x.letter \notin out => x.attempt > n.rec.attempt

PdCount ==
    /\ config \in Configs /\ replays \in [Letters -> Nat]
    /\ \A t \in Tasks : task[t].call # "idle" => t \in config.writers \cup config.handlers
    /\ PdOwned /\ PdRows(store, replays, removed) /\ PdRows(conn.view, replays, removed)
    /\ \A l \in Letters : hand[l] # PD!Nothing => PdSteady(hand[l], replays, removed, store, conn.view)
    /\ \A i \in DOMAIN scan.todo : /\ PdSteady(scan.todo[i], replays, removed, store, conn.view)
                                   /\ hand[scan.todo[i].letter] = PD!Nothing
    /\ \A i, j \in DOMAIN scan.todo : i # j => scan.todo[i].letter # scan.todo[j].letter
    /\ \A t \in Tasks : PdReplaying(task[t], hand, conn.view, removed)

PdLasts(old, new, out) == \A y \in old : y.letter \notin out => PdHas(new, y)

LEMMA PdSole ==
  ASSUME PdInv, PdFew, PdCounted, PdCount, NEW t \in Tasks, t \in config.writers \cup config.handlers
  PROVE  \A u \in Tasks : u # t => task[u].call = "idle" /\ task[u].stage = "idle"
<1> DEFINE S == config.writers \cup config.handlers
<1>1. PD!Cardinality(S) = Cardinality(S)
  BY DEF PD!Cardinality, Cardinality
<1>2. Cardinality(S) = 1 /\ IsFiniteSet(S)
  BY <1>1 DEF PdCounted, PD!OneCaller, PdFew, PdCount
<1>3. \E x : S = {x}
  BY <1>2, FS_Singleton
<1>4. \A u \in Tasks : task[u].call # "idle" => u \in S
  BY DEF PdCount
<1> HIDE DEF S
<1>5. \A u \in Tasks : task[u].stage # "idle" => task[u].call # "idle"
  BY DEF PdInv, PdCalls, PdCall
<1>6. t \in S
  BY DEF S
<1> QED
  BY <1>3, <1>4, <1>5, <1>6

\* So nobody else has the connection.
LEMMA PdSoleOpen ==
  ASSUME PdInv, PdFew, PdCounted, PdCount, NEW t \in Tasks, t \in config.writers \cup config.handlers
  PROVE  /\ conn.view = store \/ PdOpen(t)
         /\ conn.failed => PdOpen(t) /\ task[t].stage = "rollback"
<1>1. \A u \in Tasks : PdOpen(u) => u = t
  BY PdSole DEF PdOpen
<1> QED
  BY <1>1 DEF PdCount, PdOwned

LEMMA PdSteadyStays ==
  ASSUME NEW x, NEW counts, NEW counts2, NEW out, NEW out2, NEW data, NEW rows2, NEW view, NEW view2,
         PdSteady(x, counts, out, data, view), out \subseteq out2,
         x.letter \notin out2 => x.attempt >= counts2[x.letter],
         PdLasts(data, rows2, out2) \/ PdLasts(view, rows2, out2),
         PdLasts(data, view2, out2) \/ PdLasts(view, view2, out2)
  PROVE  PdSteady(x, counts2, out2, rows2, view2)
<1>1. x.letter \in Letters
  BY DEF PdSteady
<1>2. ASSUME x.letter \notin out2 PROVE PdHas(rows2, x) /\ PdHas(view2, x)
  <2>1. PdHas(data, x) /\ PdHas(view, x)
    BY <1>2 DEF PdSteady
  <2> QED
    BY <1>2, <2>1 DEF PdLasts, PdHas
<1> QED
  BY <1>1, <1>2 DEF PdSteady

LEMMA PdLastsSame == \A data, out : PdLasts(data, data, out)
  BY DEF PdLasts, PdHas

\* A step of a call that counts nothing.
LEMMA PdCountStep ==
  ASSUME PdInv, PdCount, NEW t \in Tasks, NEW n, task' = [task EXCEPT ![t] = n],
         \A u \in Tasks : u # t => task[u].call = "idle",
         config' = config, hand' = hand, scan' = scan, replays' = replays, removed \subseteq removed',
         n.call # "idle" => t \in config.writers \cup config.handlers,
         PdReplaying(n, hand, conn'.view, removed'),
         PdLasts(store, store', removed') \/ PdLasts(conn.view, store', removed'),
         PdLasts(store, conn'.view, removed') \/ PdLasts(conn.view, conn'.view, removed'),
         PdRows(store', replays, removed'), PdRows(conn'.view, replays, removed'), PdOwned'
  PROVE  PdCount'
<1>1. /\ config' \in Configs /\ replays' \in [Letters -> Nat]
      /\ PdRows(store', replays', removed') /\ PdRows(conn'.view, replays', removed')
  BY DEF PdCount
<1>2. task \in [Tasks -> PdTasks]
  BY DEF PdInv, PdTypes
<1>3. \A u \in Tasks : task'[u] = IF u = t THEN n ELSE task[u]
  BY <1>2
<1>4. \A u \in Tasks : task'[u].call # "idle" => u \in config'.writers \cup config'.handlers
  BY <1>3 DEF PdCount
<1>5. ASSUME NEW x, PdSteady(x, replays, removed, store, conn.view)
      PROVE  PdSteady(x, replays', removed', store', conn'.view)
  <2>1. x.letter \notin removed' => x.attempt >= replays[x.letter]
    BY <1>5 DEF PdSteady
  <2> QED
    BY <1>5, <2>1, PdSteadyStays
<1>6. \A l \in Letters : hand'[l] # PD!Nothing => PdSteady(hand'[l], replays', removed', store', conn'.view)
  BY <1>5 DEF PdCount
<1>7. /\ \A i \in DOMAIN scan'.todo : /\ PdSteady(scan'.todo[i], replays', removed', store', conn'.view)
                                     /\ hand'[scan'.todo[i].letter] = PD!Nothing
      /\ \A i, j \in DOMAIN scan'.todo : i # j => scan'.todo[i].letter # scan'.todo[j].letter
  BY <1>5 DEF PdCount
<1>8. ASSUME NEW u \in Tasks PROVE PdReplaying(task'[u], hand', conn'.view, removed')
  <2>1. CASE u = t
    BY <1>3, <2>1
  <2>2. CASE u # t
    BY <1>3, <2>2 DEF PdReplaying
  <2> QED
    BY <2>1, <2>2
<1> QED
  BY <1>1, <1>4, <1>6, <1>7, <1>8 DEF PdCount, PD!Nothing

\* A step that changes nothing that is stored.
LEMMA PdCountStill ==
  ASSUME PdInv, PdCount, NEW t \in Tasks, NEW n, task' = [task EXCEPT ![t] = n],
         \A u \in Tasks : u # t => task[u].call = "idle",
         config' = config, hand' = hand, scan' = scan, replays' = replays, removed \subseteq removed',
         n.call # "idle" => t \in config.writers \cup config.handlers,
         store' = store, conn'.view = conn.view \/ conn'.view = store, PdReplaying(n, hand, conn'.view, removed'), PdOwned'
  PROVE  PdCount'
<1>1. PdRows(store, replays, removed') /\ PdRows(conn.view, replays, removed')
  BY DEF PdCount, PdRows
<1>2. PdRows(store', replays, removed') /\ PdRows(conn'.view, replays, removed')
  BY <1>1
<1>3. /\ PdLasts(store, store', removed')
      /\ PdLasts(store, conn'.view, removed') \/ PdLasts(conn.view, conn'.view, removed')
  BY PdLastsSame
<1> QED
  BY <1>2, <1>3, PdCountStep

LEMMA PdBeginCounts ==
  ASSUME PdInv, PdFew, PdCounted, PdCount, NEW t \in Tasks, t \in config.writers \cup config.handlers,
         NEW c, PD!Begin(t, c), removed \subseteq removed',
         c.call = "replay" => c.rec.letter \in Letters /\ c.rec # PD!Nothing /\ hand[c.rec.letter] = c.rec,
         c \in PdTasks
  PROVE  PdCount'
<1> DEFINE n == [c EXCEPT !.stage = "connect"]
<1>1. /\ task' = [task EXCEPT ![t] = n] /\ task[t].call = "idle"
      /\ config' = config /\ store' = store /\ conn' = conn /\ scan' = scan /\ hand' = hand
      /\ replays' = replays
  BY DEF PD!Begin, PD!Busy
<1>2. n.call = c.call /\ n.rec = c.rec /\ n.stage = "connect"
  BY DEF PdTasks
<1> HIDE DEF n
<1>3. \A u \in Tasks : u # t => task[u].call = "idle"
  BY PdSole
<1>4. task[t].stage = "idle"
  BY <1>1 DEF PdInv, PdCalls, PdCall
<1>5. conn.view = store /\ ~conn.failed
  BY <1>4, PdSoleOpen DEF PdOpen
<1>6. PdOwned'
  BY <1>1, <1>5 DEF PdOwned
<1>7. PdReplaying(n, hand, conn'.view, removed')
  BY <1>2 DEF PdReplaying
<1> QED
  BY <1>1, <1>3, <1>6, <1>7, PdCountStill

LEMMA PdWriteCounts ==
  ASSUME PdInv, PdFew, PdCounted, PdCount, NEW t \in Tasks, NEW letters \in Seq(Letters),
         PD!Write(t, letters)
  PROVE  PdCount'
<1> DEFINE c == [PD!Idle EXCEPT !.call = "write", !.todo = letters]
<1>1. PD!Begin(t, c) /\ t \in config.writers /\ removed' = removed
  BY DEF PD!Write
<1>2. c.call = "write" /\ c \in PdTasks
  BY PdIdle DEF PD!Idle, PdTasks
<1> HIDE DEF c
<1> QED
  BY <1>1, <1>2, PdBeginCounts

LEMMA PdReplayCounts ==
  ASSUME PdInv, PdFew, PdCounted, PdCount, NEW t \in Tasks, NEW l \in Letters, PD!Replay(t, l)
  PROVE  PdCount'
<1> DEFINE c == [PD!Idle EXCEPT !.call = "replay", !.todo = <<l>>, !.rec = hand[l]]
<1>1. PD!Begin(t, c) /\ t \in config.handlers /\ removed' = removed /\ hand[l] # PD!Nothing
  BY DEF PD!Replay
<1>2. hand[l].letter = l /\ hand[l] \in PdRecs /\ <<l>> \in Seq(Letters)
  BY <1>1 DEF PdInv, PdCalls, PdTypes
<1>3. c.call = "replay" /\ c.rec = hand[l] /\ c \in PdTasks
  BY <1>2, PdIdle DEF PD!Idle, PdTasks
<1> HIDE DEF c
<1> QED
  BY <1>1, <1>2, <1>3, PdBeginCounts

LEMMA PdAcknowledgeCounts ==
  ASSUME PdInv, PdFew, PdCounted, PdCount, NEW t \in Tasks, NEW l \in Letters, PD!Acknowledge(t, l)
  PROVE  PdCount'
<1> DEFINE c == [PD!Idle EXCEPT !.call = "acknowledge", !.todo = <<l>>, !.rec = hand[l]]
<1>1. PD!Begin(t, c) /\ t \in config.handlers /\ removed \subseteq removed'
  BY DEF PD!Acknowledge
<1>2. hand[l] \in PdRecs /\ <<l>> \in Seq(Letters)
  BY DEF PdInv, PdTypes
<1>3. c.call = "acknowledge" /\ c \in PdTasks
  BY <1>2, PdIdle DEF PD!Idle, PdTasks
<1> HIDE DEF c
<1> QED
  BY <1>1, <1>3, PdBeginCounts

\* Who is calling, when somebody is.
LEMMA PdBusy ==
  ASSUME PdInv, PdFew, PdCounted, PdCount, NEW t \in Tasks, task[t].stage # "idle"
  PROVE  /\ task[t].call # "idle" /\ t \in config.writers \cup config.handlers
         /\ \A u \in Tasks : u # t => task[u].call = "idle"
         /\ conn.view = store \/ PdOpen(t)
         /\ conn.failed => PdOpen(t) /\ task[t].stage = "rollback"
<1>1. task[t].call # "idle"
  BY DEF PdInv, PdCalls, PdCall
<1>2. t \in config.writers \cup config.handlers
  BY <1>1 DEF PdCount
<1> QED
  BY <1>1, <1>2, PdSole, PdSoleOpen

LEMMA PdConnectCounts ==
  ASSUME PdInv, PdFew, PdCounted, PdCount, NEW t \in Tasks, PD!Connect(t) PROVE PdCount'
<1> DEFINE c == IF conn.up THEN conn ELSE PD!Fresh
           ddl == task[t].call = "write" /\ ~c.ready
           ready == [c EXCEPT !.ready = TRUE, !.dirty = {}]
           run == [task[t] EXCEPT !.stage = "run", !.epoch = c.epoch]
<1>1. /\ task[t].stage = "connect"
      /\ config' = config /\ scan' = scan /\ hand' = hand /\ removed' = removed /\ replays' = replays
      /\ \/ ddl /\ c.failed
         \/ /\ task' = [task EXCEPT ![t] = run]
            /\ \/ ddl /\ conn' = ready /\ store' = c.view
               \/ ~ddl /\ conn' = c /\ store' = store
  BY DEF PD!Connect
<1>2. task[t] \in PdTasks /\ conn \in PdConns /\ store \subseteq PdRecs
  BY PdOf
<1>3. /\ conn.view = store /\ ~conn.failed /\ \A u \in Tasks : u # t => task[u].call = "idle"
      /\ t \in config.writers \cup config.handlers
  BY <1>1, PdBusy DEF PdOpen
<1>4. c \in PdConns /\ c.view = store /\ ~c.failed
  <2>1. ~PD!Fresh.failed
    BY <1>2 DEF PD!Fresh, PdConns
  <2> QED
    BY <1>2, <1>3, <2>1, PdFresh
<1>5. run.call = task[t].call /\ run.rec = task[t].rec /\ run.stage = "run"
  BY <1>2 DEF PdTasks
<1>6. ready.view = store /\ ~ready.failed
  BY <1>4 DEF PdConns
<1> HIDE DEF c, run, ready
<1>7. task' = [task EXCEPT ![t] = run] /\ store' = store /\ conn'.view = store /\ ~conn'.failed
  BY <1>1, <1>4, <1>6
<1>8. PdOwned'
  BY <1>7 DEF PdOwned
<1>9. PdReplaying(run, hand, conn'.view, removed')
  <2>1. PdReplaying(task[t], hand, conn.view, removed)
    BY DEF PdCount
  <2> QED
    BY <1>5, <2>1 DEF PdReplaying
<1> QED
  BY <1>1, <1>3, <1>7, <1>8, <1>9, PdCountStill

LEMMA PdRefusedCounts ==
  ASSUME PdInv, PdFew, PdCounted, PdCount, NEW t \in Tasks, PD!Refused(t) PROVE PdCount'
<1> DEFINE n == [task[t] EXCEPT !.stage = "rollback"]
<1>1. /\ task[t].stage = "run" /\ PD!Mine(t)
      /\ task' = [task EXCEPT ![t] = n] /\ conn' = [conn EXCEPT !.failed = TRUE]
      /\ config' = config /\ store' = store /\ scan' = scan /\ hand' = hand /\ removed' = removed
      /\ replays' = replays
  BY DEF PD!Refused
<1>2. task[t] \in PdTasks /\ conn \in PdConns
  BY PdOf
<1>3. /\ \A u \in Tasks : u # t => task[u].call = "idle"
      /\ t \in config.writers \cup config.handlers
  BY <1>1, PdBusy
<1>4. n.call = task[t].call /\ n.rec = task[t].rec /\ n.stage = "rollback" /\ n.epoch = task[t].epoch
  BY <1>2 DEF PdTasks
<1>5. conn'.view = conn.view /\ conn'.up = conn.up /\ conn'.epoch = conn.epoch
  BY <1>1, <1>2 DEF PdConns
<1> HIDE DEF n
<1>6. task'[t] = n
  BY <1>1 DEF PdInv, PdTypes
<1>7. PdOwned'
  BY <1>1, <1>4, <1>5, <1>6 DEF PdOwned, PdOpen, PD!Mine
<1>8. PdReplaying(n, hand, conn'.view, removed')
  <2>1. PdReplaying(task[t], hand, conn.view, removed)
    BY DEF PdCount
  <2> QED
    BY <1>4, <2>1 DEF PdReplaying
<1> QED
  BY <1>1, <1>3, <1>5, <1>7, <1>8, PdCountStill

\* A call that has ended replays nothing.
LEMMA PdIdleReplays == \A offered, view, out : PdReplaying(PD!Idle, offered, view, out) /\ PD!Idle.call = "idle"
  BY DEF PdReplaying, PD!Idle

LEMMA PdRollbackCounts ==
  ASSUME PdInv, PdFew, PdCounted, PdCount, NEW t \in Tasks, PD!Rollback(t) PROVE PdCount'
<1>1. /\ task[t].stage = "rollback" /\ task' = [task EXCEPT ![t] = PD!Idle]
      /\ conn' = IF PD!Mine(t) THEN [conn EXCEPT !.view = store, !.dirty = {}, !.failed = FALSE] ELSE conn
      /\ config' = config /\ store' = store /\ scan' = scan /\ hand' = hand /\ removed' = removed
      /\ replays' = replays
  BY DEF PD!Rollback
<1>2. conn \in PdConns
  BY PdOf
<1>3. /\ \A u \in Tasks : u # t => task[u].call = "idle"
      /\ conn.view = store \/ PD!Mine(t)
      /\ conn.failed => PD!Mine(t)
  BY <1>1, PdBusy DEF PdOpen
<1>4. conn'.view = store /\ ~conn'.failed
  <2>1. CASE PD!Mine(t)
    BY <1>1, <1>2, <2>1 DEF PdConns
  <2>2. CASE ~PD!Mine(t)
    BY <1>1, <1>3, <2>2
  <2> QED
    BY <2>1, <2>2
<1>5. PdOwned'
  BY <1>1, <1>4 DEF PdOwned
<1> QED
  BY <1>1, <1>3, <1>4, <1>5, PdIdleReplays, PdCountStill

LEMMA PdLostCounts ==
  ASSUME PdInv, PdFew, PdCounted, PdCount, NEW t \in Tasks, PD!Lost(t) PROVE PdCount'
<1> DEFINE n == IF task[t].again THEN PD!Idle ELSE PD!Again(task[t])
           breaks == task[t].stage = "connect" \/ PD!Mine(t)
<1>1. /\ task[t].stage \in {"connect", "run", "commit"} /\ task' = [task EXCEPT ![t] = n]
      /\ store' = store \/ (PD!Mine(t) /\ store' = conn.view)
      /\ conn' = IF breaks \/ ~task[t].again THEN [PD!Down EXCEPT !.view = store'] ELSE conn
      /\ config' = config /\ scan' = scan /\ hand' = hand /\ removed' = removed /\ replays' = replays
  BY DEF PD!Lost
<1>2. task[t] \in PdTasks /\ conn \in PdConns /\ store \subseteq PdRecs
  BY PdOf
<1>3. /\ \A u \in Tasks : u # t => task[u].call = "idle"
      /\ t \in config.writers \cup config.handlers
      /\ conn.view = store \/ PD!Mine(t)
      /\ ~conn.failed
  BY <1>1, PdBusy DEF PdOpen
<1>4. conn'.view = store' /\ ~conn'.failed
  <2>1. CASE breaks \/ ~task[t].again
    <3>1. PD!Down \in PdConns /\ ~PD!Down.failed
      BY <1>2, PdDown DEF PD!Down, PdConns
    <3>2. conn' = [PD!Down EXCEPT !.view = store']
      BY <1>1, <2>1
    <3> QED
      BY <3>1, <3>2 DEF PdConns
  <2>2. CASE ~(breaks \/ ~task[t].again)
    BY <1>1, <1>3, <2>2
  <2> QED
    BY <2>1, <2>2
<1>5. PdReplaying(n, hand, conn'.view, removed')
  <2>1. CASE task[t].again
    BY <2>1, PdIdleReplays
  <2>2. CASE ~task[t].again
    <3>1. n.call = task[t].call /\ n.rec = task[t].rec /\ n.stage = "connect"
      BY <1>2, <2>2 DEF PD!Again, PdTasks
    <3>2. PdReplaying(task[t], hand, conn.view, removed)
      BY DEF PdCount
    <3> HIDE DEF n
    <3> QED
      BY <3>1, <3>2 DEF PdReplaying
  <2> QED
    BY <2>1, <2>2
<1> HIDE DEF n, breaks
<1>6. PdOwned'
  BY <1>4 DEF PdOwned
<1>7. PdRows(store', replays, removed') /\ PdRows(conn'.view, replays, removed')
  BY <1>1, <1>4 DEF PdCount
<1>8. /\ PdLasts(store, store', removed') \/ PdLasts(conn.view, store', removed')
      /\ PdLasts(store, conn'.view, removed') \/ PdLasts(conn.view, conn'.view, removed')
  BY <1>1, <1>4, PdLastsSame
<1> QED
  BY <1>1, <1>3, <1>5, <1>6, <1>7, <1>8, PdCountStep

\* What a statement does to the attempts.
LEMMA PdEffectCounts ==
  ASSUME PdInv, PdCount, NEW t \in Tasks, task[t].stage = "run", NEW n \in PdTasks, n = task[t],
         NEW data, data = conn.view, NEW v, v = PD!Effect(data, n)
  PROVE  /\ PdRows(v, replays, removed) /\ PdLasts(data, v, removed)
         /\ n.call = "replay" =>
               \A x \in v : x.letter = n.rec.letter /\ x.letter \notin removed => x.attempt > n.rec.attempt
<1>1. /\ n.sent < Len(n.todo) /\ n.call # "idle" /\ n.sent \in Nat /\ n.todo \in Seq(Letters)
      /\ n.rec \in PdRecs /\ PdName(n.rec) \in PdNames /\ data \subseteq PdRecs
      /\ (n.call = "acknowledge" => n.rec.letter \in removed)
  BY PdOf DEF PdTasks, PdCall
<1>2. PdRows(data, replays, removed) /\ replays \in [Letters -> Nat]
  BY DEF PdCount
<1>3. \A x \in data : x.id = n.rec.id => x.letter = n.rec.letter
  <2> SUFFICES ASSUME NEW x \in data, x.id = n.rec.id PROVE x.letter = n.rec.letter
    OBVIOUS
  <2>1. PdName(x) \in PdNames
    BY PdKnown
  <2>2. PdName(x)[1] = PdName(n.rec)[1] => PdName(x)[2] = PdName(n.rec)[2]
    BY <1>1, <2>1 DEF PdInv, PdNamed
  <2> QED
    BY <2>2 DEF PdName
<1>4. CASE n.call = "write"
  <2> DEFINE l == n.todo[n.sent + 1]
  <2>1. v = PD!Insert(data, l)
    BY <1>4 DEF PD!Effect
  <2>2. l \in Letters
    BY <1>1
  <2>3. PD!NewRow(l).letter = l /\ PD!NewRow(l).attempt = 0
    BY DEF PD!NewRow
  <2> HIDE DEF l
  <2>4. CASE \E row \in data : row.letter = l
    BY <1>2, <1>4, <2>1, <2>4, PdLastsSame DEF PD!Insert
  <2>5. CASE ~ \E row \in data : row.letter = l
    <3>1. v = data \cup {PD!NewRow(l)}
      BY <2>1, <2>5 DEF PD!Insert
    <3>2. l \notin removed => replays[l] = 0
      <4>1. l \notin removed => ~(replays[l] > 0)
        BY <1>2, <2>2, <2>5 DEF PdRows
      <4> QED
        BY <1>2, <2>2, <4>1
    <3> DEFINE r == PD!NewRow(l)
    <3>3. r.letter = l /\ (l \notin removed => r.attempt >= replays[l])
      BY <2>3, <3>2
    <3>4. v = data \cup {r}
      BY <3>1
    <3> HIDE DEF r
    <3>5. PdRows(v, replays, removed)
      BY <1>2, <2>2, <2>5, <3>3, <3>4 DEF PdRows
    <3>6. PdLasts(data, v, removed)
      BY <3>4 DEF PdLasts, PdHas
    <3> QED
      BY <1>4, <3>5, <3>6
  <2> QED
    BY <2>4, <2>5
<1>5. CASE n.call = "replay"
  <2> DEFINE Set(row) == IF row.id = n.rec.id THEN [row EXCEPT !.attempt = n.rec.attempt + 1] ELSE row
             L == n.rec.letter
  <2>1. v = {Set(row) : row \in data}
    BY <1>5 DEF PD!Effect, PD!Update
  <2>2. \A row \in data : /\ Set(row).id = row.id /\ Set(row).letter = row.letter
                          /\ row.id = n.rec.id => Set(row).attempt = n.rec.attempt + 1
                          /\ row.id # n.rec.id => Set(row).attempt = row.attempt
    BY <1>1 DEF PdRecs
  <2>3. /\ L \in Letters /\ n.rec.attempt \in Nat
        /\ L \notin removed => n.rec.attempt >= replays[L] /\ PdHas(data, n.rec)
    <3>1. L \in Letters /\ n.rec # PD!Nothing /\ hand[L] = n.rec
      BY <1>5 DEF PdCount, PdReplaying
    <3>2. PdSteady(n.rec, replays, removed, store, data)
      BY <3>1 DEF PdCount
    <3> QED
      BY <1>1, <3>1, <3>2 DEF PdSteady, PdRecs
  <2>4. L \notin removed => n.rec.attempt + 1 >= replays[L] /\ n.rec.attempt + 1 > n.rec.attempt
    BY <1>2, <2>3
  <2> HIDE DEF Set
  <2>5. PdRows(v, replays, removed)
    <3>1. \A x \in v : \E y \in data : x = Set(y)
      BY <2>1
    <3>2. \A x \in v : x.letter \in Letters
      BY <1>2, <2>2, <3>1 DEF PdRows
    <3>3. \A x, y \in v : x.letter = y.letter => x = y
      BY <1>2, <2>2, <3>1 DEF PdRows
    <3>4. \A x \in v : x.letter \notin removed => x.attempt >= replays[x.letter]
      <4> SUFFICES ASSUME NEW y \in data, y.letter \notin removed
                   PROVE  Set(y).attempt >= replays[y.letter]
        BY <2>2, <3>1
      <4>1. CASE y.id = n.rec.id
        BY <1>3, <2>2, <2>4, <4>1
      <4>2. CASE y.id # n.rec.id
        BY <1>2, <2>2, <4>2 DEF PdRows
      <4> QED
        BY <4>1, <4>2
    <3>5. \A l \in Letters \ removed : replays[l] > 0 => \E x \in v : x.letter = l
      BY <1>2, <2>1, <2>2 DEF PdRows
    <3> QED
      BY <3>2, <3>3, <3>4, <3>5 DEF PdRows
  <2>6. PdLasts(data, v, removed)
    BY <2>1, <2>2 DEF PdLasts, PdHas
  <2>7. ASSUME NEW x \in v, x.letter = L, x.letter \notin removed PROVE x.attempt > n.rec.attempt
    <3>1. PICK y \in data : y.letter = L /\ y.id = n.rec.id
      BY <2>3, <2>7 DEF PdHas
    <3>2. PICK z \in data : x = Set(z)
      BY <2>1
    <3>3. z = y
      BY <1>2, <2>2, <2>7, <3>1, <3>2 DEF PdRows
    <3> QED
      BY <2>2, <2>4, <2>7, <3>1, <3>2, <3>3
  <2> QED
    BY <2>5, <2>6, <2>7
<1>6. CASE n.call = "acknowledge"
  <2>1. v = {row \in data : row.id # n.rec.id}
    BY <1>6 DEF PD!Effect, PD!Delete
  <2>2. \A x \in data : x.letter \notin removed => x \in v
    BY <1>1, <1>3, <1>6, <2>1
  <2>3. PdRows(v, replays, removed)
    BY <1>2, <2>1, <2>2 DEF PdRows
  <2>4. PdLasts(data, v, removed)
    BY <2>2 DEF PdLasts, PdHas
  <2> QED
    BY <1>6, <2>3, <2>4
<1> QED
  BY <1>1, <1>4, <1>5, <1>6 DEF PdTasks

LEMMA PdExecuteCounts ==
  ASSUME PdInv, PdFew, PdCounted, PdCount, NEW t \in Tasks, PD!Execute(t) PROVE PdCount'
<1> DEFINE m == task[t]
           v == PD!Effect(conn.view, m)
           n == [m EXCEPT !.sent = @ + 1, !.stage = IF m.sent + 1 = Len(m.todo) THEN "commit" ELSE "run"]
           serial == IF m.call = "write" THEN conn.serial + 1 ELSE conn.serial
<1>1. /\ m.stage = "run" /\ PD!Mine(t) /\ ~conn.failed
      /\ task' = [task EXCEPT ![t] = n]
      /\ conn' = [conn EXCEPT !.view = v, !.dirty = @ \cup {t}, !.serial = serial]
      /\ config' = config /\ store' = store /\ scan' = scan /\ hand' = hand /\ removed' = removed
      /\ replays' = replays
  BY DEF PD!Execute
<1>2. m \in PdTasks /\ conn \in PdConns
  BY PdOf
<1>3. /\ \A u \in Tasks : u # t => task[u].call = "idle"
      /\ t \in config.writers \cup config.handlers
  BY <1>1, PdBusy
<1>4. /\ PdRows(v, replays, removed) /\ PdLasts(conn.view, v, removed)
      /\ m.call = "replay" =>
            \A x \in v : x.letter = m.rec.letter /\ x.letter \notin removed => x.attempt > m.rec.attempt
  BY <1>1, <1>2, PdEffectCounts
<1>5. /\ n.call = m.call /\ n.rec = m.rec /\ n.epoch = m.epoch /\ n.stage \in {"run", "commit"}
  BY <1>2 DEF PdTasks
<1> HIDE DEF v, serial
<1>6. conn'.view = v /\ conn'.up = conn.up /\ conn'.epoch = conn.epoch /\ conn'.failed = conn.failed
  BY <1>1, <1>2 DEF PdConns
<1> HIDE DEF n
<1>7. task'[t] = n
  BY <1>1 DEF PdInv, PdTypes
<1>8. PdOwned'
  BY <1>1, <1>5, <1>6, <1>7 DEF PdOwned, PdOpen, PD!Mine
<1>9. PdReplaying(n, hand, conn'.view, removed')
  <2>1. PdReplaying(m, hand, conn.view, removed)
    BY DEF PdCount
  <2> QED
    BY <1>1, <1>4, <1>5, <1>6, <2>1 DEF PdReplaying
<1>10. PdRows(store', replays, removed') /\ PdRows(conn'.view, replays, removed')
  BY <1>1, <1>4, <1>6 DEF PdCount
<1>11. /\ PdLasts(store, store', removed') /\ PdLasts(conn.view, conn'.view, removed')
  BY <1>1, <1>4, <1>6, PdLastsSame
<1> QED
  BY <1>1, <1>3, <1>5, <1>8, <1>9, <1>10, <1>11, PdCountStep

\* A commit: the table is what the transaction saw, with the replay counted.
LEMMA PdCommitStep ==
  ASSUME PdInv, PdCount, NEW t \in Tasks, task' = [task EXCEPT ![t] = PD!Idle],
         \A u \in Tasks : u # t => task[u].call = "idle",
         config' = config, scan' = scan, removed' = removed,
         store' = conn.view, conn'.view = conn.view, ~conn'.failed,
         replays' \in [Letters -> Nat], PdRows(conn.view, replays', removed),
         \A l \in Letters : hand'[l] # PD!Nothing => PdSteady(hand'[l], replays', removed, conn.view, conn.view),
         \A i \in DOMAIN scan.todo : /\ PdSteady(scan.todo[i], replays', removed, conn.view, conn.view)
                                     /\ hand'[scan.todo[i].letter] = PD!Nothing
  PROVE  PdCount'
<1>1. \A u \in Tasks : task'[u] = IF u = t THEN PD!Idle ELSE task[u]
  BY DEF PdInv, PdTypes
<1>2. \A u \in Tasks : task'[u].call = "idle"
  BY <1>1, PdIdleReplays
<1>3. \A u \in Tasks : PdReplaying(task[u], hand, conn.view, removed)'
  BY <1>2 DEF PdReplaying
<1>4. PdOwned'
  BY DEF PdOwned
<1>5. /\ \A l \in Letters : (hand[l] # PD!Nothing)' => PdSteady(hand'[l], replays', removed', store', conn'.view)
      /\ \A i \in DOMAIN scan'.todo : /\ PdSteady(scan'.todo[i], replays', removed', store', conn'.view)
                                      /\ (hand[scan.todo[i].letter] = PD!Nothing)'
  BY DEF PD!Nothing
<1>6. /\ config' \in Configs /\ PdRows(store', replays', removed') /\ PdRows(conn'.view, replays', removed')
      /\ \A i, j \in DOMAIN scan'.todo : i # j => scan'.todo[i].letter # scan'.todo[j].letter
  BY DEF PdCount
<1> QED
  BY <1>2, <1>3, <1>4, <1>5, <1>6 DEF PdCount

LEMMA PdCommitCounts ==
  ASSUME PdInv, PdFew, PdCounted, PdCount, NEW t \in Tasks, PD!Commit(t) PROVE PdCount'
<1> DEFINE n == task[t]
           L == n.rec.letter
           view == conn.view
<1>1. /\ n.stage = "commit"
      /\ store' = IF conn.failed THEN store ELSE view
      /\ conn' = [conn EXCEPT !.view = IF conn.failed THEN store ELSE view, !.dirty = {}, !.failed = FALSE]
      /\ task' = [task EXCEPT ![t] = PD!Idle]
      /\ replays' = CASE n.call = "replay" -> [replays EXCEPT ![L] = @ + 1]
                      [] n.call = "acknowledge" -> [replays EXCEPT ![L] = 0]
                      [] OTHER -> replays
      /\ hand' = IF n.call = "replay" /\ hand[L] = n.rec
                 THEN [hand EXCEPT ![L].attempt = @ + 1] ELSE hand
      /\ config' = config /\ scan' = scan /\ removed' = removed
  BY DEF PD!Commit, PD!Done
<1>2. /\ n \in PdTasks /\ conn \in PdConns /\ n.rec \in PdRecs /\ hand \in [Letters -> PdRecs]
      /\ n.call = "acknowledge" => L \in removed
  BY PdOf DEF PdTasks, PdCall
<1>3. ~conn.failed /\ \A u \in Tasks : u # t => task[u].call = "idle"
  BY <1>1, PdBusy
<1>4. store' = view /\ conn'.view = view /\ ~conn'.failed
  BY <1>1, <1>2, <1>3 DEF PdConns
<1>5. /\ replays \in [Letters -> Nat] /\ PdRows(view, replays, removed)
      /\ \A l \in Letters : hand[l] # PD!Nothing => PdSteady(hand[l], replays, removed, store, view)
      /\ \A i \in DOMAIN scan.todo : /\ PdSteady(scan.todo[i], replays, removed, store, view)
                                     /\ hand[scan.todo[i].letter] = PD!Nothing
      /\ PdReplaying(n, hand, view, removed)
  BY DEF PdCount
<1>6. ASSUME NEW x, PdSteady(x, replays, removed, store, view),
             x.letter \notin removed => replays'[x.letter] = replays[x.letter]
      PROVE  PdSteady(x, replays', removed, view, view)
  BY <1>6 DEF PdSteady
<1> HIDE DEF n, view
<1>7. CASE n.call # "replay"
  <2>1. hand' = hand /\ replays' \in [Letters -> Nat]
    BY <1>1, <1>5, <1>7
  <2>2. \A l \in Letters : l \notin removed => replays'[l] = replays[l]
    BY <1>1, <1>2, <1>5, <1>7
  <2>3. PdRows(view, replays', removed)
    BY <1>5, <2>2 DEF PdRows
  <2>4. \A l \in Letters : hand'[l] # PD!Nothing => PdSteady(hand'[l], replays', removed, view, view)
    <3> SUFFICES ASSUME NEW l \in Letters, hand[l] # PD!Nothing
                 PROVE  PdSteady(hand[l], replays', removed, view, view)
      BY <2>1
    <3>1. PdSteady(hand[l], replays, removed, store, view)
      BY <1>5
    <3>2. hand[l].letter \in Letters
      BY <3>1 DEF PdSteady
    <3> QED
      BY <1>6, <2>2, <3>1, <3>2
  <2>5. \A i \in DOMAIN scan.todo : /\ PdSteady(scan.todo[i], replays', removed, view, view)
                                    /\ hand'[scan.todo[i].letter] = PD!Nothing
    <3> SUFFICES ASSUME NEW i \in DOMAIN scan.todo
                 PROVE  PdSteady(scan.todo[i], replays', removed, view, view)
      BY <1>5, <2>1
    <3>1. PdSteady(scan.todo[i], replays, removed, store, view)
      BY <1>5
    <3>2. scan.todo[i].letter \in Letters
      BY <3>1 DEF PdSteady
    <3> QED
      BY <1>6, <2>2, <3>1, <3>2
  <2> QED
    BY <1>1, <1>3, <1>4, <2>1, <2>3, <2>4, <2>5, PdCommitStep DEF view
<1>8. CASE n.call = "replay"
  <2> DEFINE h == [n.rec EXCEPT !.attempt = @ + 1]
  <2>1. /\ L \in Letters /\ n.rec # PD!Nothing /\ hand[L] = n.rec
        /\ \A x \in view : x.letter = L /\ x.letter \notin removed => x.attempt > n.rec.attempt
    BY <1>1, <1>5, <1>8 DEF PdReplaying
  <2>2. /\ L \notin removed => n.rec.attempt >= replays[L] /\ PdHas(view, n.rec)
        /\ n.rec.attempt \in Nat /\ replays[L] \in Nat
    <3>1. PdSteady(n.rec, replays, removed, store, view)
      BY <1>5, <2>1
    <3> QED
      BY <1>2, <1>5, <2>1, <3>1 DEF PdSteady, PdRecs
  <2>3. h.letter = L /\ h.id = n.rec.id /\ h.attempt = n.rec.attempt + 1
    BY <1>2 DEF PdRecs
  <2>4. replays' = [replays EXCEPT ![L] = @ + 1] /\ hand' = [hand EXCEPT ![L] = h]
    BY <1>1, <1>8, <2>1
  <2> HIDE DEF L, h
  <2>5. /\ replays' \in [Letters -> Nat] /\ replays'[L] = replays[L] + 1
        /\ \A l \in Letters : l # L => replays'[l] = replays[l] /\ hand'[l] = hand[l]
        /\ hand'[L] = h
    BY <1>2, <1>5, <2>1, <2>2, <2>4
  <2>6. PdRows(view, replays', removed)
    <3>1. ASSUME NEW x \in view, x.letter \notin removed PROVE x.attempt >= replays'[x.letter]
      <4>1. CASE x.letter # L
        BY <1>5, <2>5, <3>1, <4>1 DEF PdRows
      <4>2. CASE x.letter = L
        <5>1. x.attempt \in Nat
          <6>1. x \in PdRecs
            BY <1>2 DEF view, PdConns
          <6> QED
            BY <6>1 DEF PdRecs
        <5>2. x.attempt > n.rec.attempt /\ n.rec.attempt >= replays[L]
          BY <2>1, <2>2, <3>1, <4>2
        <5> QED
          BY <2>2, <2>5, <4>2, <5>1, <5>2
      <4> QED
        BY <4>1, <4>2
    <3>2. ASSUME NEW l \in Letters \ removed, replays'[l] > 0 PROVE \E x \in view : x.letter = l
      <4>1. CASE l = L
        <5>1. n.rec.letter = L
          BY DEF L
        <5> QED
          BY <2>2, <4>1, <5>1 DEF PdHas
      <4>2. CASE l # L
        BY <1>5, <2>5, <3>2, <4>2 DEF PdRows
      <4> QED
        BY <4>1, <4>2
    <3> QED
      BY <1>5, <3>1, <3>2 DEF PdRows
  <2>7. PdSteady(h, replays', removed, view, view)
    <3>1. L \notin removed => h.attempt >= replays'[L]
      BY <2>2, <2>3, <2>5
    <3>2. L \notin removed => PdHas(view, h)
      <4>1. n.rec.letter = L
        BY DEF L
      <4> QED
        BY <2>2, <2>3, <4>1 DEF PdHas
    <3> QED
      BY <2>1, <2>3, <3>1, <3>2 DEF PdSteady
  <2>8. \A l \in Letters : hand'[l] # PD!Nothing => PdSteady(hand'[l], replays', removed, view, view)
    <3> SUFFICES ASSUME NEW l \in Letters, hand'[l] # PD!Nothing, l # L
                 PROVE  PdSteady(hand'[l], replays', removed, view, view)
      BY <2>5, <2>7
    <3>1. hand'[l] = hand[l] /\ PdSteady(hand[l], replays, removed, store, view) /\ hand[l].letter = l
      BY <1>5, <2>5, PdOf
    <3> QED
      BY <1>6, <2>5, <3>1
  <2>9. \A i \in DOMAIN scan.todo : /\ PdSteady(scan.todo[i], replays', removed, view, view)
                                    /\ hand'[scan.todo[i].letter] = PD!Nothing
    <3> SUFFICES ASSUME NEW i \in DOMAIN scan.todo
                 PROVE  /\ PdSteady(scan.todo[i], replays', removed, view, view)
                        /\ hand'[scan.todo[i].letter] = PD!Nothing
      OBVIOUS
    <3>1. PdSteady(scan.todo[i], replays, removed, store, view) /\ hand[scan.todo[i].letter] = PD!Nothing
      BY <1>5
    <3>2. scan.todo[i].letter \in Letters /\ scan.todo[i].letter # L
      BY <2>1, <3>1 DEF PdSteady
    <3> QED
      BY <1>6, <2>5, <3>1, <3>2
  <2> QED
    BY <1>1, <1>3, <1>4, <2>5, <2>6, <2>8, <2>9, PdCommitStep DEF view
<1> QED
  BY <1>7, <1>8

LEMMA PdSelectCounts ==
  ASSUME PdInv, PdAssumptions, PdCounted, PdCount, PD!Select PROVE PdCount'
<1> DEFINE read == {PD!AsRead(row) : row \in store}
<1>1. PICK order \in PD!BoundedSeq(read, PD!Cardinality(Letters)) :
          /\ PD!ToSet(order) = read
          /\ \A i, j \in DOMAIN order : i < j => order[i].letter < order[j].letter
          /\ scan' = [todo |-> order, seen |-> <<>>, must |-> store, open |-> TRUE]
  BY DEF PD!Select
<1>2. /\ config' = config /\ task' = task /\ store' = store /\ conn' = conn /\ removed' = removed
      /\ replays' = replays /\ hand' = [l \in Letters |-> PD!Nothing]
      /\ \A t \in Tasks : task[t].call = "idle"
  BY DEF PD!Select, PD!Busy, PdCounted
<1>3. \A t \in Tasks : task[t].stage = "idle"
  BY <1>2 DEF PdInv, PdCalls, PdCall
<1>4. conn.view = store /\ ~conn.failed /\ PdRows(store, replays, removed)
  BY <1>3 DEF PdCount, PdOwned, PdOpen
<1>5. read = store
  BY DEF PdCounted, PD!AsRead
<1> HIDE DEF read
<1>6. PICK n \in Nat : order \in [1..n -> read]
  BY PdOrder
<1>7. ASSUME NEW i \in DOMAIN order
      PROVE  PdSteady(order[i], replays, removed, store, conn.view) /\ order[i].letter \in Letters
  <2>1. order[i] \in store
    BY <1>5, <1>6
  <2> QED
    BY <1>4, <2>1 DEF PdRows, PdSteady, PdHas
<1>8. ASSUME NEW i \in DOMAIN order, NEW j \in DOMAIN order, i # j
      PROVE  order[i].letter # order[j].letter
  <2>1. order[i].letter \in Nat /\ order[j].letter \in Nat
    BY <1>7 DEF PdAssumptions
  <2>2. i < j \/ j < i
    BY <1>6, <1>8
  <2>3. order[i].letter < order[j].letter \/ order[j].letter < order[i].letter
    BY <1>1, <2>2
  <2> QED
    BY <2>1, <2>3
<1>9. scan'.todo = order /\ \A l \in Letters : hand'[l] = PD!Nothing
  BY <1>1, <1>2
<1>10. \A t \in Tasks : PdReplaying(task[t], hand, conn.view, removed)'
  BY <1>2 DEF PdReplaying
<1>11. PdOwned'
  BY <1>2, <1>4 DEF PdOwned
<1> QED
  BY <1>2, <1>7, <1>8, <1>9, <1>10, <1>11 DEF PdCount, PD!Nothing

\* What is read of a letter is handed to the caller.
LEMMA PdOfferCounts == ASSUME PdInv, PdCount, PD!Offer PROVE PdCount'
<1> DEFINE rec == Head(scan.todo)
           due == rec.attempt < MaxAttempts
           later == Tail(scan.todo)
<1>1. /\ config' = config /\ task' = task /\ store' = store /\ conn' = conn /\ removed' = removed
      /\ replays' = replays /\ scan.todo # <<>>
      /\ scan' = [scan EXCEPT !.todo = later, !.seen = IF due THEN Append(@, rec) ELSE @]
      /\ hand' = IF due THEN [hand EXCEPT ![rec.letter] = rec] ELSE hand
  BY DEF PD!Offer
<1>2. scan.todo \in Seq(PdRecs) /\ hand \in [Letters -> PdRecs]
  BY PdScanned
<1>3. scan'.todo = later
  BY <1>1, PdScanned
<1>4. /\ rec = scan.todo[1] /\ 1 \in DOMAIN scan.todo
      /\ \A i \in DOMAIN later : i + 1 \in DOMAIN scan.todo /\ later[i] = scan.todo[i + 1] /\ i + 1 # 1
                                 /\ i \in Nat
  BY <1>1, <1>2
<1> HIDE DEF rec, later
<1>5. /\ PdSteady(rec, replays, removed, store, conn.view) /\ hand[rec.letter] = PD!Nothing
      /\ rec.letter \in Letters
  BY <1>4 DEF PdCount, PdSteady
<1>6. \A l \in Letters : hand'[l] = hand[l] \/ (l = rec.letter /\ hand'[l] = rec)
  BY <1>1, <1>2
<1>7. ASSUME NEW i \in DOMAIN later
      PROVE  /\ PdSteady(later[i], replays, removed, store, conn.view)
             /\ hand'[later[i].letter] = PD!Nothing
  <2>1. /\ PdSteady(later[i], replays, removed, store, conn.view) /\ hand[later[i].letter] = PD!Nothing
        /\ later[i].letter # rec.letter
    BY <1>4 DEF PdCount
  <2>2. later[i].letter \in Letters
    BY <2>1 DEF PdSteady
  <2> QED
    BY <1>6, <2>1, <2>2
<1>8. ASSUME NEW i \in DOMAIN later, NEW j \in DOMAIN later, i # j PROVE later[i].letter # later[j].letter
  <2>1. i + 1 # j + 1
    BY <1>4, <1>8
  <2> QED
    BY <1>4, <2>1 DEF PdCount
<1>9. ASSUME NEW t \in Tasks PROVE PdReplaying(task[t], hand', conn.view, removed)
  <2>1. PdReplaying(task[t], hand, conn.view, removed)
    BY DEF PdCount
  <2>2. task[t].call = "replay" => hand'[task[t].rec.letter] = hand[task[t].rec.letter]
    BY <1>5, <1>6, <2>1 DEF PdReplaying
  <2> QED
    BY <2>1, <2>2 DEF PdReplaying
<1>10. \A l \in Letters : hand'[l] # PD!Nothing => PdSteady(hand'[l], replays, removed, store, conn.view)
  BY <1>5, <1>6 DEF PdCount
<1>11. PdOwned'
  BY <1>1 DEF PdCount, PdOwned, PdOpen, PD!Mine
<1>12. ASSUME NEW t \in Tasks PROVE PdReplaying(task[t], hand, conn.view, removed)'
  <2>1. PdReplaying(task[t], hand', conn.view, removed)
    BY <1>9
  <2>2. task'[t] = task[t] /\ conn'.view = conn.view /\ removed' = removed
    BY <1>1
  <2> QED
    BY <2>1, <2>2 DEF PdReplaying, PD!Nothing
<1>13. /\ \A l \in Letters : (hand[l] # PD!Nothing)' => PdSteady(hand'[l], replays', removed', store', conn'.view)
       /\ \A i \in DOMAIN scan'.todo : /\ PdSteady(scan'.todo[i], replays', removed', store', conn'.view)
                                       /\ (hand[scan.todo[i].letter] = PD!Nothing)'
       /\ \A i, j \in DOMAIN scan'.todo : i # j => scan'.todo[i].letter # scan'.todo[j].letter
  BY <1>1, <1>3, <1>7, <1>8, <1>10 DEF PD!Nothing
<1>14. /\ config' \in Configs /\ replays' \in [Letters -> Nat]
       /\ \A t \in Tasks : task'[t].call # "idle" => t \in config'.writers \cup config'.handlers
       /\ PdRows(store', replays', removed') /\ PdRows(conn'.view, replays', removed')
  BY <1>1 DEF PdCount
<1> QED
  BY <1>11, <1>12, <1>13, <1>14 DEF PdCount

LEMMA PdScanEndsCounts == ASSUME PdCount, PD!ScanEnds PROVE PdCount'
<1>1. /\ config' = config /\ task' = task /\ store' = store /\ conn' = conn /\ removed' = removed
      /\ replays' = replays /\ hand' = hand /\ DOMAIN scan'.todo = {}
  BY DEF PD!ScanEnds, PD!NoScan
<1>2. PdOwned'
  BY <1>1 DEF PdCount, PdOwned, PdOpen, PD!Mine
<1>3. \A t \in Tasks : PdReplaying(task[t], hand, conn.view, removed)'
  BY <1>1 DEF PdCount, PdReplaying, PD!Nothing
<1> QED
  BY <1>1, <1>2, <1>3 DEF PdCount, PD!Nothing

LEMMA PdNextCounts ==
  ASSUME PdInv, PdAssumptions, PdFew, PdCounted, PdCount, [PD!Next]_PD!vars PROVE PdCount'
<1>1. CASE UNCHANGED PD!vars
  <2>1. /\ config' = config /\ task' = task /\ store' = store /\ conn' = conn /\ removed' = removed
        /\ replays' = replays /\ hand' = hand /\ scan' = scan
    BY <1>1 DEF PD!vars
  <2> QED
    BY <2>1 DEF PdCount, PdOwned, PdOpen, PdReplaying, PD!Mine, PD!Nothing
<1>2. ASSUME NEW t \in Tasks, NEW l \in Letters,
             PD!Write(t, <<l>>) \/ PD!Replay(t, l) \/ PD!Acknowledge(t, l)
      PROVE  PdCount'
  <2>1. <<l>> \in Seq(Letters)
    OBVIOUS
  <2> QED
    BY <1>2, <2>1, PdWriteCounts, PdReplayCounts, PdAcknowledgeCounts
<1>3. ASSUME NEW t \in Tasks, NEW l \in Letters, NEW m \in Letters, PD!Write(t, <<l, m>>) PROVE PdCount'
  <2>1. <<l, m>> \in Seq(Letters)
    OBVIOUS
  <2> QED
    BY <1>3, <2>1, PdWriteCounts
<1>4. ASSUME NEW t \in Tasks, \/ PD!Connect(t) \/ PD!Execute(t) \/ PD!Commit(t) \/ PD!Refused(t)
                              \/ PD!Rollback(t) \/ PD!Lost(t)
      PROVE  PdCount'
  BY <1>4, PdConnectCounts, PdExecuteCounts, PdCommitCounts, PdRefusedCounts, PdRollbackCounts,
     PdLostCounts
<1>5. CASE PD!Select \/ PD!Offer \/ PD!ScanEnds
  BY <1>5, PdSelectCounts, PdOfferCounts, PdScanEndsCounts
<1> QED
  BY <1>1, <1>2, <1>3, <1>4, <1>5 DEF PD!Next

\* With one caller, a row that nobody acknowledges has at least as many attempts as
\* replay() calls of its letter have returned, unless the payload is encrypted: an update
\* that was lost with its connection, or rolled back, is not counted.
THEOREM DeadLettersCounted ==
  ASSUME PdAssumptions, PdFew PROVE PD!Spec => []PD!AttemptsCounted
<1>1. PD!Init => PdInv /\ PdCount
  <2> SUFFICES ASSUME PD!Init PROVE PdCount
    BY PdInitInv
  <2>1. /\ config \in Configs /\ task = [t \in Tasks |-> PD!Idle] /\ store = {}
        /\ conn.view = {} /\ ~conn.failed /\ DOMAIN scan.todo = {} /\ hand = [l \in Letters |-> PD!Nothing]
        /\ replays = [l \in Letters |-> 0]
    BY DEF PD!Init, PD!NoScan
  <2>2. replays \in [Letters -> Nat] /\ \A l \in Letters : ~(replays[l] > 0)
    BY <2>1
  <2>3. PdRows(store, replays, removed) /\ PdRows(conn.view, replays, removed)
    BY <2>1, <2>2 DEF PdRows
  <2> QED
    BY <2>1, <2>2, <2>3, PdIdleReplays DEF PdCount, PdOwned
<1>2. PdInv /\ (PdCounted => PdCount) /\ [PD!Next]_PD!vars => PdInv' /\ (PdCounted => PdCount)'
  <2> SUFFICES ASSUME PdInv, PdCounted => PdCount, [PD!Next]_PD!vars
               PROVE  (PdCounted => PdCount)'
    BY PdNextInv
  <2>1. config' = config
    BY DEF PD!Next, PD!vars, PD!Write, PD!Replay, PD!Acknowledge, PD!Begin, PD!Connect, PD!Execute,
           PD!Commit, PD!Refused, PD!Rollback, PD!Lost, PD!Select, PD!Offer, PD!ScanEnds
  <2>2. PdCounted' => PdCounted
    BY <2>1 DEF PdCounted, PD!OneCaller
  <2> QED
    BY <2>2, PdNextCounts
<1>3. PdInv /\ (PdCounted => PdCount) => PD!AttemptsCounted
  BY DEF PdCounted, PdCount, PdRows, PD!AttemptsCounted
<1> QED
  BY <1>1, <1>2, <1>3, PTL DEF PD!Spec

-----------------------------------------------------------------------------
(* KafkaDLQ. Deliveries to one partition overtake those to another one, so what  *)
(* is kept is the last envelope of a letter: that of the buffer, or if the        *)
(* buffer has none, that of the letter's partition.                               *)
KD == INSTANCE KafkaDLQ

KdAssumptions == Letters \subseteq Nat

\* Of the elements nothing is known but what their letter is.
KdSeq(s) == \E S : s \in Seq(S)
KdHas(s, l) == \E i \in 1..Len(s) : s[i].letter = l
KdIsLast(s, l, e) == \E i \in 1..Len(s) : /\ s[i] = e /\ s[i].letter = l
                                          /\ \A j \in 1..Len(s) : j > i => s[j].letter # l
KdLast(s, b, l, e) == \/ KdIsLast(b, l, e)
                      \/ ~KdHas(b, l) /\ KdIsLast(s, l, e)
                      \/ ~KdHas(b, l) /\ ~KdHas(s, l) /\ e = KD!Nothing

KdTypes ==
    /\ DOMAIN store = KD!Parts /\ \A p \in KD!Parts : KdSeq(store[p])
    /\ KdSeq(buffer)
    /\ DOMAIN hand = Letters /\ DOMAIN intent = Letters
    /\ \A l \in Letters : hand[l] = KD!Nothing \/ hand[l].letter = l
    /\ client = "closed" => buffer = <<>>

KdKept == dropped = <<>> /\ client # "dead" =>
              \A l \in Letters : KdLast(store[KD!Part(l)], buffer, l, intent[l])

KdInv == KdTypes /\ KdKept

LEMMA KdAppended ==
  ASSUME NEW s, KdSeq(s), NEW e
  PROVE  /\ KdSeq(Append(s, e)) /\ Len(Append(s, e)) = Len(s) + 1 /\ Len(s) \in Nat
         /\ \A i \in 1..Len(s) : Append(s, e)[i] = s[i]
         /\ Append(s, e)[Len(s) + 1] = e
<1>1. PICK S : s \in Seq(S)
  BY DEF KdSeq
<1>2. s \in Seq(S \cup {e}) /\ e \in S \cup {e}
  BY <1>1
<1>3. Append(s, e) \in Seq(S \cup {e})
  BY <1>2
<1> QED
  BY <1>2, <1>3 DEF KdSeq

LEMMA KdJoined ==
  ASSUME NEW S, NEW a \in Seq(S), NEW b \in Seq(S)
  PROVE  /\ a \o b \in Seq(S) /\ Len(a \o b) = Len(a) + Len(b)
         /\ \A j \in 1..Len(a) : (a \o b)[j] = a[j]
         /\ \A j \in 1..Len(b) : (a \o b)[Len(a) + j] = b[j]
  OBVIOUS

\* The element at i is taken out.
LEMMA KdRemoved ==
  ASSUME NEW s, KdSeq(s), NEW i \in 1..Len(s)
  PROVE  /\ KdSeq(KD!RemoveAt(s, i)) /\ Len(KD!RemoveAt(s, i)) = Len(s) - 1 /\ Len(s) \in Nat
         /\ \A j \in 1..(i - 1) : KD!RemoveAt(s, i)[j] = s[j]
         /\ \A j \in i..(Len(s) - 1) : KD!RemoveAt(s, i)[j] = s[j + 1]
<1>1. PICK S : s \in Seq(S)
  BY DEF KdSeq
<1>2. Len(s) \in Nat /\ i \in Nat
  BY <1>1
<1> DEFINE a == SubSeq(s, 1, i - 1)
           b == SubSeq(s, i + 1, Len(s))
<1>3. a \in Seq(S) /\ Len(a) = i - 1 /\ \A j \in 1..(i - 1) : a[j] = s[j]
  BY <1>1, <1>2
<1>4. b \in Seq(S) /\ Len(b) = Len(s) - i /\ \A j \in 1..(Len(s) - i) : b[j] = s[j + i]
  BY <1>1, <1>2
<1>5. KD!RemoveAt(s, i) = a \o b
  BY DEF KD!RemoveAt
<1> HIDE DEF a, b
<1>6. /\ a \o b \in Seq(S) /\ Len(a \o b) = Len(a) + Len(b)
      /\ \A j \in 1..Len(a) : (a \o b)[j] = a[j]
      /\ \A j \in 1..Len(b) : (a \o b)[Len(a) + j] = b[j]
  <2>1. a \in Seq(S) /\ b \in Seq(S)
    BY <1>3, <1>4
  <2> QED
    BY <2>1, KdJoined
<1>7. Len(a \o b) = Len(s) - 1 /\ \A j \in 1..(i - 1) : (a \o b)[j] = s[j]
  BY <1>2, <1>3, <1>4, <1>6
<1>8. \A j \in i..(Len(s) - 1) : (a \o b)[j] = s[j + 1]
  <2> SUFFICES ASSUME NEW j \in i..(Len(s) - 1) PROVE (a \o b)[j] = s[j + 1]
    OBVIOUS
  <2>1. j - i + 1 \in 1..Len(b) /\ Len(a) + (j - i + 1) = j /\ (j - i + 1) + i = j + 1
    BY <1>2, <1>3, <1>4
  <2>2. (a \o b)[Len(a) + (j - i + 1)] = b[j - i + 1] /\ b[j - i + 1] = s[(j - i + 1) + i]
    BY <2>1, <1>4, <1>6
  <2> QED
    BY <2>1, <2>2
<1> QED
  BY <1>2, <1>5, <1>6, <1>7, <1>8 DEF KdSeq

\* What the property calls the last envelope.
LEMMA KdLastOf ==
  ASSUME NEW s, NEW b, KdSeq(s), KdSeq(b), NEW l, NEW e, KdLast(s, b, l, e)
  PROVE  KD!LastOf(s \o b, l) = e
<1>1. PICK S : s \in Seq(S)
  BY DEF KdSeq
<1>2. PICK T : b \in Seq(T)
  BY DEF KdSeq
<1> DEFINE w == s \o b
           own == {i \in DOMAIN w : w[i].letter = l}
<1>3. /\ w \in Seq(S \cup T) /\ Len(w) = Len(s) + Len(b) /\ Len(s) \in Nat /\ Len(b) \in Nat
      /\ \A i \in 1..Len(s) : w[i] = s[i]
  BY <1>1, <1>2
<1>4. \A i \in 1..Len(b) : w[Len(s) + i] = b[i]
  BY <1>1, <1>2
<1>5. \A i \in (Len(s) + 1)..Len(w) : i - Len(s) \in 1..Len(b) /\ w[i] = b[i - Len(s)]
  BY <1>3, <1>4
<1>6. DOMAIN w = 1..Len(w)
  BY <1>3
<1>7. KD!LastOf(w, l) = IF own = {} THEN KD!Nothing ELSE w[KD!Max(own)]
  BY DEF KD!LastOf
<1>8. ASSUME NEW k \in own, \A j \in own : j <= k, w[k] = e PROVE KD!LastOf(w, l) = e
  <2>1. \A x \in own : (\A y \in own : x >= y) => x = k
    BY <1>3, <1>6, <1>8
  <2>2. \A y \in own : k >= y
    BY <1>3, <1>6, <1>8
  <2>3. KD!Max(own) = CHOOSE x \in own : \A y \in own : x >= y
    BY DEF KD!Max
  <2> HIDE DEF own, w
  <2>4. KD!Max(own) = k
    BY <2>1, <2>2, <2>3, <1>8
  <2> QED
    BY <1>7, <1>8, <2>4
<1> HIDE DEF w
<1>9. CASE KdIsLast(b, l, e)
  <2>1. PICK i \in 1..Len(b) : /\ b[i] = e /\ b[i].letter = l
                               /\ \A j \in 1..Len(b) : j > i => b[j].letter # l
    BY <1>9 DEF KdIsLast
  <2>2. Len(s) + i \in own /\ w[Len(s) + i] = e
    BY <2>1, <1>3, <1>4, <1>6
  <2>3. ASSUME NEW j \in own, j > Len(s) + i PROVE FALSE
    <3>1. j \in (Len(s) + 1)..Len(w) /\ j - Len(s) > i
      BY <2>3, <1>3, <1>6
    <3> QED
      BY <3>1, <1>5, <2>1
  <2>4. \A j \in own : j <= Len(s) + i
    BY <2>3, <1>3, <1>6
  <2> QED
    BY <1>8, <2>2, <2>4 DEF w
<1>10. CASE ~KdHas(b, l) /\ KdIsLast(s, l, e)
  <2>1. PICK i \in 1..Len(s) : /\ s[i] = e /\ s[i].letter = l
                               /\ \A j \in 1..Len(s) : j > i => s[j].letter # l
    BY <1>10 DEF KdIsLast
  <2>2. i \in own /\ w[i] = e
    BY <2>1, <1>3, <1>6
  <2>3. ASSUME NEW j \in own, j > i PROVE FALSE
    <3>1. CASE j \in 1..Len(s)
      BY <3>1, <2>1, <2>3, <1>3
    <3>2. CASE j \in (Len(s) + 1)..Len(w)
      BY <3>2, <1>5, <1>10, <2>3 DEF KdHas
    <3> QED
      BY <3>1, <3>2, <1>3, <1>6
  <2>4. \A j \in own : j <= i
    BY <2>3, <1>3, <1>6
  <2> QED
    BY <1>8, <2>2, <2>4 DEF w
<1>11. CASE ~KdHas(b, l) /\ ~KdHas(s, l) /\ e = KD!Nothing
  <2>1. \A j \in 1..Len(w) : w[j].letter # l
    <3> SUFFICES ASSUME NEW j \in 1..Len(w) PROVE w[j].letter # l
      OBVIOUS
    <3>1. CASE j \in 1..Len(s)
      BY <3>1, <1>3, <1>11 DEF KdHas
    <3>2. CASE j \in (Len(s) + 1)..Len(w)
      BY <3>2, <1>5, <1>11 DEF KdHas
    <3> QED
      BY <3>1, <3>2, <1>3
  <2>2. own = {}
    BY <2>1, <1>6
  <2> QED
    BY <2>2, <1>7, <1>11 DEF w
<1> QED
  BY <1>9, <1>10, <1>11 DEF KdLast

\* An envelope is sent: it is the last of its letter.
LEMMA KdSent ==
  ASSUME NEW s, NEW b, KdSeq(b), NEW l, NEW e, NEW x
  PROVE  /\ x.letter = l => KdLast(s, Append(b, x), l, x)
         /\ x.letter # l /\ KdLast(s, b, l, e) => KdLast(s, Append(b, x), l, e)
<1> DEFINE c == Append(b, x)
<1>1. /\ Len(c) = Len(b) + 1 /\ Len(b) \in Nat /\ c[Len(b) + 1] = x
      /\ \A i \in 1..Len(b) : c[i] = b[i]
  BY KdAppended
<1> HIDE DEF c
<1>2. x.letter = l => KdIsLast(c, l, x)
  BY <1>1 DEF KdIsLast
<1>3. x.letter # l /\ KdIsLast(b, l, e) => KdIsLast(c, l, e)
  BY <1>1 DEF KdIsLast
<1>4. x.letter # l => (KdHas(c, l) <=> KdHas(b, l))
  BY <1>1 DEF KdHas
<1> QED
  BY <1>2, <1>3, <1>4 DEF KdLast, c

\* An envelope reaches the partition: of another letter, which may be any in the buffer ...
LEMMA KdOtherRemoved ==
  ASSUME NEW s, NEW b, KdSeq(b), NEW l, NEW e, KdLast(s, b, l, e),
         NEW i \in 1..Len(b), b[i].letter # l
  PROVE  KdLast(s, KD!RemoveAt(b, i), l, e)
<1> DEFINE c == KD!RemoveAt(b, i)
<1>1. /\ Len(c) = Len(b) - 1 /\ Len(b) \in Nat /\ \A j \in 1..(i - 1) : c[j] = b[j]
      /\ \A j \in i..(Len(b) - 1) : c[j] = b[j + 1]
  BY KdRemoved
<1> HIDE DEF c
<1>2. \A j \in 1..Len(c) : c[j] = b[IF j < i THEN j ELSE j + 1] /\ (IF j < i THEN j ELSE j + 1) \in 1..Len(b)
  BY <1>1
<1>3. KdHas(c, l) => KdHas(b, l)
  BY <1>2 DEF KdHas
<1>4. ASSUME KdIsLast(b, l, e) PROVE KdIsLast(c, l, e)
  <2>1. PICK k \in 1..Len(b) : /\ b[k] = e /\ b[k].letter = l
                               /\ \A j \in 1..Len(b) : j > k => b[j].letter # l
    BY <1>4 DEF KdIsLast
  <2>2. CASE k < i
    <3>1. k \in 1..Len(c) /\ c[k] = b[k]
      BY <2>2, <1>1
    <3>2. \A j \in 1..Len(c) : j > k => c[j].letter # l
      BY <1>2, <2>1, <2>2
    <3> QED
      BY <3>1, <3>2, <2>1 DEF KdIsLast
  <2>3. CASE k > i
    <3>1. k - 1 \in 1..Len(c) /\ c[k - 1] = b[k]
      BY <2>3, <1>1
    <3>2. \A j \in 1..Len(c) : j > k - 1 => c[j].letter # l
      BY <1>2, <1>1, <2>1, <2>3
    <3> QED
      BY <3>1, <3>2, <2>1 DEF KdIsLast
  <2> QED
    BY <2>1, <2>2, <2>3
<1> QED
  BY <1>3, <1>4 DEF KdLast, c

\* ... or the first of its partition.
LEMMA KdDelivered ==
  ASSUME NEW s, NEW b, KdSeq(s), KdSeq(b), NEW l, NEW e, KdLast(s, b, l, e),
         NEW i \in 1..Len(b), \A j \in 1..(i - 1) : b[j].letter # l
  PROVE  KdLast(Append(s, b[i]), KD!RemoveAt(b, i), l, e)
<1> DEFINE c == KD!RemoveAt(b, i)
           t == Append(s, b[i])
<1>1. /\ Len(c) = Len(b) - 1 /\ Len(b) \in Nat /\ \A j \in 1..(i - 1) : c[j] = b[j]
      /\ \A j \in i..(Len(b) - 1) : c[j] = b[j + 1]
  BY KdRemoved
<1>2. /\ Len(t) = Len(s) + 1 /\ Len(s) \in Nat /\ t[Len(s) + 1] = b[i]
      /\ \A j \in 1..Len(s) : t[j] = s[j]
  BY KdAppended
<1> HIDE DEF c, t
<1>3. CASE b[i].letter # l
  <2>1. KdLast(s, c, l, e)
    BY <1>3, KdOtherRemoved DEF c
  <2>2. (KdIsLast(s, l, e) => KdIsLast(t, l, e)) /\ (KdHas(t, l) <=> KdHas(s, l))
    BY <1>2, <1>3 DEF KdIsLast, KdHas
  <2> QED
    BY <2>1, <2>2 DEF KdLast, t, c
<1>4. CASE b[i].letter = l
  <2>1. KdHas(b, l)
    BY <1>4 DEF KdHas
  <2>2. PICK k \in 1..Len(b) : /\ b[k] = e /\ b[k].letter = l
                               /\ \A j \in 1..Len(b) : j > k => b[j].letter # l
    BY <2>1 DEF KdLast, KdIsLast
  <2>3. k >= i
    BY <1>1, <1>4, <2>2
  <2>4. \A j \in 1..Len(c) : c[j] = b[IF j < i THEN j ELSE j + 1] /\ (IF j < i THEN j ELSE j + 1) \in 1..Len(b)
    BY <1>1
  <2>5. CASE k = i
    <3>1. ~KdHas(c, l)
      BY <2>4, <2>2, <2>5, <1>1 DEF KdHas
    <3>2. KdIsLast(t, l, e)
      BY <1>2, <2>2, <2>5 DEF KdIsLast
    <3> QED
      BY <3>1, <3>2 DEF KdLast, c, t
  <2>6. CASE k > i
    <3>1. k - 1 \in 1..Len(c) /\ c[k - 1] = b[k]
      BY <2>6, <1>1
    <3>2. \A j \in 1..Len(c) : j > k - 1 => c[j].letter # l
      BY <2>4, <1>1, <2>2, <2>6
    <3>3. KdIsLast(c, l, e)
      BY <3>1, <3>2, <2>2 DEF KdIsLast
    <3> QED
      BY <3>3 DEF KdLast, c, t
  <2> QED
    BY <2>3, <2>5, <2>6
<1> QED
  BY <1>3, <1>4

LEMMA KdPart == ASSUME KdAssumptions, NEW l \in Letters PROVE KD!Part(l) \in KD!Parts
  BY DEF KdAssumptions, KD!Part, KD!Parts

LEMMA KdInitInv == ASSUME KdAssumptions, KD!Init PROVE KdInv
<1>1. KdSeq(<<>>) /\ Len(<<>>) = 0
  <2>1. <<>> \in Seq({})
    OBVIOUS
  <2> QED
    BY <2>1 DEF KdSeq
<1>2. KdTypes
  BY <1>1 DEF KdTypes, KD!Init
<1>3. \A l : ~KdHas(<<>>, l)
  BY <1>1 DEF KdHas
<1>4. KdKept
  BY <1>3, KdPart DEF KdKept, KdLast, KD!Init
<1> QED
  BY <1>2, <1>4 DEF KdInv

\* The sink appends an envelope.
LEMMA KdSend ==
  ASSUME KdInv, NEW x, NEW m \in Letters, x.letter = m, KD!Send(x), DOMAIN hand' = Letters,
         \A l \in Letters : hand'[l] = KD!Nothing \/ hand'[l].letter = l
  PROVE  KdInv'
<1>1. /\ store' = store /\ buffer' = Append(buffer, x) /\ client' = client /\ dropped' = dropped
      /\ client = "open" /\ intent' = [intent EXCEPT ![m] = x]
  BY DEF KD!Send
<1>2. KdSeq(buffer)
  BY DEF KdInv, KdTypes
<1>3. KdSeq(buffer')
  BY <1>1, <1>2, KdAppended
<1>4. DOMAIN intent' = Letters /\ intent'[m] = x /\ \A l \in Letters : l # m => intent'[l] = intent[l]
  BY <1>1 DEF KdInv, KdTypes
<1>5. KdTypes'
  BY <1>1, <1>3, <1>4 DEF KdInv, KdTypes
<1>6. ASSUME dropped = <<>>, NEW l \in Letters PROVE KdLast(store[KD!Part(l)], Append(buffer, x), l, intent'[l])
  <2>1. KdLast(store[KD!Part(l)], buffer, l, intent[l])
    BY <1>1, <1>6 DEF KdInv, KdKept
  <2>2. CASE l = m
    <3>1. KdLast(store[KD!Part(l)], Append(buffer, x), l, x)
      BY <1>2, <2>2, KdSent
    <3> QED
      BY <3>1, <2>2, <1>4
  <2>3. CASE l # m
    <3>1. KdLast(store[KD!Part(l)], Append(buffer, x), l, intent[l])
      BY <1>2, <2>1, <2>3, KdSent
    <3> QED
      BY <3>1, <2>3, <1>4
  <2> QED
    BY <2>2, <2>3
<1>7. KdKept'
  BY <1>1, <1>6 DEF KdKept, KD!Part
<1> QED
  BY <1>5, <1>7 DEF KdInv

\* What the source does changes no envelope.
LEMMA KdRead ==
  ASSUME KdInv, store' = store, buffer' = buffer, client' = client, dropped' = dropped, intent' = intent,
         DOMAIN hand' = Letters, \A l \in Letters : hand'[l] = KD!Nothing \/ hand'[l].letter = l
  PROVE  KdInv'
<1>1. KdTypes'
  BY DEF KdInv, KdTypes
<1>2. KdKept'
  BY DEF KdInv, KdKept, KD!Part
<1> QED
  BY <1>1, <1>2 DEF KdInv

LEMMA KdDeliver == ASSUME KdInv, KdAssumptions, NEW p \in KD!Parts, KD!Deliver(p) PROVE KdInv'
<1>1. PICK i \in DOMAIN buffer :
        /\ KD!Part(buffer[i].letter) = p
        /\ \A j \in 1..(i - 1) : KD!Part(buffer[j].letter) # p
        /\ store' = [store EXCEPT ![p] = Append(@, buffer[i])]
        /\ buffer' = KD!RemoveAt(buffer, i)
  BY DEF KD!Deliver
<1>2. client' = client /\ dropped' = dropped /\ hand' = hand /\ intent' = intent
  BY DEF KD!Deliver
<1>3. KdSeq(buffer) /\ KdSeq(store[p]) /\ DOMAIN store = KD!Parts
  BY DEF KdInv, KdTypes
<1>4. i \in 1..Len(buffer)
  BY <1>3 DEF KdSeq
<1>5. KdSeq(KD!RemoveAt(buffer, i)) /\ KdSeq(Append(store[p], buffer[i]))
  BY <1>3, <1>4, KdRemoved, KdAppended
<1>6. /\ DOMAIN store' = KD!Parts /\ store'[p] = Append(store[p], buffer[i])
      /\ \A q \in KD!Parts : q # p => store'[q] = store[q]
  BY <1>1, <1>3
<1>7. client # "closed"
  <2>1. buffer # <<>>
    BY <1>4
  <2> QED
    BY <2>1 DEF KdInv, KdTypes
<1>8. KdTypes'
  BY <1>1, <1>2, <1>5, <1>6, <1>7 DEF KdInv, KdTypes
<1>9. ASSUME dropped = <<>>, client # "dead", NEW l \in Letters
      PROVE  KdLast(store'[KD!Part(l)], KD!RemoveAt(buffer, i), l, intent[l])
  <2>1. KdLast(store[KD!Part(l)], buffer, l, intent[l]) /\ KD!Part(l) \in KD!Parts
    BY <1>9, KdPart DEF KdInv, KdKept
  <2>2. CASE KD!Part(l) = p
    <3>1. \A j \in 1..(i - 1) : buffer[j].letter # l
      BY <1>1, <2>2
    <3>2. KdLast(Append(store[p], buffer[i]), KD!RemoveAt(buffer, i), l, intent[l])
      BY <3>1, <2>1, <2>2, <1>3, <1>4, KdDelivered
    <3> QED
      BY <3>2, <2>2, <1>6
  <2>3. CASE KD!Part(l) # p
    <3>1. buffer[i].letter # l
      BY <1>1, <2>3
    <3>2. KdLast(store[KD!Part(l)], KD!RemoveAt(buffer, i), l, intent[l])
      BY <3>1, <2>1, <1>3, <1>4, KdOtherRemoved
    <3> QED
      BY <3>2, <2>1, <2>3, <1>6
  <2> QED
    BY <2>2, <2>3
<1>10. KdKept'
  BY <1>1, <1>2, <1>9 DEF KdKept, KD!Part
<1> QED
  BY <1>8, <1>10 DEF KdInv

LEMMA KdStep == ASSUME KdInv, KdAssumptions, [KD!Next]_KD!vars PROVE KdInv'
<1>1. ASSUME NEW l \in Letters, KD!Write(l) PROVE KdInv'
  <2>1. KD!Send(KD!Put(l)) /\ hand' = hand /\ KD!Put(l).letter = l
    BY <1>1 DEF KD!Write, KD!Put
  <2>2. DOMAIN hand' = Letters /\ \A m \in Letters : hand'[m] = KD!Nothing \/ hand'[m].letter = m
    BY <2>1 DEF KdInv, KdTypes
  <2> HIDE DEF KD!Put
  <2> QED
    BY <2>1, <2>2, KdSend
<1>2. ASSUME NEW l \in Letters, KD!Replay(l) PROVE KdInv'
  <2> DEFINE x == KD!Replayed(hand[l])
  <2>1. KD!Send(x) /\ hand' = [hand EXCEPT ![l] = x] /\ hand[l] # KD!Nothing
    BY <1>2 DEF KD!Replay
  <2>2. x.letter = l
    BY <2>1 DEF KD!Replayed, KdInv, KdTypes
  <2> HIDE DEF x
  <2>3. DOMAIN hand' = Letters /\ \A m \in Letters : hand'[m] = KD!Nothing \/ hand'[m].letter = m
    BY <2>1, <2>2 DEF KdInv, KdTypes
  <2> QED
    BY <2>1, <2>2, <2>3, KdSend
<1>3. ASSUME NEW l \in Letters, KD!Acknowledge(l) PROVE KdInv'
  <2>1. KD!Send(KD!Delete(l)) /\ hand' = [hand EXCEPT ![l] = KD!Nothing] /\ KD!Delete(l).letter = l
    BY <1>3 DEF KD!Acknowledge, KD!Delete
  <2> HIDE DEF KD!Delete, KD!Nothing
  <2>2. DOMAIN hand' = Letters /\ \A m \in Letters : hand'[m] = KD!Nothing \/ hand'[m].letter = m
    BY <2>1 DEF KdInv, KdTypes
  <2> QED
    BY <2>1, <2>2, KdSend
<1>4. ASSUME KD!DeliveryFails PROVE KdInv'
  <2>1. /\ dropped = <<>> /\ dropped' = Append(dropped, Head(buffer)) /\ buffer' = Tail(buffer)
        /\ buffer # <<>> /\ client = "open"
        /\ store' = store /\ client' = client /\ hand' = hand /\ intent' = intent
    BY <1>4 DEF KD!DeliveryFails
  <2>2. PICK S : buffer \in Seq(S)
    BY DEF KdInv, KdTypes, KdSeq
  <2>3. Tail(buffer) \in Seq(S)
    BY <2>1, <2>2
  <2>4. KdSeq(buffer')
    BY <2>1, <2>3 DEF KdSeq
  <2>5. dropped' # <<>>
    BY <2>1
  <2>6. KdTypes'
    BY <2>1, <2>4 DEF KdInv, KdTypes
  <2> QED
    BY <2>5, <2>6 DEF KdInv, KdKept
<1>5. ASSUME KD!Close PROVE KdInv'
  <2>1. /\ client = "open" /\ buffer = <<>> /\ buffer' = buffer /\ store' = store /\ dropped' = dropped
        /\ hand' = hand /\ intent' = intent
    BY <1>5 DEF KD!Close
  <2>2. KdTypes'
    BY <2>1 DEF KdInv, KdTypes
  <2>3. KdKept'
    BY <2>1 DEF KdInv, KdKept, KD!Part
  <2> QED
    BY <2>2, <2>3 DEF KdInv
<1>6. ASSUME KD!Crash PROVE KdInv'
  <2>1. client' = "dead" /\ buffer' = <<>> /\ store' = store /\ hand' = hand /\ intent' = intent
    BY <1>6 DEF KD!Crash
  <2>2. KdSeq(<<>>)
    <3>1. <<>> \in Seq({})
      OBVIOUS
    <3> QED
      BY <3>1 DEF KdSeq
  <2>3. KdTypes'
    BY <2>1, <2>2 DEF KdInv, KdTypes
  <2> QED
    BY <2>1, <2>3 DEF KdInv, KdKept
<1>7. ASSUME store' = store, buffer' = buffer, client' = client, dropped' = dropped, intent' = intent,
             hand' = hand \/ hand' = [l \in Letters |-> KD!Nothing]
      PROVE  KdInv'
  <2>1. DOMAIN hand' = Letters /\ \A l \in Letters : hand'[l] = KD!Nothing \/ hand'[l].letter = l
    BY <1>7 DEF KdInv, KdTypes
  <2> QED
    BY <1>7, <2>1, KdRead
<1>8. ASSUME KD!Offer PROVE KdInv'
  <2> DEFINE rec == Head(scan.todo)
  <2>1. /\ store' = store /\ buffer' = buffer /\ client' = client /\ dropped' = dropped /\ intent' = intent
        /\ hand' = hand \/ hand' = [hand EXCEPT ![rec.letter] = rec]
    BY <1>8 DEF KD!Offer
  <2> HIDE DEF rec
  <2>2. DOMAIN hand' = Letters /\ \A l \in Letters : hand'[l] = KD!Nothing \/ hand'[l].letter = l
    BY <2>1 DEF KdInv, KdTypes
  <2> QED
    BY <2>1, <2>2, KdRead
<1>9. CASE KD!Open \/ KD!CloseSource \/ KD!NotAssigned
  BY <1>7, <1>9 DEF KD!Open, KD!CloseSource, KD!NotAssigned
<1>10. CASE KD!Seek \/ KD!HighWater(TRUE) \/ KD!HighWater(FALSE) \/ KD!ScanEnds
  BY <1>7, <1>10 DEF KD!Seek, KD!HighWater, KD!ScanEnds
<1>11. ASSUME NEW f, KD!Join(f) \/ KD!Poll(f) PROVE KdInv'
  BY <1>7, <1>11 DEF KD!Join, KD!Poll
<1>12. CASE UNCHANGED KD!vars
  BY <1>7, <1>12 DEF KD!vars
<1> QED
  BY <1>1, <1>2, <1>3, <1>4, <1>5, <1>6, <1>8, <1>9, <1>10, <1>11, <1>12, KdDeliver DEF KD!Next

\* However deliveries to partitions overtake each other, the last envelope that a caller
\* has sent of a letter is the last one in the topic or on its way there, and in the topic
\* once close() has returned (KafkaDLQSink.write, acknowledge, close), until a delivery
\* fails or the process dies.
THEOREM KafkaLettersKept == ASSUME KdAssumptions PROVE KD!Spec => []KD!LettersKept
<1>1. KdInv => KD!LettersKept
  <2> SUFFICES ASSUME KdInv, dropped = <<>>, client # "dead", NEW l \in Letters
               PROVE  /\ KD!LastOf(store[KD!Part(l)] \o buffer, l) = intent[l]
                      /\ client = "closed" => KD!LastOf(store[KD!Part(l)], l) = intent[l]
    BY DEF KD!LettersKept
  <2>1. /\ KdLast(store[KD!Part(l)], buffer, l, intent[l])
        /\ KdSeq(store[KD!Part(l)]) /\ KdSeq(buffer)
    BY KdPart DEF KdInv, KdKept, KdTypes
  <2>2. KD!LastOf(store[KD!Part(l)] \o buffer, l) = intent[l]
    BY <2>1, KdLastOf
  <2>3. ASSUME client = "closed" PROVE store[KD!Part(l)] \o buffer = store[KD!Part(l)]
    <3>1. buffer = <<>>
      BY <2>3 DEF KdInv, KdTypes
    <3>2. PICK S : store[KD!Part(l)] \in Seq(S)
      BY <2>1 DEF KdSeq
    <3> QED
      BY <3>1, <3>2
  <2> QED
    BY <2>2, <2>3
<1>2. KdInv /\ [KD!Next]_KD!vars => KdInv'
  BY KdStep
<1>3. KD!Init => KdInv
  BY KdInitInv
<1> QED
  BY <1>1, <1>2, <1>3, PTL DEF KD!Spec

=============================================================================
