-------------------------- MODULE PostgresSinkProofs --------------------------
(***************************************************************************)
(* PostgresSink, for any finite set of callers, any batch and pool size    *)
(* and any number of failures: the pool keeps its size, every variable its *)
(* type, no row is lost, and a flush or an acknowledgement is durable.     *)
(*                                                                         *)
(* PoolBound is not inductive: close() sets the counter to zero, which is  *)
(* right only if no other caller has a connection.  PoolInv adds that a    *)
(* call of close() is alone.                                               *)
(*                                                                         *)
(* The proofs about rows first reduce every step of a call to one of five  *)
(* summaries (Does); each invariant is then shown against the summaries    *)
(* only: CallRows (whose rows a call has), DeliverInv (where the rows of   *)
(* deliver() are) and KeptInv (whose rows a step deletes).                 *)
(***************************************************************************)
EXTENDS PostgresSink, FiniteSetTheorems, TLAPS

Ops == {"none", "write", "deliver", "deliver_flush", "flush", "close"}

\* Callers: who is idle has no call, close() is alone and nothing follows it.
CallInv ==
    /\ pc \in [Tasks -> Where]
    /\ op \in [Tasks -> Ops]
    /\ closed \in BOOLEAN
    /\ \A t \in Tasks : pc[t] = "idle" <=> op[t] = "none"
    /\ \A t, u \in Tasks : op[t] = "close" /\ u # t => pc[u] = "idle"
    /\ closed => \A t \in Tasks : pc[t] = "idle"

PoolInv ==
    /\ config \in Configs
    /\ idle \in Nat /\ open \in Nat
    /\ CallInv
    /\ PoolBound

HolderPlaces == {"connect", "check", "execute", "discard"}

\* The step of task t ends its call.
Ends(t) ==
    /\ pc' = [pc EXCEPT ![t] = "idle"]
    /\ op' = [op EXCEPT ![t] = "none"]
    /\ closed' = (op[t] = "close")

\* The step of task t leads to the place w in the same call.
Moves(t, w) ==
    /\ pc' = [pc EXCEPT ![t] = w]
    /\ \E m \in Ops \ {"none"} :
          op' = [op EXCEPT ![t] = m] /\ (m = "close" => op[t] = "close")
    /\ closed' = closed

\* The step of task t ends its call or leads to a place without connection.
Resumes(t) == Ends(t) \/ \E w \in {"prepare", "acquire", "poison"} : Moves(t, w)

-----------------------------------------------------------------------------
(* What the operators of the model do to a task.                           *)

\* A task that is inside a call keeps CallInv when it moves or ends its call.
LEMMA MovesCall ==
    ASSUME CallInv, NEW t \in Tasks, pc[t] # "idle",
           NEW w \in Where \ {"idle"}, Moves(t, w)
    PROVE  CallInv'
  BY DEF CallInv, Moves

\* ... and when the call ends.
LEMMA EndsCall ==
    ASSUME CallInv, NEW t \in Tasks, pc[t] # "idle", Ends(t)
    PROVE  CallInv'
  BY DEF CallInv, Ends, Ops, Where

\* flush() on behalf of method m of a task that is inside a call.
LEMMA FlushNowResumes ==
    ASSUME NEW t \in Tasks, NEW m \in Ops \ {"none"}, NEW buf,
           m = "close" <=> op[t] = "close", FlushNow(t, m, buf)
    PROVE  Resumes(t)
  BY DEF FlushNow, Finish, Leave, BeginFlush, Goto, Resumes, Ends, Moves

\* The end of the write of method op[t].
LEMMA WriteDoneResumes ==
    ASSUME NEW t \in Tasks, NEW buf, WriteDone(t, op[t], buf)
    PROVE  Resumes(t)
  <1>1. CASE op[t] = "write" /\ Finish(t, op[t], buf)
    BY <1>1 DEF Finish, Leave, Goto, Resumes, Ends
  <1>2. CASE op[t] = "deliver" /\ FlushNow(t, "deliver_flush", buf)
    BY <1>2, FlushNowResumes DEF Ops
  <1> QED  BY <1>1, <1>2 DEF WriteDone

\* Rows appended by a task that is inside a call.
LEMMA EnqueueResumes ==
    ASSUME NEW t \in Tasks, op[t] \in Ops, op[t] # "none",
           NEW s, NEW buf, EnqueueRows(t, op[t], s, buf)
    PROVE  Resumes(t)
  <1>1. \/ \E rest, full : BeginFlush(t, op[t], rest, full) /\ UNCHANGED closed
        \/ \E full : WriteDone(t, op[t], full)
    BY DEF EnqueueRows
  <1>2. CASE \E rest, full : BeginFlush(t, op[t], rest, full) /\ UNCHANGED closed
    BY <1>2 DEF BeginFlush, Goto, Resumes, Moves
  <1>3. CASE \E full : WriteDone(t, op[t], full)
    BY <1>3, WriteDoneResumes
  <1> QED  BY <1>1, <1>2, <1>3

\* After a flush of a task that is inside a call.
LEMMA FlushReturnsResumes ==
    ASSUME NEW t \in Tasks, op[t] \in Ops, op[t] # "none", NEW buf,
           FlushReturns(t, buf)
    PROVE  Resumes(t)
  <1>1. CASE EnqueueRows(t, op[t], todo[t], buf)
    BY <1>1, EnqueueResumes
  <1>2. CASE WriteDone(t, op[t], buf)
    BY <1>2, WriteDoneResumes
  <1>3. CASE Finish(t, op[t], buf)
    BY <1>3 DEF Finish, Leave, Goto, Resumes, Ends
  <1> QED  BY <1>1, <1>2, <1>3 DEF FlushReturns

\* After a flush that raised.
LEMMA FlushRaisesResumes ==
    ASSUME NEW t \in Tasks, op \in [Tasks -> Ops], op[t] # "none", NEW known,
           FlushRaises(t, known)
    PROVE  Resumes(t)
  BY DEF FlushRaises, Leave, Goto, Resumes, Ends, Moves

\* After an attempt that got no connection.
LEMMA NoConnectionResumes ==
    ASSUME NEW t \in Tasks, op \in [Tasks -> Ops], op[t] # "none", NoConnection(t)
    PROVE  Resumes(t)
  <1>1. CASE Goto(t, "acquire") /\ UNCHANGED <<closed, op>>
    BY <1>1 DEF Goto, Resumes, Moves
  <1>2. CASE FlushRaises(t, FALSE)
    BY <1>2, FlushRaisesResumes
  <1> QED  BY <1>1, <1>2 DEF NoConnection

-----------------------------------------------------------------------------
(* Counting the tasks that have a connection.                              *)

\* There are finitely many.
LEMMA HoldersFinite == IsFiniteSet(Holders) /\ Cardinality(Holders) \in Nat
  <1>1. Holders \subseteq Tasks /\ IsFiniteSet(Tasks)
    BY SinkAssumption DEF Holders
  <1> QED  BY <1>1, FS_Subset, FS_CardinalityType

\* A step of one task adds that task to the holders, removes it, or neither.
LEMMA HoldersStep ==
    ASSUME pc \in [Tasks -> Where], NEW t \in Tasks, NEW w \in Where,
           pc' = [pc EXCEPT ![t] = w]
    PROVE  /\ t \in Holders <=> pc[t] \in HolderPlaces
           /\ w \in HolderPlaces => Holders' = Holders \cup {t}
           /\ w \notin HolderPlaces => Holders' = Holders \ {t}
  BY DEF Holders, HolderPlaces

\* What that does to their number.
LEMMA HoldersCount ==
    ASSUME pc \in [Tasks -> Where], NEW t \in Tasks, NEW w \in Where,
           pc' = [pc EXCEPT ![t] = w]
    PROVE  /\ Cardinality(Holders) \in Nat
           /\ Cardinality(Holders') \in Nat
           /\ Cardinality(Holders')
                = Cardinality(Holders)
                    - (IF pc[t] \in HolderPlaces THEN 1 ELSE 0)
                    + (IF w \in HolderPlaces THEN 1 ELSE 0)
  <1>1. IsFiniteSet(Holders) /\ Cardinality(Holders) \in Nat
    BY HoldersFinite
  <1>2. Cardinality(Holders \cup {t})
            = IF t \in Holders THEN Cardinality(Holders) ELSE Cardinality(Holders) + 1
    BY <1>1, FS_AddElement
  <1>3. /\ IsFiniteSet(Holders \ {t})
        /\ Cardinality(Holders \ {t})
            = IF t \in Holders THEN Cardinality(Holders) - 1 ELSE Cardinality(Holders)
    BY <1>1, FS_RemoveElement
  <1>4. Cardinality(Holders \ {t}) \in Nat
    BY <1>3, FS_CardinalityType
  <1>5. CASE w \in HolderPlaces
    <2>1. Holders' = Holders \cup {t} /\ (t \in Holders <=> pc[t] \in HolderPlaces)
      BY <1>5, HoldersStep
    <2> QED  BY <2>1, <1>1, <1>2, <1>5
  <1>6. CASE w \notin HolderPlaces
    <2>1. Holders' = Holders \ {t} /\ (t \in Holders <=> pc[t] \in HolderPlaces)
      BY <1>6, HoldersStep
    <2> QED  BY <2>1, <1>1, <1>3, <1>4, <1>6
  <1> QED  BY <1>5, <1>6

\* A task that ends its call or goes on without a connection gives up the one it
\* had; if that closed the sink, nobody has one.
LEMMA ResumesCount ==
    ASSUME CallInv, NEW t \in Tasks, pc[t] # "idle", Resumes(t)
    PROVE  /\ CallInv'
           /\ closed' \in BOOLEAN
           /\ Cardinality(Holders) \in Nat
           /\ Cardinality(Holders') \in Nat
           /\ Cardinality(Holders')
                = Cardinality(Holders) - (IF pc[t] \in HolderPlaces THEN 1 ELSE 0)
           /\ closed' => Cardinality(Holders') = 0
  <1>1. PICK w \in Where \ HolderPlaces : pc' = [pc EXCEPT ![t] = w]
    BY DEF Resumes, Ends, Moves, Where, HolderPlaces
  <1>2. CallInv'
    <2>1. CASE Ends(t)  BY <2>1, EndsCall
    <2>2. CASE \E v \in {"prepare", "acquire", "poison"} : Moves(t, v)
      BY <2>2, MovesCall DEF Where
    <2> QED  BY <2>1, <2>2 DEF Resumes
  <1>3. closed' \in BOOLEAN /\ (closed' => Cardinality(Holders') = 0)
    <2>1. closed' => Holders' = {}
      BY <1>2 DEF CallInv, Holders
    <2>2. Cardinality({}) = 0
      BY FS_EmptySet
    <2>3. closed' => Cardinality(Holders') = 0
      BY <2>1, <2>2
    <2>4. closed' \in BOOLEAN
      BY <1>2 DEF CallInv
    <2> QED  BY <2>3, <2>4
  <1>4. pc \in [Tasks -> Where] /\ w \in Where /\ w \notin HolderPlaces
    BY <1>1 DEF CallInv
  <1>5. /\ Cardinality(Holders) \in Nat
        /\ Cardinality(Holders') \in Nat
        /\ Cardinality(Holders')
             = Cardinality(Holders)
                 - (IF pc[t] \in HolderPlaces THEN 1 ELSE 0)
                 + (IF w \in HolderPlaces THEN 1 ELSE 0)
    BY <1>1, <1>4, HoldersCount
  <1> QED  BY <1>2, <1>3, <1>4, <1>5

-----------------------------------------------------------------------------
(* Every step keeps PoolInv.                                               *)

\* A task inside a call moves on, in the same call.
LEMMA MovesOn ==
    ASSUME PoolInv, NEW t \in Tasks, pc[t] # "idle", NEW w \in Where \ {"idle"},
           pc' = [pc EXCEPT ![t] = w], UNCHANGED <<op, closed>>
    PROVE  CallInv'
  <1>1. op[t] \in Ops \ {"none"} /\ op' = [op EXCEPT ![t] = op[t]]
    BY DEF PoolInv, CallInv
  <1>2. Moves(t, w)
    BY <1>1 DEF Moves
  <1> QED  BY <1>2, MovesCall DEF PoolInv

\* It moves on and neither gets nor gives up a connection.
LEMMA StaysPool ==
    ASSUME PoolInv, config' = config, NEW t \in Tasks, pc[t] # "idle",
           NEW w \in Where \ {"idle"}, pc' = [pc EXCEPT ![t] = w],
           UNCHANGED <<op, closed, idle, open>>,
           Pooled => (w \in HolderPlaces <=> pc[t] \in HolderPlaces)
    PROVE  PoolInv'
  <1>1. CallInv'
    BY MovesOn
  <1>2. Pooled => Holders' = Holders
    BY DEF PoolInv, CallInv, Holders, HolderPlaces
  <1> QED  BY <1>1, <1>2 DEF PoolInv, PoolBound, Pooled

\* It gets an idle connection, or a slot for a new one.
LEMMA JoinsPool ==
    ASSUME PoolInv, config' = config, NEW t \in Tasks, pc[t] \in {"acquire", "wait"},
           NEW w \in HolderPlaces, pc' = [pc EXCEPT ![t] = w],
           UNCHANGED <<op, closed>>,
           \/ idle > 0 /\ idle' = idle - 1 /\ open' = open
           \/ open < config.pool_size /\ open' = open + 1 /\ idle' = idle
    PROVE  PoolInv'
  <1>1. w \in Where \ {"idle"} /\ pc[t] # "idle" /\ pc[t] \notin HolderPlaces
    BY DEF Where, HolderPlaces
  <1>2. CallInv'
    BY <1>1, MovesOn
  <1>3. Cardinality(Holders) \in Nat /\ Cardinality(Holders') = Cardinality(Holders) + 1
    <2>1. pc \in [Tasks -> Where] /\ w \in Where
      BY <1>1 DEF PoolInv, CallInv
    <2>2. /\ Cardinality(Holders) \in Nat
          /\ Cardinality(Holders')
               = Cardinality(Holders)
                   - (IF pc[t] \in HolderPlaces THEN 1 ELSE 0)
                   + (IF w \in HolderPlaces THEN 1 ELSE 0)
      BY <2>1, HoldersCount
    <2> QED  BY <1>1, <2>2
  <1>4. config.pool_size \in Nat
    BY SinkAssumption DEF PoolInv, Config
  <1>5. PoolBound'
    BY <1>3, <1>4 DEF PoolInv, PoolBound, Pooled
  <1>6. idle' \in Nat /\ open' \in Nat
    BY DEF PoolInv
  <1> QED  BY <1>2, <1>5, <1>6 DEF PoolInv

\* A task without a connection ends its call or goes on.
LEMMA ResumesPool ==
    ASSUME PoolInv, config' = config, NEW t \in Tasks,
           pc[t] \notin HolderPlaces, pc[t] # "idle", Resumes(t),
           IF closed' THEN idle' = 0 /\ open' = 0 ELSE UNCHANGED <<idle, open>>
    PROVE  PoolInv'
  <1>1. /\ CallInv'
        /\ closed' \in BOOLEAN
        /\ Cardinality(Holders') = Cardinality(Holders) - 0
        /\ closed' => Cardinality(Holders') = 0
        /\ Cardinality(Holders) \in Nat
    BY ResumesCount DEF PoolInv
  <1>2. config \in Config
    BY SinkAssumption DEF PoolInv
  <1> QED  BY <1>1, <1>2 DEF PoolInv, PoolBound, Pooled, Config

\* A task gives up its connection: it goes back to the pool or leaves it.
LEMMA ReleasesPool ==
    ASSUME PoolInv, config' = config, NEW t \in Tasks,
           pc[t] \in HolderPlaces, Resumes(t),
           \/ closed' /\ idle' = 0 /\ open' = 0
           \/ ~closed' /\ idle' = (IF Pooled THEN idle + 1 ELSE idle) /\ open' = open
           \/ ~closed' /\ idle' = idle
                /\ open' = (IF Pooled /\ open > 0 THEN open - 1 ELSE open)
    PROVE  PoolInv'
  <1>1. pc[t] # "idle"
    BY DEF HolderPlaces
  <1>2. /\ CallInv'
        /\ closed' \in BOOLEAN
        /\ Cardinality(Holders') = Cardinality(Holders) - 1
        /\ closed' => Cardinality(Holders') = 0
        /\ Cardinality(Holders) \in Nat /\ Cardinality(Holders') \in Nat
    BY <1>1, ResumesCount DEF PoolInv
  <1>3. config \in Config
    BY SinkAssumption DEF PoolInv
  <1> QED  BY <1>2, <1>3 DEF PoolInv, PoolBound, Pooled, Config

\* A call begins.
LEMMA CallPool ==
    ASSUME PoolInv, config' = config, NEW t \in Tasks, NEW m \in Methods,
           NEW n, Call(t, m, n)
    PROVE  PoolInv'
  <1>1. /\ pc[t] = "idle" /\ closed = FALSE
        /\ pc' = [pc EXCEPT ![t] = "start"] /\ op' = [op EXCEPT ![t] = m]
        /\ \A u \in Tasks : op[u] # "close" /\ (m = "close" => pc[u] = "idle")
        /\ UNCHANGED <<closed, idle, open>>
    BY DEF Call, Busy, Goto, PoolInv, CallInv, poolVars
  <1>2. m \in Ops /\ m # "none"
    BY DEF Methods, Ops
  <1>3. CallInv'
    BY <1>1, <1>2 DEF PoolInv, CallInv, Where
  <1>4. Holders' = Holders
    BY <1>1 DEF Holders, PoolInv, CallInv
  <1> QED  BY <1>1, <1>3, <1>4 DEF PoolInv, PoolBound, Pooled

\* A task without a connection, inside a call.
LEMMA WithoutConnection ==
    ASSUME PoolInv, config' = config, NEW t \in Tasks,
           \/ Begin(t) \/ BeginBare(t) \/ ColumnsFail(t) \/ Timeout(t)
           \/ PoisonWritten(t) \/ PoisonFails(t)
    PROVE  PoolInv'
  <1>1. pc[t] \in {"start", "prepare", "wait", "poison"}
    BY DEF Begin, BeginBare, ColumnsFail, Timeout, PoisonWritten, PoisonFails
  <1>2. /\ op \in [Tasks -> Ops] /\ op[t] \in Ops /\ op[t] # "none" /\ closed = FALSE
    BY <1>1 DEF PoolInv, CallInv
  <1>3. pc[t] \notin HolderPlaces /\ pc[t] # "idle"
    BY <1>1 DEF HolderPlaces
  <1>4. Resumes(t)
    <2>1. CASE Begin(t)
      <3>1. CASE EnqueueRows(t, op[t], todo[t], buffer)
        BY <3>1, <1>2, EnqueueResumes
      <3>2. CASE Leave(t, FALSE) /\ UNCHANGED closed
        BY <3>2, <2>1, <1>2 DEF Begin, Leave, Goto, Resumes, Ends
      <3> QED  BY <2>1, <3>1, <3>2 DEF Begin
    <2>2. CASE BeginBare(t)
      BY <2>2, <1>2, FlushNowResumes DEF BeginBare
    <2>3. CASE ColumnsFail(t)
      <3>1. CASE FlushRaises(t, FALSE)
        BY <3>1, <1>2, FlushRaisesResumes
      <3>2. CASE op[t] \in {"write", "deliver"} /\ Leave(t, FALSE) /\ UNCHANGED closed
        BY <3>2, <1>2 DEF Leave, Goto, Resumes, Ends
      <3> QED  BY <2>3, <3>1, <3>2 DEF ColumnsFail
    <2>4. CASE Timeout(t)
      BY <2>4, <1>2, NoConnectionResumes DEF Timeout
    <2>5. CASE PoisonWritten(t)
      BY <2>5, <1>2 DEF PoisonWritten, Finish, Leave, Goto, Resumes, Ends
    <2>6. CASE PoisonFails(t)
      BY <2>6, <1>2 DEF PoisonFails, Leave, Goto, Resumes, Ends
    <2> QED  BY <2>1, <2>2, <2>3, <2>4, <2>5, <2>6
  <1>5. IF closed' THEN idle' = 0 /\ open' = 0 ELSE UNCHANGED <<idle, open>>
    <2>1. CASE Begin(t)
      <3>1. closed' = FALSE
        BY <2>1, <1>2, <1>4 DEF Begin, Resumes, Ends, Moves
      <3> QED  BY <2>1, <3>1 DEF Begin
    <2>2. CASE ~Begin(t)
      <3>1. Teardown
        BY <2>2 DEF BeginBare, ColumnsFail, Timeout, PoisonWritten, PoisonFails
      <3> QED  BY <3>1 DEF Teardown, poolVars
    <2> QED  BY <2>1, <2>2
  <1> QED  BY <1>3, <1>4, <1>5, ResumesPool

\* A task that stays in its call and moves on.
LEMMA Onwards ==
    ASSUME PoolInv, config' = config, NEW t \in Tasks,
           \/ Prepare(t) \/ Acquire(t) \/ Wake(t) \/ Connected(t) \/ Healthy(t)
           \/ Unhealthy(t) \/ Reject(t) \/ ExecuteFails(t)
    PROVE  PoolInv'
  <1>1. CASE Prepare(t)
    <2>1. /\ pc[t] = "prepare" /\ pc' = [pc EXCEPT ![t] = "acquire"]
          /\ UNCHANGED <<op, closed, idle, open>>
      BY <1>1 DEF Prepare, Goto
    <2> QED  BY <2>1, StaysPool DEF Where, HolderPlaces
  <1>2. CASE Acquire(t)
    <2>1. pc[t] = "acquire" /\ UNCHANGED <<op, closed>>
      BY <1>2 DEF Acquire
    <2>2. CASE ~Pooled /\ UNCHANGED <<idle, open>>
                 /\ \E w \in {"execute", "connect"} : pc' = [pc EXCEPT ![t] = w]
      BY <2>1, <2>2, StaysPool DEF Where
    <2>3. CASE idle > 0 /\ idle' = idle - 1 /\ open' = open
                 /\ \E w \in {"check", "execute"} : pc' = [pc EXCEPT ![t] = w]
      BY <2>1, <2>3, JoinsPool DEF HolderPlaces
    <2>4. CASE idle' = idle /\ open < config.pool_size /\ open' = open + 1
                 /\ pc' = [pc EXCEPT ![t] = "connect"]
      BY <2>1, <2>4, JoinsPool DEF HolderPlaces
    <2>5. CASE UNCHANGED <<idle, open>> /\ pc' = [pc EXCEPT ![t] = "wait"]
      BY <2>1, <2>5, StaysPool DEF Where, HolderPlaces
    <2> QED  BY <1>2, <2>2, <2>3, <2>4, <2>5 DEF Acquire, Goto, HasRoom
  <1>3. CASE Wake(t)
    <2>1. /\ pc[t] = "wait" /\ idle > 0 /\ idle' = idle - 1 /\ UNCHANGED <<op, closed, open>>
          /\ \E w \in {"check", "execute"} : pc' = [pc EXCEPT ![t] = w]
      BY <1>3 DEF Wake, Goto
    <2> QED  BY <2>1, JoinsPool DEF HolderPlaces
  <1>4. CASE \/ Connected(t) \/ Healthy(t) \/ Unhealthy(t) \/ Reject(t) \/ ExecuteFails(t)
    <2>1. /\ pc[t] \in {"connect", "check", "execute"}
          /\ \E w \in {"execute", "discard"} : pc' = [pc EXCEPT ![t] = w]
          /\ UNCHANGED <<op, closed, idle, open>>
      BY <1>4 DEF Connected, Healthy, Unhealthy, Reject, ExecuteFails, Goto, poolVars
    <2> QED  BY <2>1, StaysPool DEF Where, HolderPlaces
  <1> QED  BY <1>1, <1>2, <1>3, <1>4

\* A task that gives up its connection.
LEMMA Releases ==
    ASSUME PoolInv, config' = config, NEW t \in Tasks,
           Commit(t) \/ Discard(t) \/ ConnectFails(t)
    PROVE  PoolInv'
  <1>1. pc[t] \in HolderPlaces /\ pc[t] # "idle"
    BY DEF Commit, Discard, ConnectFails, HolderPlaces
  <1>2. op \in [Tasks -> Ops] /\ op[t] \in Ops /\ op[t] # "none"
    BY <1>1 DEF PoolInv, CallInv
  <1>3. Resumes(t)
    <2>1. CASE Commit(t)
      BY <2>1, <1>2, FlushReturnsResumes DEF Commit
    <2>2. CASE Discard(t)
      <3>1. CASE Goto(t, "acquire") /\ UNCHANGED <<closed, op>>
        BY <3>1, <1>2 DEF Goto, Resumes, Moves
      <3>2. CASE FlushRaises(t, then[t] = "known")
        BY <3>2, <1>2, FlushRaisesResumes
      <3> QED  BY <2>2, <3>1, <3>2 DEF Discard
    <2>3. CASE ConnectFails(t)
      BY <2>3, <1>2, NoConnectionResumes DEF ConnectFails
    <2> QED  BY <2>1, <2>2, <2>3
  <1>4. \/ closed' /\ idle' = 0 /\ open' = 0
        \/ ~closed' /\ idle' = (IF Pooled THEN idle + 1 ELSE idle) /\ open' = open
        \/ ~closed' /\ idle' = idle
             /\ open' = (IF Pooled /\ open > 0 THEN open - 1 ELSE open)
    BY DEF Commit, Discard, ConnectFails, Teardown
  <1> QED  BY <1>1, <1>3, <1>4, ReleasesPool

\* PoolInv holds in every state.
LEMMA PoolInvariant == Spec => []PoolInv
  <1>1. Init => PoolInv
    <2> SUFFICES ASSUME Init PROVE PoolInv
      OBVIOUS
    <2>1. Holders = {}
      BY DEF Init, Holders
    <2>2. Cardinality(Holders) = 0
      BY <2>1, FS_EmptySet
    <2>3. config \in Config
      BY SinkAssumption DEF Init
    <2>4. PoolBound
      BY <2>2, <2>3 DEF Init, PoolBound, Pooled, Config
    <2> QED  BY <2>4 DEF Init, PoolInv, CallInv, Ops, Where
  <1>2. PoolInv /\ [Next]_vars => PoolInv'
    <2> SUFFICES ASSUME PoolInv, [Next]_vars PROVE PoolInv'
      OBVIOUS
    <2>1. CASE UNCHANGED <<config, pc, op, closed, idle, open>>
      BY <2>1 DEF PoolInv, CallInv, PoolBound, Pooled, Holders
    <2>2. CASE config' = config /\ \E t \in Tasks : Enter(t)
      BY <2>2, CallPool DEF Enter, Methods
    <2>3. CASE config' = config /\ \E t \in Tasks : Proceed(t)
      BY <2>3, WithoutConnection, Onwards, Releases DEF Proceed
    <2> QED  BY <2>1, <2>2, <2>3 DEF Next, Step, Invalidate, vars, poolVars, taskVars
  <1> QED  BY <1>1, <1>2, PTL DEF Spec

\* The counter of the pool is the number of its connections, and never more than
\* pool_size, whoever fails to connect, is discarded, waits or closes the sink.
THEOREM PoolKeepsSize == Spec => []PoolBound
  <1>1. PoolInv => PoolBound
    BY DEF PoolInv
  <1> QED  BY <1>1, PoolInvariant, PTL

-----------------------------------------------------------------------------
(* Rows of a buffer.                                                       *)

\* An empty buffer has no rows.
LEMMA RowsOfNone == ToSet(<<>>) = {}
  BY DEF ToSet

\* A sequence without rows is empty.
LEMMA NoRows ==
    ASSUME NEW s \in Seq(Rows), ToSet(s) = {}
    PROVE  s = <<>>
  <1>1. SUFFICES ASSUME 1 \in DOMAIN s PROVE FALSE
    OBVIOUS
  <1> QED  BY <1>1 DEF ToSet

\* Deleting as many rows as there are empties a buffer.
LEMMA WithoutAll ==
    ASSUME NEW S, NEW b \in Seq(S)
    PROVE  Without(Len(b), b) = <<>>
  BY DEF Without

\* What is left after deleting a prefix.
LEMMA WithoutRows ==
    ASSUME NEW S, NEW b \in Seq(S), NEW n \in Nat
    PROVE  Without(n, b) \in Seq(S)
  BY DEF Without

\* The rows of a sequence are those of a prefix and those of the rest.
LEMMA SplitRows ==
    ASSUME NEW S, NEW s \in Seq(S), NEW n \in 0..Len(s)
    PROVE  /\ ToSet(s) = {s[i] : i \in 1..n} \cup ToSet(Without(n, s))
           /\ n = Len(s) => Without(n, s) = <<>>
  <1> DEFINE r == Without(n, s)
  <1>1. /\ r \in Seq(S) /\ Len(r) = Len(s) - n
        /\ \A i \in 1..Len(r) : r[i] = s[n + i]
    BY DEF Without
  <1>2. DOMAIN s = 1..Len(s) /\ DOMAIN r = 1..Len(r) /\ Len(s) \in Nat
    BY <1>1
  <1>3. ASSUME NEW i \in DOMAIN s PROVE s[i] \in {s[j] : j \in 1..n} \cup ToSet(r)
    <2>1. CASE i <= n
      BY <2>1, <1>2
    <2>2. CASE i > n
      <3>1. i - n \in 1..Len(r) /\ r[i - n] = s[i]
        BY <2>2, <1>1, <1>2
      <3> QED  BY <3>1, <1>2 DEF ToSet
    <2> QED  BY <2>1, <2>2, <1>2
  <1>4. ASSUME NEW i \in 1..n PROVE s[i] \in ToSet(s)
    BY <1>2 DEF ToSet
  <1>5. ASSUME NEW i \in DOMAIN r PROVE r[i] \in ToSet(s)
    BY <1>1, <1>2 DEF ToSet
  <1>6. ToSet(s) = {s[i] : i \in DOMAIN s} /\ ToSet(r) = {r[i] : i \in DOMAIN r}
    BY DEF ToSet
  <1>7. n = Len(s) => r = <<>>
    BY DEF Without
  <1> HIDE DEF r
  <1>8. ToSet(s) = {s[i] : i \in 1..n} \cup ToSet(r)
    BY <1>3, <1>4, <1>5, <1>6
  <1> QED  BY <1>7, <1>8 DEF r

\* Appending a prefix of s to a buffer.
LEMMA AppendRows ==
    ASSUME NEW S, NEW b \in Seq(S), NEW s \in Seq(S), NEW n \in 0..Len(s)
    PROVE  /\ b \o SubSeq(s, 1, n) \in Seq(S)
           /\ ToSet(b \o SubSeq(s, 1, n)) = ToSet(b) \cup {s[i] : i \in 1..n}
           /\ Len(b \o SubSeq(s, 1, n)) = Len(b) + n
  <1> DEFINE p == SubSeq(s, 1, n)
             f == b \o p
  <1>1. /\ p \in Seq(S) /\ Len(p) = n
        /\ \A i \in 1..n : p[i] = s[i]
    OBVIOUS
  <1> HIDE DEF p
  <1>2. /\ f \in Seq(S) /\ Len(f) = Len(b) + n
        /\ \A i \in 1..Len(b) : f[i] = b[i]
        /\ \A i \in 1..n : f[Len(b) + i] = p[i]
    BY <1>1
  <1> HIDE DEF f
  <1>3. /\ ToSet(f) = {f[i] : i \in 1..(Len(b) + n)} /\ ToSet(b) = {b[i] : i \in 1..Len(b)}
        /\ Len(b) \in Nat
    <2>1. DOMAIN f = 1..(Len(b) + n) /\ DOMAIN b = 1..Len(b) /\ Len(b) \in Nat
      BY <1>2
    <2> QED  BY <2>1 DEF ToSet
  <1>4. ASSUME NEW i \in 1..(Len(b) + n)
        PROVE  f[i] \in ToSet(b) \cup {s[j] : j \in 1..n}
    <2>1. CASE i <= Len(b)
      BY <2>1, <1>2, <1>3
    <2>2. CASE i > Len(b)
      <3>1. i - Len(b) \in 1..n /\ f[i] = s[i - Len(b)]
        BY <2>2, <1>1, <1>2, <1>3
      <3> QED  BY <3>1
    <2> QED  BY <2>1, <2>2, <1>3
  <1>5. ASSUME NEW i \in 1..Len(b) PROVE b[i] \in ToSet(f)
    BY <1>2, <1>3
  <1>6. ASSUME NEW i \in 1..n PROVE s[i] \in ToSet(f)
    <2>1. Len(b) + i \in 1..(Len(b) + n) /\ f[Len(b) + i] = s[i]
      BY <1>1, <1>2, <1>3
    <2> QED  BY <2>1, <1>3
  <1>7. ToSet(f) = ToSet(b) \cup {s[i] : i \in 1..n}
    BY <1>3, <1>4, <1>5, <1>6
  <1> QED  BY <1>2, <1>7 DEF f, p

-----------------------------------------------------------------------------
(* What a step of a call does to its rows: it goes on with them, fails,    *)
(* stays in its flush, or hears from the poison sink.                      *)

FlushPlaces == {"prepare", "acquire", "wait", "connect", "check", "execute", "discard"}

\* The call ends and the task forgets its rows.
Clears(t) ==
    /\ Ends(t)
    /\ todo' = [todo EXCEPT ![t] = <<>>]
    /\ mine' = [mine EXCEPT ![t] = {}]
    /\ snap' = [snap EXCEPT ![t] = <<>>]
    /\ attempt' = [attempt EXCEPT ![t] = 0]
    /\ then' = [then EXCEPT ![t] = "none"]

Raises(t) == Clears(t) /\ told' = told \cup mine[t]

Returns(t) ==
    /\ Clears(t)
    /\ told' = told
    /\ acked' = IF op[t] \in {"deliver", "deliver_flush"} THEN acked \cup mine[t] ELSE acked
    /\ promised' = IF op[t] \in {"flush", "close"} THEN appended ELSE promised

\* A flush of the buffer full begins, the rows rest are still to be appended.
Flushes(t, rest, full) ==
    /\ \E w \in {"prepare", "acquire"} : pc' = [pc EXCEPT ![t] = w]
    /\ \E m \in Ops :
          /\ op' = [op EXCEPT ![t] = m]
          /\ m = op[t] \/ (op[t] = "deliver" /\ m = "deliver_flush" /\ rest = <<>>)
    /\ todo' = [todo EXCEPT ![t] = rest]
    /\ snap' = [snap EXCEPT ![t] = full]
    /\ attempt' = [attempt EXCEPT ![t] = 1]
    /\ then' = [then EXCEPT ![t] = "none"]
    /\ UNCHANGED <<mine, told, closed, acked, promised>>

\* The task appends rows to the buffer buf and flushes the result, or returns.  It
\* returns with rows in the buffer only from a flush, or from a write() that did not fill it.
Continues(t, buf) ==
    \E rows \in SUBSET Rows, full \in Seq(Rows), rest \in Seq(Rows) :
        /\ appended' = appended \cup rows
        /\ ToSet(full) = ToSet(buf) \cup rows
        /\ rows \cup ToSet(rest) = ToSet(todo[t])
        /\ buffer' = full
        /\ \/ Flushes(t, rest, full)
           \/ /\ rest = <<>> /\ Returns(t)
              /\ op[t] = "deliver" => full = <<>>
              /\ \/ full = <<>>
                 \/ full = buf /\ pc[t] # "start"
                 \/ op[t] = "write" /\ config.batch_size > 1

\* The call raises, or hands the buffer to the poison sink.
Fails(t) ==
    /\ \/ /\ pc' = [pc EXCEPT ![t] = "poison"] /\ op' = op
          /\ snap' = [snap EXCEPT ![t] = buffer]
          /\ then' = [then EXCEPT ![t] = "none"]
          /\ UNCHANGED <<buffer, closed, todo, mine, attempt, told>>
       \/ /\ Raises(t)
          /\ buffer' = buffer \/ (buffer' = <<>> /\ config.batch_size = 1)
    /\ UNCHANGED <<appended, acked, promised>>

\* The flush goes on.
Stays(t) ==
    /\ pc[t] \in FlushPlaces
    /\ \E w \in FlushPlaces : pc' = [pc EXCEPT ![t] = w]
    /\ attempt' \in [Tasks -> 0..MaxAttempts]
    /\ then' \in [Tasks -> {"none", "acquire", "known", "unknown"}]
    /\ UNCHANGED <<buffer, closed, op, todo, mine, snap, appended, told, acked, promised>>

\* The poison sink has taken the rows of the buffer.
Poisons(t) ==
    /\ pc[t] = "poison"
    /\ dlq' = dlq \cup ToSet(snap[t])
    /\ buffer' = Without(Len(snap[t]), buffer)
    /\ \/ op[t] = "close" /\ Returns(t)
       \/ op[t] # "close" /\ Raises(t) /\ UNCHANGED <<acked, promised>>
    /\ UNCHANGED <<table, appended>>

\* What a step of task t does.
Does(t) ==
    \/ pc[t] = "start" /\ Continues(t, buffer) /\ UNCHANGED <<table, dlq>>
    \/ /\ pc[t] = "execute" /\ Continues(t, Without(Len(snap[t]), buffer))
       /\ table' = table \cup ToSet(snap[t]) /\ UNCHANGED dlq
    \/ pc[t] # "idle" /\ Fails(t) /\ UNCHANGED <<table, dlq>>
    \/ Stays(t) /\ UNCHANGED dlq /\ (table' = table \/ table' = table \cup ToSet(snap[t]))
    \/ Poisons(t)

\* A step that appends nothing.
LEMMA AppendsNone ==
    ASSUME NEW t \in Tasks, NEW buf \in Seq(Rows), todo[t] = <<>>, UNCHANGED appended,
           buffer' = buf,
           \/ Flushes(t, <<>>, buf)
           \/ /\ Returns(t) /\ (op[t] = "deliver" => buf = <<>>)
              /\ buf = <<>> \/ pc[t] # "start"
    PROVE  Continues(t, buf)
  <1> DEFINE rows == {}
             rest == <<>>
  <1>1. rows \in SUBSET Rows /\ rest \in Seq(Rows) /\ buf \in Seq(Rows)
    OBVIOUS
  <1>2. /\ appended' = appended \cup rows
        /\ ToSet(buf) = ToSet(buf) \cup rows
        /\ rows \cup ToSet(rest) = ToSet(todo[t])
        /\ buffer' = buf
        /\ \/ Flushes(t, rest, buf)
           \/ /\ rest = <<>> /\ Returns(t)
              /\ op[t] = "deliver" => buf = <<>>
              /\ \/ buf = <<>>
                 \/ buf = buf /\ pc[t] # "start"
                 \/ op[t] = "write" /\ config.batch_size > 1
    OBVIOUS
  <1> HIDE DEF rows, rest
  <1> QED  BY <1>1, <1>2, Zenon DEF Continues

\* flush() on behalf of the method of the task, or after the write of deliver().
LEMMA FlushNowRows ==
    ASSUME TypeOK, CallInv, NEW t \in Tasks, op[t] # "none", NEW buf \in Seq(Rows), NEW m \in Ops,
           todo[t] = <<>>, appended' = appended, FlushNow(t, m, buf),
           op[t] = "deliver" => m = "deliver_flush",
           op[t] # "deliver" => m = op[t] /\ m \in {"flush", "close"}
    PROVE  Continues(t, buf)
  <1>1. CASE buf = <<>> /\ Finish(t, m, buf)
    <2>1. Returns(t) /\ buffer' = <<>>
      BY <1>1 DEF Finish, Leave, Goto, Returns, Clears, Ends
    <2> QED  BY <1>1, <2>1, AppendsNone
  <1>2. CASE buf # <<>> /\ buffer' = buf /\ BeginFlush(t, m, <<>>, buf)
               /\ UNCHANGED <<closed, acked, promised>>
    <2>1. Flushes(t, <<>>, buf)
      BY <1>2 DEF BeginFlush, Goto, Flushes, Ops
    <2> QED  BY <1>2, <2>1, AppendsNone
  <1> QED  BY <1>1, <1>2 DEF FlushNow

\* The rows s of a write are appended as far as they fit.
LEMMA EnqueueRowsKept ==
    ASSUME TypeOK, CallInv, NEW t \in Tasks, op[t] \in {"write", "deliver"},
           NEW buf \in Seq(Rows), todo[t] # <<>>, EnqueueRows(t, op[t], todo[t], buf)
    PROVE  Continues(t, buf)
  <1> DEFINE s    == todo[t]
             room == IF config.batch_size > Len(buf) THEN config.batch_size - Len(buf) ELSE 1
             n    == IF room < Len(s) THEN room ELSE Len(s)
             full == buf \o SubSeq(s, 1, n)
             rest == Without(n, s)
             rows == {s[i] : i \in 1..n}
  <1>1. /\ s \in Seq(Rows) /\ config.batch_size \in Nat \ {0}
    <2>1. config \in Config
      BY SinkAssumption DEF TypeOK
    <2>2. config.batch_size \in Nat \ {0}
      BY <2>1 DEF Config
    <2>3. s \in Seq(Rows)
      BY DEF TypeOK
    <2> QED  BY <2>2, <2>3
  <1>2. n \in 1..Len(s) /\ (n < Len(s) => Len(buf) + n >= config.batch_size)
    <2>1. s # <<>>
      OBVIOUS
    <2> HIDE DEF s
    <2>2. Len(s) \in Nat \ {0} /\ Len(buf) \in Nat
      BY <1>1, <2>1
    <2> QED  BY <1>1, <2>2
  <1>3. /\ appended' = appended \cup rows
        /\ \/ /\ Len(full) >= config.batch_size /\ buffer' = full
              /\ BeginFlush(t, op[t], rest, full)
              /\ UNCHANGED <<closed, acked, promised>>
           \/ Len(full) < config.batch_size /\ WriteDone(t, op[t], full)
    BY DEF EnqueueRows
  <1> HIDE DEF room, n
  <1>4. /\ full \in Seq(Rows) /\ ToSet(full) = ToSet(buf) \cup rows
        /\ Len(full) = Len(buf) + n
    <2>1. n \in 0..Len(s)
      BY <1>2
    <2>2. /\ buf \o SubSeq(s, 1, n) \in Seq(Rows)
          /\ ToSet(buf \o SubSeq(s, 1, n)) = ToSet(buf) \cup {s[i] : i \in 1..n}
          /\ Len(buf \o SubSeq(s, 1, n)) = Len(buf) + n
      <3> HIDE DEF s
      <3> QED  BY <1>1, <2>1, AppendRows
    <2> QED  BY <2>2
  <1>5. /\ rest \in Seq(Rows) /\ ToSet(s) = rows \cup ToSet(rest)
        /\ n = Len(s) => rest = <<>>
    <2>1. n \in 0..Len(s) /\ n \in Nat
      BY <1>1, <1>2
    <2> QED  BY <1>1, <2>1, SplitRows, WithoutRows, Zenon
  <1>6. rows \in SUBSET Rows
    BY <1>1, <1>2
  <1> HIDE DEF full, rest, rows
  <1>7. CASE /\ buffer' = full /\ BeginFlush(t, op[t], rest, full)
             /\ UNCHANGED <<closed, acked, promised>>
    <2>1. Flushes(t, rest, full)
      BY <1>7 DEF BeginFlush, Goto, Flushes, CallInv
    <2> QED  BY <1>3, <1>4, <1>5, <1>6, <1>7, <2>1 DEF Continues
  <1>8. CASE Len(full) < config.batch_size /\ WriteDone(t, op[t], full)
    <2>1. rest = <<>> /\ rows = ToSet(s)
      BY <1>1, <1>2, <1>4, <1>5, <1>8, RowsOfNone
    <2>2. CASE op[t] = "write" /\ Finish(t, op[t], full)
      <3>1. Returns(t) /\ buffer' = full
        BY <2>2 DEF Finish, Leave, Goto, Returns, Clears, Ends
      <3>2. config.batch_size > 1
        BY <1>1, <1>2, <1>4, <1>8
      <3> QED  BY <1>3, <1>4, <1>5, <1>6, <2>1, <2>2, <3>1, <3>2 DEF Continues
    <2>3. CASE op[t] = "deliver" /\ FlushNow(t, "deliver_flush", full)
      <3>1. full # <<>>
        BY <1>1, <1>2, <1>4
      <3>2. /\ buffer' = full /\ BeginFlush(t, "deliver_flush", <<>>, full)
            /\ UNCHANGED <<closed, acked, promised>>
        BY <2>3, <3>1 DEF FlushNow
      <3>3. Flushes(t, rest, full)
        BY <2>1, <2>3, <3>2 DEF BeginFlush, Goto, Flushes, Ops
      <3> QED  BY <1>3, <1>4, <1>5, <1>6, <3>2, <3>3 DEF Continues
    <2> QED  BY <1>8, <2>2, <2>3 DEF WriteDone
  <1> QED  BY <1>3, <1>7, <1>8

\* After a flush that has left the buffer buf.
LEMMA FlushReturnsRows ==
    ASSUME TypeOK, CallInv, NEW t \in Tasks, pc[t] = "execute", NEW buf \in Seq(Rows),
           op[t] \in {"deliver_flush", "flush", "close"} => todo[t] = <<>>,
           FlushReturns(t, buf)
    PROVE  Continues(t, buf)
  <1>1. op[t] \in Ops /\ op[t] # "none"
    BY DEF CallInv
  <1>2. CASE todo[t] # <<>> /\ EnqueueRows(t, op[t], todo[t], buf)
    BY <1>1, <1>2, EnqueueRowsKept DEF Ops
  <1>3. CASE /\ todo[t] = <<>> /\ op[t] \in {"write", "deliver"}
             /\ WriteDone(t, op[t], buf) /\ UNCHANGED appended
    <2>1. CASE op[t] = "write" /\ Finish(t, op[t], buf)
      <3>1. Returns(t) /\ buffer' = buf
        BY <2>1 DEF Finish, Leave, Goto, Returns, Clears, Ends
      <3> QED  BY <1>3, <2>1, <3>1, AppendsNone
    <2>2. CASE op[t] = "deliver" /\ FlushNow(t, "deliver_flush", buf)
      BY <1>1, <1>3, <2>2, FlushNowRows DEF Ops
    <2> QED  BY <1>3, <2>1, <2>2 DEF WriteDone
  <1>4. CASE /\ op[t] \in {"deliver_flush", "flush", "close"}
             /\ Finish(t, op[t], buf) /\ UNCHANGED appended
    <2>1. Returns(t) /\ buffer' = buf
      BY <1>4 DEF Finish, Leave, Goto, Returns, Clears, Ends
    <2> QED  BY <1>4, <2>1, AppendsNone
  <1> QED  BY <1>2, <1>3, <1>4 DEF FlushReturns

\* After a flush that raised.
LEMMA FlushRaisesRows ==
    ASSUME TypeOK, CallInv, NEW t \in Tasks, NEW known, FlushRaises(t, known)
    PROVE  Fails(t)
  BY DEF FlushRaises, DropsBuffer, Leave, Goto, Fails, Raises, Clears, Ends

\* The rows of a call: an idle task has none, those to append are its own, and
\* only write() and deliver() append.
CallRows ==
    \A t \in Tasks :
        /\ pc[t] = "idle" => mine[t] = {}
        /\ ToSet(todo[t]) \subseteq mine[t]
        /\ op[t] \in {"deliver_flush", "flush", "close"} => todo[t] = <<>>
        /\ op[t] \in {"write", "deliver"} /\ pc[t] = "start" => todo[t] # <<>>

\* Steps that begin the work of a call.
LEMMA BeginDoes ==
    ASSUME TypeOK, CallInv, CallRows, NEW t \in Tasks, Begin(t) \/ BeginBare(t)
    PROVE  Does(t)
  <1>1. CASE Begin(t)
    <2>1. pc[t] = "start" /\ op[t] \in {"write", "deliver"} /\ UNCHANGED <<table, dlq>>
      BY <1>1 DEF Begin, worldVars
    <2>2. CASE Leave(t, FALSE) /\ UNCHANGED <<buffer, closed, appended, acked, promised>>
      <3>1. closed = FALSE
        BY <2>1 DEF CallInv
      <3>2. Fails(t)
        BY <2>1, <2>2, <3>1 DEF Leave, Goto, Fails, Raises, Clears, Ends
      <3> QED  BY <2>1, <3>2 DEF Does
    <2>3. CASE EnqueueRows(t, op[t], todo[t], buffer)
      <3>1. buffer \in Seq(Rows) /\ todo[t] # <<>>
        BY <2>1 DEF TypeOK, CallRows
      <3>2. Continues(t, buffer)
        BY <2>1, <2>3, <3>1, EnqueueRowsKept
      <3> QED  BY <2>1, <3>2 DEF Does
    <2> QED  BY <1>1, <2>2, <2>3 DEF Begin
  <1>2. CASE BeginBare(t)
    <2>1. /\ pc[t] = "start" /\ op[t] \in {"flush", "close"} /\ UNCHANGED <<table, dlq, appended>>
          /\ FlushNow(t, op[t], buffer)
      BY <1>2 DEF BeginBare, worldVars
    <2>2. buffer \in Seq(Rows) /\ todo[t] = <<>> /\ op[t] # "none"
      BY <2>1 DEF TypeOK, CallRows
    <2>3. Continues(t, buffer)
      <3>1. op[t] \in Ops /\ op[t] # "deliver"
        BY <2>1 DEF Ops
      <3> QED  BY <2>1, <2>2, <3>1, FlushNowRows
    <2> QED  BY <2>1, <2>3 DEF Does
  <1> QED  BY <1>1, <1>2

\* Steps that wait for a connection or the database and go on.
LEMMA StaysDoes ==
    ASSUME TypeOK, CallInv, NEW t \in Tasks,
           \/ Prepare(t) \/ Acquire(t) \/ Wake(t) \/ Connected(t) \/ Healthy(t)
           \/ Unhealthy(t) \/ Reject(t) \/ ExecuteFails(t)
    PROVE  Does(t)
  <1>1. pc[t] \in FlushPlaces /\ \E w \in FlushPlaces : pc' = [pc EXCEPT ![t] = w]
    BY DEF Prepare, Acquire, Wake, Connected, Healthy, Unhealthy, Reject, ExecuteFails, Goto,
           FlushPlaces
  <1>2. /\ UNCHANGED <<buffer, closed, op, todo, mine, snap, appended, told, acked, promised, dlq>>
        /\ table' = table \/ table' = table \cup ToSet(snap[t])
    BY DEF Prepare, Acquire, Wake, Connected, Healthy, Unhealthy, Reject, ExecuteFails,
           worldVars, history
  <1>3. attempt' \in [Tasks -> 0..MaxAttempts]
    <2>1. CASE attempt' = attempt
      BY <2>1 DEF TypeOK
    <2>2. CASE MayRetry(t) /\ attempt' = [attempt EXCEPT ![t] = @ + 1]
      <3>1. attempt \in [Tasks -> 0..MaxAttempts] /\ attempt[t] < MaxAttempts
        BY <2>2 DEF TypeOK, MayRetry
      <3>2. MaxAttempts \in Nat
        BY SinkAssumption
      <3>3. attempt[t] + 1 \in 0..MaxAttempts
        BY <3>1, <3>2
      <3> QED  BY <2>2, <3>1, <3>3
    <2> QED  BY <2>1, <2>2 DEF Prepare, Acquire, Wake, Connected, Healthy, Unhealthy, Reject,
                               ExecuteFails
  <1>4. then' \in [Tasks -> {"none", "acquire", "known", "unknown"}]
    BY DEF TypeOK, Prepare, Acquire, Wake, Connected, Healthy, Unhealthy, Reject, ExecuteFails
  <1> QED  BY <1>1, <1>2, <1>3, <1>4 DEF Does, Stays

\* An attempt without a connection.
LEMMA NoConnectionDoes ==
    ASSUME TypeOK, CallInv, NEW t \in Tasks, pc[t] \in FlushPlaces, NoConnection(t),
           UNCHANGED <<table, dlq>>
    PROVE  Does(t)
  <1>1. CASE FlushRaises(t, FALSE)
    <2>1. Fails(t) /\ pc[t] # "idle"
      BY <1>1, FlushRaisesRows DEF FlushPlaces
    <2> QED  BY <2>1 DEF Does
  <1>2. CASE /\ MayRetry(t) /\ Goto(t, "acquire")
             /\ attempt' = [attempt EXCEPT ![t] = @ + 1]
             /\ UNCHANGED <<buffer, closed, op, todo, mine, snap, then, appended, told, acked,
                            promised>>
    <2>1. attempt' \in [Tasks -> 0..MaxAttempts]
      BY <1>2, SinkAssumption DEF TypeOK, MayRetry
    <2>2. Stays(t)
      BY <1>2, <2>1 DEF Stays, Goto, FlushPlaces, TypeOK
    <2> QED  BY <2>2 DEF Does
  <1> QED  BY <1>1, <1>2 DEF NoConnection

\* Steps that fail, and those that give up a connection.
LEMMA FailsDoes ==
    ASSUME TypeOK, CallInv, CallRows, NEW t \in Tasks,
           \/ ColumnsFail(t) \/ ConnectFails(t) \/ Timeout(t) \/ Discard(t) \/ PoisonFails(t)
    PROVE  Does(t)
  <1>1. CASE ConnectFails(t) \/ Timeout(t)
    BY <1>1, NoConnectionDoes DEF ConnectFails, Timeout, FlushPlaces, worldVars
  <1>2. CASE ColumnsFail(t)
    <2>1. pc[t] # "idle" /\ UNCHANGED <<table, dlq>>
      BY <1>2 DEF ColumnsFail
    <2>2. CASE /\ op[t] \in {"write", "deliver"} /\ Leave(t, FALSE)
               /\ UNCHANGED <<buffer, closed, appended, acked, promised>>
      <3>1. closed = FALSE
        BY <2>1 DEF CallInv
      <3>2. Fails(t)
        BY <2>2, <3>1 DEF Leave, Goto, Fails, Raises, Clears, Ends
      <3> QED  BY <2>1, <3>2 DEF Does
    <2>3. CASE FlushRaises(t, FALSE)
      BY <2>1, <2>3, FlushRaisesRows DEF Does
    <2> QED  BY <1>2, <2>2, <2>3 DEF ColumnsFail
  <1>3. CASE Discard(t)
    <2>1. pc[t] = "discard" /\ UNCHANGED <<table, dlq>>
      BY <1>3 DEF Discard, worldVars
    <2>2. CASE /\ Goto(t, "acquire") /\ then' = [then EXCEPT ![t] = "none"]
               /\ UNCHANGED <<buffer, closed, op, todo, mine, snap, attempt, appended, told, acked,
                              promised>>
      <3>1. Stays(t)
        BY <2>1, <2>2 DEF Stays, Goto, FlushPlaces, TypeOK
      <3> QED  BY <2>1, <3>1 DEF Does
    <2>3. CASE FlushRaises(t, then[t] = "known")
      BY <2>1, <2>3, FlushRaisesRows DEF Does
    <2> QED  BY <1>3, <2>2, <2>3 DEF Discard
  <1>4. CASE PoisonFails(t)
    <2>1. Fails(t) /\ pc[t] # "idle" /\ UNCHANGED <<table, dlq>>
      BY <1>4 DEF PoisonFails, Leave, Goto, Fails, Raises, Clears, Ends
    <2> QED  BY <2>1 DEF Does
  <1> QED  BY <1>1, <1>2, <1>3, <1>4

\* Every step of a call is one of them.
LEMMA ProceedDoes ==
    ASSUME TypeOK, CallInv, CallRows, NEW t \in Tasks, Proceed(t)
    PROVE  Does(t)
  <1>1. CASE Commit(t)
    <2>1. /\ pc[t] = "execute" /\ table' = table \cup ToSet(snap[t]) /\ UNCHANGED dlq
          /\ FlushReturns(t, Without(Len(snap[t]), buffer))
      BY <1>1 DEF Commit
    <2>2. Without(Len(snap[t]), buffer) \in Seq(Rows)
      <3>1. buffer \in Seq(Rows) /\ Len(snap[t]) \in Nat
        BY DEF TypeOK
      <3> QED  BY <3>1, WithoutRows
    <2>3. Continues(t, Without(Len(snap[t]), buffer))
      BY <2>1, <2>2, FlushReturnsRows DEF CallRows
    <2> QED  BY <2>1, <2>3 DEF Does
  <1>2. CASE PoisonWritten(t)
    <2>1. closed = FALSE
      BY <1>2 DEF PoisonWritten, CallInv
    <2>2. Poisons(t)
      BY <1>2, <2>1 DEF PoisonWritten, Poisons, Finish, Leave, Goto, Raises, Returns, Clears, Ends
    <2> QED  BY <2>2 DEF Does
  <1> QED  BY <1>1, <1>2, BeginDoes, StaysDoes, FailsDoes DEF Proceed

\* What it leaves alone.
LEMMA ProceedKeeps ==
    ASSUME TypeOK, NEW t \in Tasks, Proceed(t)
    PROVE  /\ UNCHANGED <<given, overlapped>>
           /\ cached' \in BOOLEAN /\ single' \in BOOLEAN /\ faults' \in 0..MaxFaults
  <1>1. UNCHANGED <<given, overlapped>>
    BY DEF Proceed, Begin, BeginBare, Prepare, ColumnsFail, Acquire, Wake, Connected, Healthy,
           Unhealthy, ConnectFails, Timeout, Discard, Commit, Reject, ExecuteFails,
           PoisonWritten, PoisonFails, worldVars, history
  <1>2. faults' = faults \/ (faults < MaxFaults /\ faults' = faults + 1)
    BY DEF Proceed, Begin, BeginBare, Prepare, ColumnsFail, Acquire, Wake, Connected, Healthy,
           Unhealthy, ConnectFails, Timeout, Discard, Commit, Reject, ExecuteFails,
           PoisonWritten, PoisonFails, worldVars
  <1>3. faults' \in 0..MaxFaults
    BY <1>2, SinkAssumption DEF TypeOK
  <1>4. cached' = cached \/ cached' = TRUE \/ cached' = (cached \/ config.align)
    BY DEF Proceed, Begin, BeginBare, Prepare, ColumnsFail, Acquire, Wake, Connected, Healthy,
           Unhealthy, ConnectFails, Timeout, Discard, Commit, Reject, ExecuteFails,
           PoisonWritten, PoisonFails
  <1>5. single' \in BOOLEAN
    BY DEF TypeOK, Proceed, Begin, BeginBare, Prepare, ColumnsFail, Acquire, Wake, Connected,
           Healthy, Unhealthy, ConnectFails, Timeout, Discard, Commit, Reject, ExecuteFails,
           PoisonWritten, PoisonFails, Teardown, poolVars
  <1>6. cached' \in BOOLEAN
    BY <1>4 DEF TypeOK
  <1> QED  BY <1>1, <1>3, <1>5, <1>6
-----------------------------------------------------------------------------
(* Types.                                                                  *)

\* The variables that the rows of a call pass through.
RowTypes ==
    /\ buffer \in Seq(Rows)
    /\ todo \in [Tasks -> Seq(Rows)]
    /\ mine \in [Tasks -> SUBSET Rows]
    /\ snap \in [Tasks -> Seq(Rows)]
    /\ attempt \in [Tasks -> 0..MaxAttempts]
    /\ then \in [Tasks -> {"none", "acquire", "known", "unknown"}]
    /\ table \subseteq Rows /\ dlq \subseteq Rows
    /\ appended \subseteq Rows /\ told \subseteq Rows /\ acked \subseteq Rows
    /\ promised \subseteq Rows

\* The end of a call.
LEMMA ClearsTypes ==
    ASSUME RowTypes, NEW t \in Tasks, Clears(t)
    PROVE  /\ todo' \in [Tasks -> Seq(Rows)] /\ mine' \in [Tasks -> SUBSET Rows]
           /\ snap' \in [Tasks -> Seq(Rows)] /\ attempt' \in [Tasks -> 0..MaxAttempts]
           /\ then' \in [Tasks -> {"none", "acquire", "known", "unknown"}]
  <1>1. 0 \in 0..MaxAttempts
    BY SinkAssumption
  <1>2. <<>> \in Seq(Rows)
    OBVIOUS
  <1> QED  BY <1>1, <1>2 DEF RowTypes, Clears

\* A step of a call, as far as its rows are concerned.
LEMMA DoesTypes ==
    ASSUME RowTypes, NEW t \in Tasks, Does(t)
    PROVE  RowTypes'
  <1>1. /\ Len(snap[t]) \in Nat /\ ToSet(snap[t]) \subseteq Rows /\ mine[t] \subseteq Rows
        /\ Without(Len(snap[t]), buffer) \in Seq(Rows) /\ <<>> \in Seq(Rows)
    <2>1. snap[t] \in Seq(Rows) /\ mine[t] \subseteq Rows /\ buffer \in Seq(Rows)
      BY DEF RowTypes
    <2>2. Len(snap[t]) \in Nat /\ ToSet(snap[t]) \subseteq Rows
      BY <2>1 DEF ToSet
    <2>3. Without(Len(snap[t]), buffer) \in Seq(Rows)
      BY <2>1, <2>2, WithoutRows
    <2> QED  BY <2>1, <2>2, <2>3
  <1>2. ASSUME NEW buf, Continues(t, buf), table' \subseteq Rows, UNCHANGED dlq
        PROVE  RowTypes'
    <2>1. PICK rows \in SUBSET Rows, full \in Seq(Rows), rest \in Seq(Rows) :
            /\ appended' = appended \cup rows
            /\ buffer' = full
            /\ Flushes(t, rest, full) \/ Returns(t)
      BY <1>2 DEF Continues
    <2>2. CASE Flushes(t, rest, full)
      <3>1. 1 \in 0..MaxAttempts
        BY SinkAssumption
      <3> QED  BY <1>2, <2>1, <2>2, <3>1 DEF RowTypes, Flushes
    <2>3. CASE Returns(t)
      BY <1>1, <1>2, <2>1, <2>3, ClearsTypes DEF RowTypes, Returns
    <2> QED  BY <2>1, <2>2, <2>3
  <1>3. CASE Fails(t) /\ UNCHANGED <<table, dlq>>
    <2>1. CASE Raises(t) /\ (buffer' = buffer \/ buffer' = <<>>)
      BY <1>1, <1>3, <2>1, ClearsTypes DEF RowTypes, Raises, Fails
    <2>2. CASE /\ snap' = [snap EXCEPT ![t] = buffer] /\ then' = [then EXCEPT ![t] = "none"]
               /\ UNCHANGED <<buffer, closed, todo, mine, attempt, told>>
      BY <1>3, <2>2 DEF RowTypes, Fails
    <2> QED  BY <1>3, <2>1, <2>2 DEF Fails
  <1>4. CASE Stays(t) /\ UNCHANGED dlq /\ (table' = table \/ table' = table \cup ToSet(snap[t]))
    BY <1>1, <1>4 DEF RowTypes, Stays
  <1>5. CASE Poisons(t)
    <2>1. Clears(t) /\ told' \subseteq Rows /\ promised' \subseteq Rows /\ acked' \subseteq Rows
      BY <1>1, <1>5 DEF Poisons, Returns, Raises, RowTypes
    <2>2. /\ todo' \in [Tasks -> Seq(Rows)] /\ mine' \in [Tasks -> SUBSET Rows]
          /\ snap' \in [Tasks -> Seq(Rows)] /\ attempt' \in [Tasks -> 0..MaxAttempts]
          /\ then' \in [Tasks -> {"none", "acquire", "known", "unknown"}]
      BY <2>1, ClearsTypes
    <2>3. /\ buffer' \in Seq(Rows) /\ dlq' \subseteq Rows /\ table' \subseteq Rows
          /\ appended' \subseteq Rows
      BY <1>1, <1>5 DEF Poisons, RowTypes
    <2> QED  BY <2>1, <2>2, <2>3 DEF RowTypes
  <1> QED  BY <1>1, <1>2, <1>3, <1>4, <1>5 DEF Does, RowTypes

\* The rows of the calls stay in order.
LEMMA DoesCallRows ==
    ASSUME RowTypes, CallInv, CallRows, NEW t \in Tasks, Does(t)
    PROVE  CallRows'
  <1>1. ASSUME Clears(t) PROVE CallRows'
    BY <1>1, RowsOfNone DEF CallRows, Clears, Ends, RowTypes, CallInv
  <1>2. ASSUME NEW buf, Continues(t, buf) PROVE CallRows'
    <2>1. PICK rows \in SUBSET Rows, full \in Seq(Rows), rest \in Seq(Rows) :
            /\ rows \cup ToSet(rest) = ToSet(todo[t])
            /\ Flushes(t, rest, full) \/ Clears(t)
      BY <1>2 DEF Continues, Returns
    <2>2. CASE Flushes(t, rest, full)
      <3>1. ToSet(rest) \subseteq mine[t]
        BY <2>1 DEF CallRows
      <3>2. op[t] \in {"deliver_flush", "flush", "close"} => rest = <<>>
        <4>1. op[t] \in {"deliver_flush", "flush", "close"} => ToSet(rest) = {}
          BY <2>1, RowsOfNone DEF CallRows
        <4> QED  BY <4>1, NoRows
      <3>3. PICK m \in Ops :
              /\ op' = [op EXCEPT ![t] = m]
              /\ m = op[t] \/ (op[t] = "deliver" /\ m = "deliver_flush" /\ rest = <<>>)
        BY <2>2 DEF Flushes
      <3>4. PICK w \in {"prepare", "acquire"} : pc' = [pc EXCEPT ![t] = w]
        BY <2>2 DEF Flushes
      <3>5. todo' = [todo EXCEPT ![t] = rest] /\ mine' = mine
        BY <2>2 DEF Flushes
      <3> QED  BY <3>1, <3>2, <3>3, <3>4, <3>5 DEF CallRows, CallInv, RowTypes
    <2> QED  BY <1>1, <2>1, <2>2
  <1>3. CASE Fails(t) /\ pc[t] # "idle"
    <2>1. CASE Raises(t)
      BY <1>1, <2>1 DEF Raises
    <2>2. CASE pc' = [pc EXCEPT ![t] = "poison"] /\ UNCHANGED <<op, todo, mine>>
      BY <1>3, <2>2 DEF CallRows, CallInv, RowTypes
    <2> QED  BY <1>3, <2>1, <2>2 DEF Fails
  <1>4. CASE Stays(t)
    <2>1. PICK w \in FlushPlaces : pc' = [pc EXCEPT ![t] = w]
      BY <1>4 DEF Stays
    <2> QED  BY <1>4, <2>1 DEF CallRows, CallInv, RowTypes, Stays, FlushPlaces
  <1>5. CASE Poisons(t)
    BY <1>1, <1>5 DEF Poisons, Returns, Raises
  <1> QED  BY <1>2, <1>3, <1>4, <1>5 DEF Does

\* The rows of a new call.
LEMMA CallRowsOfCall ==
    ASSUME TypeOK, CallInv, CallRows, NEW t \in Tasks, NEW m \in Methods, NEW n \in 0..2,
           m \in {"write", "deliver"} <=> n # 0, Call(t, m, n)
    PROVE  /\ RowTypes' /\ CallRows' /\ given' \in 0..End /\ overlapped' \in BOOLEAN
           /\ ToSet(todo'[t]) = mine'[t]
           /\ UNCHANGED <<cached, single, faults>>
  <1> DEFINE s == [i \in 1..n |-> given + i]
  <1>1. /\ given \in 0..End /\ given + n <= End /\ given' = given + n /\ End \in Nat
        /\ pc' = [pc EXCEPT ![t] = "start"] /\ op' = [op EXCEPT ![t] = m]
        /\ todo' = [todo EXCEPT ![t] = s] /\ mine' = [mine EXCEPT ![t] = given + 1 .. given + n]
        /\ UNCHANGED <<buffer, cached, closed, single, snap, attempt, then, table, dlq, faults,
                       appended, told, acked, promised>>
        /\ overlapped' \in BOOLEAN
    BY SinkAssumption DEF Call, Goto, TypeOK, poolVars
  <1>2. s \in Seq(Rows) /\ Len(s) = n /\ given + 1 .. given + n \subseteq Rows
    BY <1>1 DEF Rows
  <1>3. ToSet(s) = given + 1 .. given + n
    <2>1. ToSet(s) = {given + i : i \in 1..n}
      BY DEF ToSet
    <2>2. ASSUME NEW j \in given + 1 .. given + n PROVE j - given \in 1..n /\ j = given + (j - given)
      BY <1>1
    <2>3. \A i \in 1..n : given + i \in given + 1 .. given + n
      BY <1>1
    <2> QED  BY <2>1, <2>2, <2>3
  <1>4. n # 0 => s # <<>>
    BY <1>2
  <1>5. n = 0 => s = <<>>
    BY <1>2
  <1> HIDE DEF s
  <1>6. RowTypes'
    BY <1>1, <1>2 DEF TypeOK, RowTypes
  <1>7. CallRows'
    <2> SUFFICES ASSUME NEW u \in Tasks
                 PROVE  /\ pc'[u] = "idle" => mine'[u] = {}
                        /\ ToSet(todo'[u]) \subseteq mine'[u]
                        /\ op'[u] \in {"deliver_flush", "flush", "close"} => todo'[u] = <<>>
                        /\ op'[u] \in {"write", "deliver"} /\ pc'[u] = "start" => todo'[u] # <<>>
      BY DEF CallRows
    <2>1. CASE u = t
      BY <1>1, <1>3, <1>4, <1>5, <2>1 DEF TypeOK, Methods
    <2>2. CASE u # t
      BY <1>1, <2>2 DEF TypeOK, CallRows
    <2> QED  BY <2>1, <2>2
  <1>8. given' \in 0..End
    BY <1>1
  <1>9. ToSet(todo'[t]) = mine'[t]
    BY <1>1, <1>3 DEF TypeOK
  <1> QED  BY <1>1, <1>6, <1>7, <1>8, <1>9

\* How a task enters a method.
LEMMA EnterIsCall ==
    ASSUME NEW t \in Tasks, Enter(t)
    PROVE  \E m \in Methods, n \in 0..2 :
              (m \in {"write", "deliver"} <=> n # 0) /\ Call(t, m, n)
  <1>1. CASE \E n \in 1..2 : Call(t, "write", n)
    <2>1. PICK n \in 1..2 : Call(t, "write", n)
      BY <1>1
    <2>2. n \in 0..2 /\ n # 0
      OBVIOUS
    <2> QED  BY <2>1, <2>2 DEF Methods
  <1>2. CASE Call(t, "deliver", 1)
    BY <1>2 DEF Methods
  <1>3. CASE Call(t, "flush", 0) \/ Call(t, "close", 0)
    BY <1>3 DEF Methods
  <1> QED  BY <1>1, <1>2, <1>3 DEF Enter

\* Types of the sink's memory, of its callers and of the database (TypeOK), in
\* every state of the sink, and with them the shape of a call's rows.
LEMMA RowShapes == Spec => [](TypeOK /\ CallRows)
  <1>1. Init => TypeOK /\ CallRows
    <2> SUFFICES ASSUME Init PROVE TypeOK /\ CallRows
      OBVIOUS
    <2>1. CallRows
      BY RowsOfNone DEF Init, CallRows
    <2>2. 0 \in 0..MaxAttempts /\ 0 \in 0..MaxFaults /\ 0 \in 0..End /\ <<>> \in Seq(Rows)
      BY SinkAssumption
    <2>3. TypeOK
      BY <2>2 DEF Init, TypeOK, Where
    <2> QED  BY <2>1, <2>3
  <1>2. TypeOK /\ CallRows /\ PoolInv /\ PoolInv' /\ [Next]_vars => TypeOK' /\ CallRows'
    <2> SUFFICES ASSUME TypeOK, CallRows, PoolInv, PoolInv', [Next]_vars
                 PROVE  TypeOK' /\ CallRows'
      OBVIOUS
    <2>1. RowTypes /\ CallInv
      BY DEF TypeOK, RowTypes, PoolInv
    <2>2. SUFFICES /\ RowTypes' /\ CallRows' /\ given' \in 0..End /\ overlapped' \in BOOLEAN
                   /\ cached' \in BOOLEAN /\ single' \in BOOLEAN /\ faults' \in 0..MaxFaults
      BY DEF TypeOK, RowTypes, PoolInv, CallInv, Ops
    <2>3. CASE UNCHANGED <<buffer, taskVars, table, dlq, given, history, single>>
                 /\ cached' \in BOOLEAN /\ faults' \in 0..MaxFaults
      BY <2>1, <2>3 DEF TypeOK, RowTypes, CallRows, taskVars, history
    <2>4. CASE \E t \in Tasks : Enter(t)
      <3>1. PICK t \in Tasks, m \in Methods, n \in 0..2 :
              (m \in {"write", "deliver"} <=> n # 0) /\ Call(t, m, n)
        BY <2>4, EnterIsCall
      <3>2. /\ RowTypes' /\ CallRows' /\ given' \in 0..End /\ overlapped' \in BOOLEAN
            /\ UNCHANGED <<cached, single, faults>>
        BY <2>1, <3>1, CallRowsOfCall
      <3> QED  BY <3>2 DEF TypeOK
    <2>5. CASE \E t \in Tasks : Proceed(t)
      <3>1. PICK t \in Tasks : Proceed(t)
        BY <2>5
      <3>2. Does(t)
        BY <2>1, <3>1, ProceedDoes
      <3>3. RowTypes' /\ CallRows'
        BY <2>1, <3>2, DoesTypes, DoesCallRows
      <3>4. /\ UNCHANGED <<given, overlapped>>
            /\ cached' \in BOOLEAN /\ single' \in BOOLEAN /\ faults' \in 0..MaxFaults
        BY <3>1, ProceedKeeps
      <3> QED  BY <3>3, <3>4 DEF TypeOK
    <2>6. CASE Invalidate
      <3>1. faults' \in 0..MaxFaults
        BY <2>6, SinkAssumption DEF Invalidate, TypeOK
      <3> QED  BY <2>3, <2>6, <3>1 DEF Invalidate, poolVars
    <2>7. CASE UNCHANGED vars
      BY <2>3, <2>7 DEF vars, poolVars, worldVars, TypeOK
    <2> QED  BY <2>4, <2>5, <2>6, <2>7 DEF Next, Step
  <1> QED  BY <1>1, <1>2, PoolInvariant, PTL DEF Spec

\* Types of the sink's memory, of its callers and of the database.
THEOREM TypeCorrect == Spec => []TypeOK
  BY RowShapes, PTL
-----------------------------------------------------------------------------
(* What is acknowledged is in the table.                                   *)

\* AckedIsDurable is not inductive: deliver() decides from the return of its flush.  A row
\* that deliver() wrote is still to be appended, in the flush under way or in the
\* table, whatever other callers delete from the buffer.
DeliverInv ==
    \A t \in Tasks : op[t] \in {"deliver", "deliver_flush"} =>
        /\ pc[t] = "start" => mine[t] \subseteq ToSet(todo[t])
        /\ pc[t] \in FlushPlaces => mine[t] \subseteq table \cup ToSet(snap[t]) \cup ToSet(todo[t])

AckInv == DeliverInv /\ AckedIsDurable

\* A call that goes on with what it has not yet appended.
LEMMA ContinuesAcks ==
    ASSUME RowTypes, CallInv, CallRows, AckInv, NEW t \in Tasks, NEW buf \in Seq(Rows),
           Continues(t, buf), table \subseteq table',
           op[t] \in {"deliver", "deliver_flush"} => mine[t] \subseteq table' \cup ToSet(todo[t])
    PROVE  AckInv'
  <1>1. PICK rows \in SUBSET Rows, full \in Seq(Rows), rest \in Seq(Rows) :
            /\ ToSet(full) = ToSet(buf) \cup rows
            /\ rows \cup ToSet(rest) = ToSet(todo[t])
            /\ \/ Flushes(t, rest, full)
               \/ rest = <<>> /\ Returns(t) /\ (op[t] = "deliver" => full = <<>>)
    BY DEF Continues
  <1>2. CASE Flushes(t, rest, full)
    <2>1. PICK m \in Ops, w \in {"prepare", "acquire"} :
            /\ op' = [op EXCEPT ![t] = m] /\ pc' = [pc EXCEPT ![t] = w]
            /\ m = op[t] \/ (op[t] = "deliver" /\ m = "deliver_flush")
      BY <1>2 DEF Flushes
    <2>2. /\ todo' = [todo EXCEPT ![t] = rest] /\ snap' = [snap EXCEPT ![t] = full]
          /\ UNCHANGED <<mine, acked>>
      BY <1>2 DEF Flushes
    <2>3. op[t] \in {"deliver", "deliver_flush"}
            => mine[t] \subseteq table' \cup ToSet(full) \cup ToSet(rest)
      BY <1>1
    <2>4. ASSUME NEW u \in Tasks, op'[u] \in {"deliver", "deliver_flush"}
          PROVE  /\ pc'[u] = "start" => mine'[u] \subseteq ToSet(todo'[u])
                 /\ pc'[u] \in FlushPlaces
                      => mine'[u] \subseteq table' \cup ToSet(snap'[u]) \cup ToSet(todo'[u])
      <3>1. CASE u = t
        BY <2>1, <2>2, <2>3, <2>4, <3>1 DEF CallInv, RowTypes
      <3>2. CASE u # t
        BY <2>1, <2>2, <2>4, <3>2 DEF CallInv, RowTypes, AckInv, DeliverInv
      <3> QED  BY <3>1, <3>2
    <2> QED  BY <2>2, <2>4 DEF AckInv, DeliverInv, AckedIsDurable
  <1>3. CASE rest = <<>> /\ Returns(t) /\ (op[t] = "deliver" => full = <<>>)
    <2>1. op[t] \in {"deliver", "deliver_flush"} => rows = {}
      BY <1>1, <1>3, RowsOfNone DEF CallRows
    <2>2. op[t] \in {"deliver", "deliver_flush"} => mine[t] \subseteq table'
      BY <1>1, <1>3, <2>1, RowsOfNone
    <2>3. acked' \subseteq table'
      BY <1>3, <2>2 DEF Returns, AckInv, AckedIsDurable
    <2>4. DeliverInv'
      <3>1. Clears(t)
        BY <1>3 DEF Returns
      <3> QED  BY <3>1 DEF Clears, Ends, AckInv, DeliverInv, CallInv, RowTypes, FlushPlaces
    <2> QED  BY <2>3, <2>4 DEF AckInv, AckedIsDurable
  <1> QED  BY <1>1, <1>2, <1>3

LEMMA DoesAcks ==
    ASSUME RowTypes, CallInv, CallRows, AckInv, NEW t \in Tasks, Does(t)
    PROVE  AckInv'
  <1>1. CASE pc[t] = "start" /\ Continues(t, buffer) /\ UNCHANGED <<table, dlq>>
    <2>1. op[t] \in {"deliver", "deliver_flush"} => mine[t] \subseteq table' \cup ToSet(todo[t])
      BY <1>1 DEF AckInv, DeliverInv
    <2>2. buffer \in Seq(Rows) /\ table \subseteq table'
      BY <1>1 DEF RowTypes
    <2> QED  BY <1>1, <2>1, <2>2, ContinuesAcks
  <1>2. CASE /\ pc[t] = "execute" /\ Continues(t, Without(Len(snap[t]), buffer))
             /\ table' = table \cup ToSet(snap[t])
    <2>1. op[t] \in {"deliver", "deliver_flush"} => mine[t] \subseteq table' \cup ToSet(todo[t])
      BY <1>2 DEF AckInv, DeliverInv, FlushPlaces
    <2>2. Without(Len(snap[t]), buffer) \in Seq(Rows) /\ table \subseteq table'
      <3>1. buffer \in Seq(Rows) /\ Len(snap[t]) \in Nat
        BY DEF RowTypes
      <3> QED  BY <1>2, <3>1, WithoutRows
    <2> QED  BY <1>2, <2>1, <2>2, ContinuesAcks
  <1>3. ASSUME Clears(t), UNCHANGED acked, table' = table PROVE AckInv'
    BY <1>3 DEF Clears, Ends, AckInv, DeliverInv, AckedIsDurable, CallInv, RowTypes, FlushPlaces
  <1>4. CASE Fails(t) /\ UNCHANGED <<table, dlq>>
    <2>1. CASE Raises(t) /\ UNCHANGED acked
      BY <1>3, <1>4, <2>1 DEF Raises
    <2>2. CASE /\ pc' = [pc EXCEPT ![t] = "poison"] /\ op' = op
               /\ snap' = [snap EXCEPT ![t] = buffer] /\ UNCHANGED <<todo, mine, acked>>
      BY <1>4, <2>2 DEF AckInv, DeliverInv, AckedIsDurable, CallInv, RowTypes, FlushPlaces
    <2> QED  BY <1>4, <2>1, <2>2 DEF Fails
  <1>5. CASE Stays(t) /\ table \subseteq table'
    <2>1. PICK w \in FlushPlaces : pc' = [pc EXCEPT ![t] = w]
      BY <1>5 DEF Stays
    <2>2. UNCHANGED <<op, todo, mine, snap, acked>> /\ pc[t] \in FlushPlaces /\ w # "start"
      BY <1>5 DEF Stays, FlushPlaces
    <2>3. ASSUME NEW u \in Tasks
          PROVE  /\ pc'[u] = "start" => pc[u] = "start"
                 /\ pc'[u] \in FlushPlaces => pc[u] \in FlushPlaces
      BY <2>1, <2>2 DEF CallInv
    <2> QED  BY <1>5, <2>2, <2>3 DEF AckInv, DeliverInv, AckedIsDurable
  <1>6. CASE Poisons(t)
    <2>1. Clears(t) /\ UNCHANGED acked /\ table' = table
      BY <1>6 DEF Poisons, Returns, Raises
    <2> QED  BY <1>3, <2>1
  <1> QED  BY <1>1, <1>2, <1>4, <1>5, <1>6 DEF Does

\* RedisPostgresRuntime.deliver() acknowledges a message only when its row is in the
\* table: whoever else flushes, fails, retries or deletes rows from the buffer.
THEOREM AckedAfterCommit == Spec => []AckedIsDurable
  <1>1. Init => AckInv
    BY DEF Init, AckInv, DeliverInv, AckedIsDurable
  <1>2. AckInv /\ TypeOK /\ CallRows /\ PoolInv /\ [Next]_vars => AckInv'
    <2> SUFFICES ASSUME AckInv, TypeOK, CallRows, PoolInv, [Next]_vars PROVE AckInv'
      OBVIOUS
    <2>1. RowTypes /\ CallInv
      BY DEF TypeOK, RowTypes, PoolInv
    <2>2. CASE UNCHANGED <<taskVars, table, acked>>
      BY <2>2 DEF AckInv, DeliverInv, AckedIsDurable, taskVars
    <2>3. CASE \E t \in Tasks : Enter(t)
      <3>1. PICK t \in Tasks, m \in Methods, n \in 0..2 :
              (m \in {"write", "deliver"} <=> n # 0) /\ Call(t, m, n)
        BY <2>3, EnterIsCall
      <3>2. ToSet(todo'[t]) = mine'[t]
        BY <2>1, <3>1, CallRowsOfCall
      <3>3. /\ pc' = [pc EXCEPT ![t] = "start"] /\ UNCHANGED <<snap, table, acked>>
            /\ \A u \in Tasks \ {t} : op'[u] = op[u] /\ todo'[u] = todo[u] /\ mine'[u] = mine[u]
        BY <3>1 DEF Call, Goto, TypeOK
      <3>4. ASSUME NEW u \in Tasks, op'[u] \in {"deliver", "deliver_flush"}
            PROVE  /\ pc'[u] = "start" => mine'[u] \subseteq ToSet(todo'[u])
                   /\ pc'[u] \in FlushPlaces
                        => mine'[u] \subseteq table' \cup ToSet(snap'[u]) \cup ToSet(todo'[u])
        <4>1. CASE u = t
          BY <3>2, <3>3, <4>1 DEF TypeOK, FlushPlaces
        <4>2. CASE u # t
          BY <3>3, <3>4, <4>2 DEF TypeOK, AckInv, DeliverInv
        <4> QED  BY <4>1, <4>2
      <3> QED  BY <3>3, <3>4 DEF AckInv, DeliverInv, AckedIsDurable
    <2>4. CASE \E t \in Tasks : Proceed(t)
      BY <2>1, <2>4, ProceedDoes, DoesAcks
    <2> QED  BY <2>2, <2>3, <2>4 DEF Next, Step, Invalidate, vars, worldVars, history
  <1>3. AckInv => AckedIsDurable
    BY DEF AckInv
  <1> QED  BY <1>1, <1>2, <1>3, RowShapes, PoolInvariant, PTL DEF Spec
-----------------------------------------------------------------------------
(* No row is lost, and a flush that returns is durable, as long as calls   *)
(* do not overlap.                                                         *)

\* At most one call is in progress.
OneCall == \A t, u \in Tasks : pc[t] # "idle" /\ pc[u] # "idle" => t = u

\* What a flush or a poison write took is the whole buffer, so that deleting a prefix by
\* its length deletes the rows that were written.
SnapIsBuffer ==
    \A t \in Tasks : pc[t] \in FlushPlaces \cup {"poison"} => snap[t] = buffer

\* With a batch of one row, what is in the buffer belongs to a call that raised or that is
\* in progress: dropping the buffer when that call raises drops no row of a finished call.
SingleRow ==
    config.batch_size = 1 => ToSet(buffer) \subseteq told \cup UNION {mine[t] : t \in Tasks}

\* RowsKept and FlushIsDurable are not inductive: both need to know whose rows a step deletes.
KeptInv ==
    /\ ~overlapped => OneCall /\ SnapIsBuffer /\ SingleRow
    /\ RowsKept /\ FlushIsDurable

\* When a call ends nothing is left of it but what it put somewhere.
LEMMA ClearsKept ==
    ASSUME RowTypes, CallInv, CallRows, KeptInv, ~overlapped, NEW t \in Tasks, pc[t] # "idle",
           Clears(t),
           config.batch_size = 1 => ToSet(buffer') \subseteq told'
    PROVE  OneCall' /\ SnapIsBuffer' /\ (UNCHANGED config => SingleRow')
  <1>1. /\ pc' = [pc EXCEPT ![t] = "idle"] /\ mine' = [mine EXCEPT ![t] = {}]
    BY DEF Clears, Ends
  <1>2. \A u \in Tasks : pc'[u] = "idle"
    BY <1>1 DEF KeptInv, OneCall, CallInv
  <1> QED  BY <1>2 DEF OneCall, SnapIsBuffer, SingleRow, FlushPlaces

\* A call that goes on with a buffer it knows: nobody deleted rows it did not write.
LEMMA ContinuesKept ==
    ASSUME RowTypes, CallInv, CallRows, KeptInv, ~overlapped, UNCHANGED <<config, overlapped>>,
           NEW t \in Tasks, pc[t] # "idle", NEW buf \in Seq(Rows), Continues(t, buf),
           table \subseteq table', UNCHANGED dlq,
           ToSet(buffer) \subseteq ToSet(buf) \cup table', ToSet(buf) \subseteq ToSet(buffer),
           buf = <<>> \/ pc[t] = "start"
    PROVE  KeptInv'
  <1>1. PICK rows \in SUBSET Rows, full \in Seq(Rows), rest \in Seq(Rows) :
            /\ appended' = appended \cup rows
            /\ ToSet(full) = ToSet(buf) \cup rows
            /\ rows \cup ToSet(rest) = ToSet(todo[t])
            /\ buffer' = full
            /\ \/ Flushes(t, rest, full)
               \/ /\ rest = <<>> /\ Returns(t)
                  /\ \/ full = <<>>
                     \/ full = buf /\ pc[t] # "start"
                     \/ op[t] = "write" /\ config.batch_size > 1
    BY DEF Continues
  <1>2. rows \subseteq mine[t]
    BY <1>1 DEF CallRows
  <1>3. told' = told /\ RowsKept'
    <2>1. told' = told
      BY <1>1 DEF Flushes, Returns
    <2> QED  BY <1>1, <2>1 DEF KeptInv, RowsKept
  <1>4. CASE Flushes(t, rest, full)
    <2>1. PICK w \in {"prepare", "acquire"} : pc' = [pc EXCEPT ![t] = w]
      BY <1>4 DEF Flushes
    <2>2. mine' = mine /\ snap' = [snap EXCEPT ![t] = full] /\ promised' = promised
      BY <1>4 DEF Flushes
    <2>3. OneCall'
      BY <2>1 DEF KeptInv, OneCall, CallInv
    <2>4. SnapIsBuffer'
      <3>1. \A u \in Tasks \ {t} : pc'[u] = "idle"
        BY <2>1 DEF KeptInv, OneCall, CallInv
      <3>2. snap'[t] = buffer'
        BY <1>1, <2>2 DEF RowTypes
      <3> QED  BY <3>1, <3>2 DEF SnapIsBuffer, FlushPlaces
    <2>5. SingleRow'
      BY <1>1, <1>2, <1>3, <2>2 DEF KeptInv, SingleRow
    <2>6. FlushIsDurable'
      BY <1>3, <2>2 DEF KeptInv, FlushIsDurable
    <2> QED  BY <1>3, <2>3, <2>4, <2>5, <2>6 DEF KeptInv
  <1>5. CASE Returns(t) /\ (full = <<>> \/ (op[t] = "write" /\ config.batch_size > 1))
    <2>1. config.batch_size = 1 => ToSet(buffer') \subseteq told'
      <3>1. config.batch_size = 1 => buffer' = <<>>
        BY <1>1, <1>5
      <3> QED  BY <3>1, RowsOfNone
    <2>2. OneCall' /\ SnapIsBuffer' /\ SingleRow'
      BY <1>5, <2>1, ClearsKept DEF Returns
    <2>3. FlushIsDurable'
      <3>1. CASE op[t] \in {"flush", "close"}
        <4>1. buffer' = <<>> /\ promised' = appended
          BY <1>1, <1>5, <3>1 DEF Returns
        <4>2. appended' \subseteq table' \cup dlq' \cup told'
          BY <1>3, <4>1, RowsOfNone DEF RowsKept
        <4> QED  BY <1>1, <4>1, <4>2 DEF FlushIsDurable
      <3>2. CASE op[t] \notin {"flush", "close"}
        BY <1>3, <1>5, <3>2 DEF Returns, KeptInv, FlushIsDurable
      <3> QED  BY <3>1, <3>2
    <2> QED  BY <1>3, <2>2, <2>3 DEF KeptInv
  <1> QED  BY <1>1, <1>4, <1>5

LEMMA DoesKept ==
    ASSUME RowTypes, CallInv, CallRows, KeptInv, UNCHANGED <<config, overlapped>>,
           NEW t \in Tasks, Does(t)
    PROVE  KeptInv'
  <1>1. SUFFICES ASSUME ~overlapped PROVE KeptInv'
    BY DEF KeptInv, RowsKept, FlushIsDurable
  <1>2. buffer \in Seq(Rows) /\ snap[t] \in Seq(Rows) /\ <<>> \in Seq(Rows)
    BY DEF RowTypes
  <1>3. CASE pc[t] = "start" /\ Continues(t, buffer) /\ UNCHANGED <<table, dlq>>
    BY <1>1, <1>2, <1>3, ContinuesKept
  <1>4. CASE /\ pc[t] = "execute" /\ Continues(t, Without(Len(snap[t]), buffer))
             /\ table' = table \cup ToSet(snap[t]) /\ UNCHANGED dlq
    <2>1. snap[t] = buffer
      BY <1>1, <1>4 DEF KeptInv, SnapIsBuffer, FlushPlaces
    <2>2. Without(Len(snap[t]), buffer) = <<>>
      BY <1>2, <2>1, WithoutAll
    <2>3. Continues(t, <<>>)
      BY <1>4, <2>2
    <2>4. ToSet(buffer) \subseteq ToSet(<<>>) \cup table' /\ ToSet(<<>>) \subseteq ToSet(buffer)
      BY <1>4, <2>1, RowsOfNone
    <2> QED  BY <1>1, <1>2, <1>4, <2>3, <2>4, ContinuesKept
  <1>5. CASE pc[t] # "idle" /\ Fails(t) /\ UNCHANGED <<table, dlq>>
    <2>1. CASE /\ pc' = [pc EXCEPT ![t] = "poison"] /\ snap' = [snap EXCEPT ![t] = buffer]
               /\ UNCHANGED <<buffer, mine, told>>
      <3>1. \A u \in Tasks \ {t} : pc'[u] = "idle"
        BY <1>1, <1>5, <2>1 DEF KeptInv, OneCall, CallInv
      <3>2. OneCall' /\ SnapIsBuffer'
        BY <2>1, <3>1 DEF OneCall, SnapIsBuffer, RowTypes, FlushPlaces
      <3>3. SingleRow' /\ RowsKept' /\ FlushIsDurable'
        BY <1>1, <1>5, <2>1 DEF Fails, KeptInv, SingleRow, RowsKept, FlushIsDurable
      <3> QED  BY <3>2, <3>3 DEF KeptInv
    <2>2. CASE Raises(t) /\ (buffer' = buffer \/ (buffer' = <<>> /\ config.batch_size = 1))
      <3>1. told' = told \cup mine[t] /\ appended' = appended /\ promised' = promised
        BY <1>5, <2>2 DEF Raises, Fails
      <3>2. \A u \in Tasks \ {t} : mine[u] = {}
        BY <1>1, <1>5 DEF KeptInv, OneCall, CallRows
      <3>3. config.batch_size = 1 => ToSet(buffer) \subseteq told'
        BY <1>1, <3>1, <3>2 DEF KeptInv, SingleRow
      <3>4. config.batch_size = 1 => ToSet(buffer') \subseteq told'
        BY <2>2, <3>3, RowsOfNone
      <3>5. OneCall' /\ SnapIsBuffer' /\ SingleRow'
        BY <1>1, <1>5, <2>2, <3>4, ClearsKept DEF Raises
      <3>6. RowsKept'
        <4>1. ToSet(buffer) \subseteq ToSet(buffer') \cup told'
          BY <2>2, <3>3
        <4> QED  BY <1>1, <1>5, <3>1, <4>1 DEF KeptInv, RowsKept
      <3>7. FlushIsDurable'
        BY <1>1, <1>5, <3>1 DEF KeptInv, FlushIsDurable
      <3> QED  BY <3>5, <3>6, <3>7 DEF KeptInv
    <2> QED  BY <1>5, <2>1, <2>2 DEF Fails
  <1>6. CASE Stays(t) /\ UNCHANGED dlq /\ table \subseteq table'
    <2>1. PICK w \in FlushPlaces : pc' = [pc EXCEPT ![t] = w]
      BY <1>6 DEF Stays
    <2>2. /\ UNCHANGED <<buffer, mine, snap, appended, told, promised>>
          /\ pc[t] \in FlushPlaces /\ w # "idle" /\ pc[t] # "idle"
      BY <1>6 DEF Stays, FlushPlaces
    <2>3. ASSUME NEW u \in Tasks
          PROVE  /\ pc'[u] # "idle" => pc[u] # "idle"
                 /\ pc'[u] \in FlushPlaces \cup {"poison"} => pc[u] \in FlushPlaces \cup {"poison"}
      BY <2>1, <2>2 DEF CallInv
    <2>4. OneCall' /\ SnapIsBuffer'
      BY <1>1, <2>2, <2>3 DEF KeptInv, OneCall, SnapIsBuffer
    <2>5. SingleRow' /\ RowsKept' /\ FlushIsDurable'
      BY <1>1, <1>6, <2>2 DEF KeptInv, SingleRow, RowsKept, FlushIsDurable
    <2> QED  BY <2>4, <2>5 DEF KeptInv
  <1>7. CASE Poisons(t)
    <2>1. pc[t] # "idle" /\ snap[t] = buffer
      BY <1>1, <1>7 DEF Poisons, KeptInv, SnapIsBuffer
    <2>2. /\ buffer' = <<>> /\ Clears(t) /\ table' = table /\ appended' = appended
          /\ dlq' = dlq \cup ToSet(buffer) /\ told \subseteq told'
          /\ promised' = promised \/ promised' = appended
      <3>1. Without(Len(snap[t]), buffer) = <<>>
        BY <1>2, <2>1, WithoutAll
      <3> QED  BY <1>7, <2>1, <3>1 DEF Poisons, Returns, Raises
    <2>3. ToSet(buffer') = {}
      BY <2>2, RowsOfNone
    <2>4. OneCall' /\ SnapIsBuffer' /\ SingleRow'
      BY <1>1, <2>1, <2>2, <2>3, ClearsKept
    <2>5. RowsKept' /\ FlushIsDurable'
      BY <1>1, <2>2, <2>3 DEF KeptInv, RowsKept, FlushIsDurable
    <2> QED  BY <2>4, <2>5 DEF KeptInv
  <1> QED  BY <1>3, <1>4, <1>5, <1>6, <1>7 DEF Does

\* The history of the rows is right in every state.
LEMMA KeptInvariant == Spec => []KeptInv
  <1>1. Init => KeptInv
    BY RowsOfNone DEF Init, KeptInv, OneCall, SnapIsBuffer, SingleRow, RowsKept, FlushIsDurable,
                      FlushPlaces
  <1>2. KeptInv /\ TypeOK /\ CallRows /\ PoolInv /\ [Next]_vars => KeptInv'
    <2> SUFFICES ASSUME KeptInv, TypeOK, CallRows, PoolInv, [Next]_vars PROVE KeptInv'
      OBVIOUS
    <2>1. RowTypes /\ CallInv
      BY DEF TypeOK, RowTypes, PoolInv
    <2>2. CASE UNCHANGED <<config, buffer, taskVars, table, dlq, history>>
      BY <2>2 DEF KeptInv, OneCall, SnapIsBuffer, SingleRow, RowsKept, FlushIsDurable,
                  taskVars, history
    <2>3. CASE UNCHANGED config /\ \E t \in Tasks : Enter(t)
      <3>1. PICK t \in Tasks, m \in Methods, n \in 0..2 : Call(t, m, n)
        BY <2>3, EnterIsCall
      <3>2. /\ pc' = [pc EXCEPT ![t] = "start"] /\ pc[t] = "idle"
            /\ mine' = [mine EXCEPT ![t] = given + 1 .. given + n]
            /\ UNCHANGED <<buffer, snap, table, dlq, appended, told, promised>>
            /\ overlapped' = (overlapped \/ \E u \in Tasks : pc[u] # "idle")
        BY <3>1 DEF Call, Goto, Busy
      <3>3. ~overlapped' => ~overlapped
        BY <3>2
      <3>4. SUFFICES ASSUME ~overlapped' PROVE OneCall' /\ SnapIsBuffer' /\ SingleRow'
        BY <3>2, <3>3 DEF KeptInv, RowsKept, FlushIsDurable
      <3>5. \A u \in Tasks : pc[u] = "idle" /\ mine[u] = {}
        BY <3>2, <3>4 DEF CallRows
      <3>6. \A u \in Tasks : pc'[u] \in {"idle", "start"} /\ (u # t => pc'[u] = "idle")
        BY <3>2, <3>5 DEF TypeOK
      <3>7. OneCall' /\ SnapIsBuffer'
        BY <3>6 DEF OneCall, SnapIsBuffer, FlushPlaces
      <3>8. SingleRow'
        BY <2>3, <3>2, <3>3, <3>4, <3>5 DEF KeptInv, SingleRow
      <3> QED  BY <3>7, <3>8
    <2>4. CASE UNCHANGED config /\ \E t \in Tasks : Proceed(t)
      <3>1. PICK t \in Tasks : Proceed(t)
        BY <2>4
      <3>2. Does(t) /\ overlapped' = overlapped
        BY <2>1, <3>1, ProceedDoes, ProceedKeeps
      <3> QED  BY <2>1, <2>4, <3>2, DoesKept
    <2> QED  BY <2>2, <2>3, <2>4 DEF Next, Step, Invalidate, vars, worldVars, history
  <1> QED  BY <1>1, <1>2, RowShapes, PoolInvariant, PTL DEF Spec

\* A row that entered the buffer is in it, in the table or in the poison sink, or its own
\* call raised: no failure, retry or dropped buffer loses one of a call that returned.
THEOREM NoRowLost == Spec => []RowsKept
  <1>1. KeptInv => RowsKept
    BY DEF KeptInv
  <1> QED  BY <1>1, KeptInvariant, PTL

\* When flush() or close() returns, every row accepted before is in the table or in the
\* poison sink, or its own call raised.
THEOREM FlushKeepsPromise == Spec => []FlushIsDurable
  <1>1. KeptInv => FlushIsDurable
    BY DEF KeptInv
  <1> QED  BY <1>1, KeptInvariant, PTL
=============================================================================
