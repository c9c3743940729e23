------------------------- MODULE SignalTrackerProofs -------------------------
(***************************************************************************)
(* Proofs about SignalTracker for every number of tasks, signals, symbols  *)
(* and setups: type correctness and the exclusion of the per-symbol lock   *)
(* for every operation and fault; then, when only operations that take the *)
(* lock write rows, that no update is lost, that a signal is closed once   *)
(* and that the journal is a SignalLifecycle; at last, that restarts leave *)
(* every cleaned row an outcome and lose no close to analytics.            *)
(***************************************************************************)
EXTENDS SignalTracker, FiniteSetTheorems, TLAPS

-----------------------------------------------------------------------------
(* Type correctness, one lemma per group of actions.                       *)

LEMMA TypeBegin ==
    ASSUME TypeOK, NEW t \in Tasks, NEW y \in Symbols, NEW o \in AllOps,
           BeginLocked(t, o, y)
    PROVE  TypeOK'
BY DEF TypeOK, BeginLocked, db, PCs

LEMMA TypeReviewOpen ==
    ASSUME TypeOK, NEW t \in Tasks, ReviewOpenSignals(t)
    PROVE  TypeOK'
BY ConstantsAssumption DEF TypeOK, ReviewOpenSignals, db, PCs

LEMMA TypeForceClose ==
    ASSUME TypeOK, NEW t \in Tasks, NEW wanted \in SUBSET Signals,
           ForceClose(t, wanted)
    PROVE  TypeOK'
BY ConstantsAssumption DEF TypeOK, ForceClose, db, PCs

LEMMA TypeDeliver ==
    ASSUME TypeOK, NEW t \in Tasks, NEW s \in Signals, SelectAndDeliver(t, s)
    PROVE  TypeOK'
<1>1. /\ op' \in [Tasks -> AllOps \union {"adverse", "arm", "none"}]
      /\ pc' \in [Tasks -> PCs]
      /\ sym' \in [Tasks -> Symbols \union {None}]
  <2>1. \/ /\ op' = [op EXCEPT ![t] = "arm"] /\ pc' = [pc EXCEPT ![t] = "save"]
           /\ sym' = sym
        \/ /\ "supersede" \in Ops /\ op' = [op EXCEPT ![t] = "supersede"]
           /\ pc' = [pc EXCEPT ![t] = "lock"]
           /\ sym' = [sym EXCEPT ![t] = SymbolOf[s]]
    BY DEF SelectAndDeliver
  <2>2. "supersede" \in AllOps /\ SymbolOf[s] \in Symbols
    BY ConstantsAssumption DEF AllOps, LockedOps
  <2>3. \E o \in AllOps \union {"arm"}, p \in {"save", "lock"}, y \in Symbols :
            /\ op' = [op EXCEPT ![t] = o] /\ pc' = [pc EXCEPT ![t] = p]
            /\ sym' = [sym EXCEPT ![t] = y] \/ sym' = sym
    BY <2>1, <2>2
  <2>4. PICK o \in AllOps \union {"arm"}, p \in {"save", "lock"} :
            op' = [op EXCEPT ![t] = o] /\ pc' = [pc EXCEPT ![t] = p]
    BY <2>3
  <2>5. op' \in [Tasks -> AllOps \union {"adverse", "arm", "none"}]
    BY <2>4 DEF TypeOK
  <2>6. pc' \in [Tasks -> PCs]
    BY <2>4 DEF TypeOK, PCs
  <2>7. sym' \in [Tasks -> Symbols \union {None}]
    BY <2>3 DEF TypeOK
  <2>. QED BY <2>5, <2>6, <2>7
<1>. QED BY <1>1 DEF TypeOK, SelectAndDeliver

LEMMA ReadWorkType ==
    ASSUME TypeOK, NEW t \in Tasks, NEW work \in SUBSET Signals,
           NEW persist \in BOOLEAN, ReadWork(t, work, persist),
           op' \in [Tasks -> AllOps \union {"adverse", "arm", "none"}],
           late' \in [Tasks -> SUBSET Signals], syms' \in [Tasks -> SUBSET Symbols]
    PROVE  TypeOK'
BY DEF TypeOK, ReadWork, db, PCs

LEMMA TypeRead ==
    ASSUME TypeOK, NEW t \in Tasks, ReadStep(t)
    PROVE  TypeOK'
<1>. USE ReadWorkType DEF TypeOK
<1>1. OpenRows \subseteq Signals /\ \A y : OpenOf(y) \subseteq Signals
    BY DEF OpenOf, OpenRows
<1>2. CASE ReadSymbol(t)
    BY <1>1, <1>2 DEF ReadSymbol
<1>3. CASE ReadAdverse(t)
    BY <1>1, <1>3 DEF ReadAdverse
<1>4. CASE ReadSuperseded(t)
    BY <1>1, <1>4 DEF ReadSuperseded
<1>5. CASE ReadSweep(t)
  <2>1. PICK stale \in SUBSET OpenRows :
            /\ ReadWork(t, stale, FALSE)
            /\ syms' = [syms EXCEPT ![t] = {SymbolOf[s] : s \in OpenRows \ stale}]
    BY <1>5 DEF ReadSweep
  <2>2. {SymbolOf[s] : s \in OpenRows \ stale} \subseteq Symbols
    BY <1>1, ConstantsAssumption
  <2>3. syms' \in [Tasks -> SUBSET Symbols]
    BY <2>1, <2>2
  <2>4. /\ op' \in [Tasks -> AllOps \union {"adverse", "arm", "none"}]
        /\ late' \in [Tasks -> SUBSET Signals]
    BY <1>5 DEF ReadSweep
  <2>. QED BY <1>1, <2>1, <2>3, <2>4
<1>6. CASE ReadForced(t)
    BY <1>1, <1>6 DEF ReadForced
<1>7. CASE ReadForLink(t)
    BY <1>1, <1>7 DEF ReadForLink
<1>8. CASE ReadForCancel(t)
    BY <1>1, <1>8 DEF ReadForCancel
<1>. QED
    BY <1>2, <1>3, <1>4, <1>5, <1>6, <1>7, <1>8 DEF ReadStep

\* The row an operation stores is a row, and Put stores it where it should.
LEMMA PutType ==
    ASSUME TypeOK, NEW t \in Tasks, NEW s \in Signals, NEW r \in Row, Put(t, s, r),
           pc' \in [Tasks -> PCs], todo' \in [Tasks -> SUBSET Signals],
           cur' \in [Tasks -> Signals \union {None}], dirty' \in [Tasks -> BOOLEAN],
           closures' \in [Signals -> 0..2], acts' \in [Signals -> 0..2]
    PROVE  TypeOK'
BY DEF TypeOK, Put

LEMMA SnapshotIsRow ==
    ASSUME TypeOK, NEW t \in Tasks, NEW s \in Signals
    PROVE  /\ snap[t][s] \in Row
           /\ snap[t][s] = [st |-> snap[t][s].st, tp1 |-> snap[t][s].tp1,
                            msg |-> snap[t][s].msg, why |-> snap[t][s].why]
BY DEF TypeOK, Row

LEMMA BumpType ==
    ASSUME NEW n \in 0..2
    PROVE  Bump(n) \in 0..2
BY DEF Bump

LEMMA TypeProgressRow ==
    ASSUME TypeOK, NEW t \in Tasks, NEW s \in Signals,
           Activate(t, s) \/ MarkTp1(t, s) \/ MarkChecked(t, s) \/ LinkMessage(t, s)
    PROVE  TypeOK'
<1>1. CASE Activate(t, s)
  <2>1. [snap[t][s] EXCEPT !.st = "active"] \in Row
    BY SnapshotIsRow DEF Row, Status
  <2>2. acts' \in [Signals -> 0..2]
    BY <1>1, BumpType DEF Activate, TypeOK
  <2>. QED BY <1>1, <2>1, <2>2, PutType DEF Activate, TypeOK
<1>2. CASE MarkTp1(t, s)
  <2>1. [snap[t][s] EXCEPT !.tp1 = TRUE] \in Row
    BY SnapshotIsRow DEF Row
  <2>. QED BY <1>2, <2>1, PutType DEF MarkTp1, TypeOK
<1>3. CASE MarkChecked(t, s)
    BY <1>3, SnapshotIsRow, PutType DEF MarkChecked, TypeOK
<1>4. CASE LinkMessage(t, s)
  <2>1. [snap[t][s] EXCEPT !.msg = TRUE] \in Row
    BY SnapshotIsRow DEF Row
  <2>. QED BY <1>4, <2>1, PutType DEF LinkMessage, TypeOK
<1>. QED BY <1>1, <1>2, <1>3, <1>4

LEMMA TypeClose ==
    ASSUME TypeOK, NEW t \in Tasks, NEW s \in Signals, NEW reason \in Reasons,
           NEW rest \in SUBSET Signals, NEW next \in PCs,
           CloseRow(t, s, reason, rest, next),
           cur' \in [Tasks -> Signals \union {None}]
    PROVE  TypeOK'
<1>1. [snap[t][s] EXCEPT !.st = "closed", !.why = reason,
                         !.tp1 = @ \/ reason = "tp1_hit"] \in Row
    BY SnapshotIsRow, ZenonT(60) DEF Row, Status
<1>2. closures' \in [Signals -> 0..2]
    BY BumpType DEF CloseRow, TypeOK
<1>. QED BY <1>1, <1>2, PutType DEF CloseRow, TypeOK

LEMMA TypeCloseEvent ==
    ASSUME TypeOK, NEW t \in Tasks, NEW s \in Signals, NEW reason \in Reasons,
           CloseEvent(t, s, reason)
    PROVE  TypeOK'
<1>1. cur' \in [Tasks -> Signals \union {None}]
    BY DEF CloseEvent, TypeOK
<1>2. PICK rest \in SUBSET Signals : CloseRow(t, s, reason, rest, "queue")
    BY DEF CloseEvent, TypeOK
<1>. QED BY <1>1, <1>2, TypeClose DEF PCs

LEMMA TypeRow ==
    ASSUME TypeOK, NEW t \in Tasks, NEW s \in Signals, RowStep(t, s)
    PROVE  TypeOK'
<1>1. CASE Activate(t, s) \/ MarkTp1(t, s) \/ MarkChecked(t, s) \/ LinkMessage(t, s)
    BY <1>1, TypeProgressRow
<1>2. CASE \E reason \in Reasons : CloseEvent(t, s, reason)
    BY <1>2, TypeCloseEvent
<1>3. CASE CancelRow(t, s)
  <2>1. cur' \in [Tasks -> Signals \union {None}]
    BY <1>3 DEF CancelRow, TypeOK
  <2>. QED BY <1>3, <2>1, TypeClose DEF CancelRow, PCs, Reasons, PendingReasons
<1>4. RowStep(t, s) => \/ Activate(t, s) \/ MarkTp1(t, s) \/ MarkChecked(t, s)
                       \/ LinkMessage(t, s) \/ CancelRow(t, s)
                       \/ \E reason \in Reasons : CloseEvent(t, s, reason)
    BY ConstantsAssumption
       DEF RowStep, ClosePending, CloseActive, CloseEmergency, CloseSuperseded,
           CloseExpired, Reasons, PendingReasons
<1>. QED BY <1>1, <1>2, <1>3, <1>4

LEMMA TypeQueue ==
    ASSUME TypeOK, NEW t \in Tasks, QueueOutcome(t), cur[t] \in Signals,
           snap[t][cur[t]].why \in Reasons
    PROVE  TypeOK'
<1>1. queued' \subseteq Payload
    BY DEF TypeOK, QueueOutcome, Payload
<1>. QED BY <1>1 DEF TypeOK, QueueOutcome, db, PCs

LEMMA AfterFlushType ==
    ASSUME TypeOK, NEW t \in Tasks, AfterFlush(t)
    PROVE  /\ pc' \in [Tasks -> PCs]
           /\ cur' \in [Tasks -> Signals \union {None}]
BY DEF TypeOK, AfterFlush, PCs

LEMMA TypeFlushNothing ==
    ASSUME TypeOK, NEW t \in Tasks, FlushNothing(t)
    PROVE  TypeOK'
BY AfterFlushType DEF TypeOK, FlushNothing, db

LEMMA TypeFlushTake ==
    ASSUME TypeOK, NEW t \in Tasks, FlushTake(t)
    PROVE  TypeOK'
BY DEF TypeOK, FlushTake, db, PCs

LEMMA TypeSaveBatchFails ==
    ASSUME TypeOK, NEW t \in Tasks, SaveBatchFails(t)
    PROVE  TypeOK'
BY AfterFlushType DEF TypeOK, SaveBatchFails, db

LEMMA TypeSaveBatch ==
    ASSUME TypeOK, NEW t \in Tasks, SaveBatch(t)
    PROVE  TypeOK'
<1>1. PICK last \in [Ids(batch[t]) -> {p.why : p \in batch[t]}] :
        outcome' = [s \in Signals |-> IF s \in Ids(batch[t]) THEN last[s]
                                                          ELSE outcome[s]]
    BY DEF SaveBatch
<1>2. {p.why : p \in batch[t]} \subseteq Reasons
    BY DEF TypeOK, Payload
<1>3. outcome' \in [Signals -> Reasons \union {None}]
    BY <1>1, <1>2 DEF TypeOK
<1>. QED BY <1>3, AfterFlushType DEF TypeOK, SaveBatch

LEMMA ResetType ==
    ASSUME TypeOK, NEW t \in Tasks, Reset(t)
    PROVE  /\ op' \in [Tasks -> AllOps \union {"adverse", "arm", "none"}]
           /\ pc' \in [Tasks -> PCs]
           /\ sym' \in [Tasks -> Symbols \union {None}]
           /\ todo' \in [Tasks -> SUBSET Signals]
           /\ snap' \in [Tasks -> [Signals -> Row]]
           /\ late' \in [Tasks -> SUBSET Signals]
           /\ mine' \in [Tasks -> Signals \union {None}]
           /\ cur' \in [Tasks -> Signals \union {None}]
           /\ batch' \in [Tasks -> SUBSET Payload]
           /\ dirty' \in [Tasks -> BOOLEAN]
           /\ syms' \in [Tasks -> SUBSET Symbols]
BY DEF TypeOK, Reset, PCs, NoRow, Row, Status

LEMMA ReleaseLockType ==
    ASSUME TypeOK, NEW t \in Tasks, ReleaseLock(t)
    PROVE  lock' \in [Symbols -> Tasks \union {None}]
BY DEF TypeOK, ReleaseLock

LEMMA TypeEnd ==
    ASSUME TypeOK, NEW t \in Tasks, EndStep(t)
    PROVE  TypeOK'
<1>1. CASE EndRows(t)
    BY <1>1 DEF TypeOK, EndRows, db, PCs
<1>2. CASE Finish(t)
    BY <1>2, ResetType, ReleaseLockType DEF TypeOK, Finish, db
<1>3. CASE ReviewNextSymbol(t)
  <2>1. /\ sym' \in [Tasks -> Symbols \union {None}]
        /\ syms' \in [Tasks -> SUBSET Symbols]
    BY <1>3 DEF ReviewNextSymbol, TypeOK
  <2>2. /\ op' \in [Tasks -> AllOps \union {"adverse", "arm", "none"}]
        /\ pc' \in [Tasks -> PCs]
    BY <1>3 DEF ReviewNextSymbol, TypeOK, PCs, AllOps, LockedOps
  <2>3. snap' \in [Tasks -> [Signals -> Row]]
    BY <1>3 DEF ReviewNextSymbol, TypeOK, NoRow, Row, Status
  <2>. QED BY <1>3, <2>1, <2>2, <2>3, ReleaseLockType DEF TypeOK, ReviewNextSymbol, db
<1>4. CASE SupersededReady(t)
  <2>1. snap' \in [Tasks -> [Signals -> Row]]
    BY <1>4 DEF SupersededReady, TypeOK, NoRow, Row, Status
  <2>. QED BY <1>4, <2>1, ReleaseLockType DEF TypeOK, SupersededReady, db, PCs
<1>5. CASE CooldownReject(t)
    BY <1>5, ResetType, ReleaseLockType DEF TypeOK, CooldownReject
<1>6. CASE ArmSignal(t)
    BY <1>6 DEF TypeOK, ArmSignal, PCs, NoRow, Row, Status
<1>7. CASE Armed(t)
    BY <1>7 DEF TypeOK, Armed, db, PCs
<1>8. CASE Sent(t)
  <2>1. CASE Reset(t)
    BY <1>8, <2>1, ResetType DEF TypeOK, Sent
  <2>2. CASE "link" \in Ops /\ Then(t, "link")
    BY <1>8, <2>2, ConstantsAssumption DEF TypeOK, Sent, Then, PCs
  <2>. QED BY <1>8, <2>1, <2>2 DEF Sent
<1>9. CASE NotSent(t)
    BY <1>9, ConstantsAssumption DEF TypeOK, NotSent, Then, PCs
<1>. QED
    BY <1>1, <1>2, <1>3, <1>4, <1>5, <1>6, <1>7, <1>8, <1>9 DEF EndStep

LEMMA TypeTimeout ==
    ASSUME TypeOK, NEW t \in Tasks, ArmTimeout(t) \/ LinkTimeout(t)
    PROVE  TypeOK'
<1>1. CASE ArmTimeout(t)
    BY <1>1, ResetType DEF TypeOK, ArmTimeout
<1>2. CASE LinkTimeout(t)
    BY <1>2, ResetType DEF TypeOK, LinkTimeout, db
<1>. QED BY <1>1, <1>2

LEMMA TypeCycleTimeout ==
    ASSUME TypeOK, NEW t \in Tasks, CycleTimeout(t)
    PROVE  TypeOK'
<1>1. fate' \in [Signals -> {"new", "offered", "sent", "unsent"}]
  <2>1. PICK f \in {"sent", "unsent"} :
          fate' = [s \in Signals |-> IF s # mine[t] \/ fate[s] # "offered" THEN fate[s]
                                    ELSE IF pc[t] = "send" THEN f ELSE "unsent"]
    BY DEF CycleTimeout
  <2>. QED BY <2>1 DEF TypeOK
<1>2. lock' \in [Symbols -> Tasks \union {None}]
    BY DEF CycleTimeout, TypeOK
<1>. QED BY <1>1, <1>2, ResetType DEF TypeOK, CycleTimeout

LEMMA TypeEnvironment ==
    ASSUME TypeOK, (\E s \in Signals : Expire(s)) \/ Crash \/ ReconcileFails \/ Startup
    PROVE  TypeOK'
<1>1. ASSUME NEW s \in Signals, Expire(s)
      PROVE  TypeOK'
    BY <1>1 DEF TypeOK, Expire, local
<1>2. CASE Crash
  <2>1. fate' \in [Signals -> {"new", "offered", "sent", "unsent"}]
    BY <1>2 DEF Crash, TypeOK
  <2>2. NoRow \in Row
    BY DEF NoRow, Row, Status
  <2>. QED BY <1>2, <2>1, <2>2 DEF Crash, TypeOK, PCs
<1>3. CASE CleanupOnStartup
  <2>1. ASSUME NEW q \in Signals
        PROVE  [row[q] EXCEPT !.st = "closed", !.why = "startup_cleanup"] \in Row
    <3>1. row[q] \in Row
      BY DEF TypeOK
    <3>2. "closed" \in Status /\ "startup_cleanup" \in Reasons
      BY DEF Status, Reasons
    <3>. QED BY <3>1, <3>2 DEF Row
  <2>2. row' \in [Signals -> Row]
    BY <1>3, <2>1 DEF CleanupOnStartup, TypeOK
  <2>. QED BY <1>3, <2>2 DEF CleanupOnStartup, TypeOK, local
<1>4. CASE Reconcile \/ ReconcileFails
  <2>1. \A q \in Signals : row[q].why \in Reasons \union {None}
    BY DEF TypeOK, Row
  <2>2. PICK S : RecordRows(S)
    BY <1>4 DEF Reconcile, ReconcileFails
  <2>3. outcome' \in [Signals -> Reasons \union {None}]
    BY <2>1, <2>2 DEF RecordRows, TypeOK
  <2>4. phase' \in {"up", "degraded"}
    BY <1>4 DEF Reconcile, ReconcileFails
  <2>. QED BY <2>2, <2>3, <2>4 DEF RecordRows, TypeOK, local
<1>. QED BY <1>1, <1>2, <1>3, <1>4 DEF Startup

-----------------------------------------------------------------------------
(* The symbol lock: a step of one task changes the lock only by acquiring  *)
(* a free one or by releasing its own.                                     *)

Locked == LockedOps \union {"adverse"}

OthersSame(t) ==
    \A u \in Tasks \ {t} : /\ op'[u] = op[u] /\ pc'[u] = pc[u] /\ sym'[u] = sym[u]
                           /\ cur'[u] = cur[u] /\ snap'[u] = snap[u]

ShapeOf(t) ==
    /\ op[t] \in Locked => sym[t] \in Symbols
    /\ pc[t] = "lock" => op[t] \in LockedOps
    /\ pc[t] = "send" => op[t] = "arm"
    /\ pc[t] = "queue" => cur[t] \in Signals /\ snap[t][cur[t]].why \in Reasons

KeepsLock(t) ==
    /\ lock' = lock
    /\ Holding(t)' <=> Holding(t)
    /\ Holding(t) => sym'[t] = sym[t]

Acquires(t) ==
    /\ ~Holding(t) /\ Holding(t)'
    /\ sym[t] \in Symbols /\ sym'[t] = sym[t]
    /\ lock[sym[t]] = None
    /\ lock' = [lock EXCEPT ![sym[t]] = t]

Releases(t) ==
    /\ Holding(t) /\ ~Holding(t)'
    /\ lock' = [lock EXCEPT ![sym[t]] = None]

LEMMA ShapePerTask ==
    Shape <=> \A t \in Tasks : ShapeOf(t)
BY DEF Shape, ShapeOf, Locked

LEMMA LockStep ==
    ASSUME LockInv, TypeOK', NEW t \in Tasks, OthersSame(t), ShapeOf(t)',
           KeepsLock(t) \/ Acquires(t) \/ Releases(t)
    PROVE  LockInv'
<1>1. Shape'
  <2>1. \A u \in Tasks \ {t} : ShapeOf(u)'
    BY ShapePerTask DEF OthersSame, ShapeOf, LockInv
  <2>. QED BY <2>1 DEF Shape, ShapeOf, Locked
<1>2. \A u \in Tasks \ {t} : (Holding(u)' <=> Holding(u)) /\ sym'[u] = sym[u]
    BY DEF OthersSame, Holding
<1>3. \A u \in Tasks : Holding(u) => sym[u] \in Symbols /\ lock[sym[u]] = u
    BY DEF LockInv, Shape, Holding, LockMatchesHolder
<1>4. Holding(t)' => sym'[t] \in Symbols
    BY DEF ShapeOf, Holding, Locked
<1>5. \A y \in Symbols : lock[y] # None =>
        lock[y] \in Tasks /\ Holding(lock[y]) /\ sym[lock[y]] = y
    BY DEF LockInv, TypeOK, LockMatchesHolder
<1>6. LockMatchesHolder'
  <2>1. CASE KeepsLock(t)
    <3>1. ASSUME NEW u \in Tasks, Holding(u)'
          PROVE  lock'[sym'[u]] = u
      BY <1>2, <1>3, <2>1, <3>1 DEF KeepsLock, Holding
    <3>2. ASSUME NEW y \in Symbols, lock'[y] # None
          PROVE  (Holding(lock[y]) /\ sym[lock[y]] = y)'
      BY <1>2, <1>5, <2>1, <3>2 DEF KeepsLock, Holding
    <3>. QED BY <3>1, <3>2 DEF LockMatchesHolder
  <2>2. CASE Acquires(t)
    <3>1. ASSUME NEW u \in Tasks, Holding(u)'
          PROVE  lock'[sym'[u]] = u
      <4>1. CASE u = t
        BY <2>2, <4>1 DEF Acquires, LockInv, TypeOK
      <4>2. CASE u # t
        <5>1. Holding(u) /\ sym'[u] = sym[u] /\ lock[sym[u]] = u
          BY <1>2, <1>3, <3>1, <4>2
        <5>2. sym[u] # sym[t]
          BY <2>2, <5>1, ConstantsAssumption DEF Acquires
        <5>. QED BY <2>2, <5>1, <5>2 DEF Acquires, LockInv, TypeOK
      <4>. QED BY <4>1, <4>2
    <3>2. ASSUME NEW y \in Symbols, lock'[y] # None
          PROVE  (Holding(lock[y]) /\ sym[lock[y]] = y)'
      <4>1. CASE y = sym[t]
        BY <2>2, <4>1 DEF Acquires, LockInv, TypeOK, Holding
      <4>2. CASE y # sym[t]
        BY <1>2, <1>5, <2>2, <3>2, <4>2 DEF Acquires, LockInv, TypeOK, Holding
      <4>. QED BY <4>1, <4>2
    <3>. QED BY <3>1, <3>2 DEF LockMatchesHolder
  <2>3. CASE Releases(t)
    <3>1. ASSUME NEW u \in Tasks, Holding(u)'
          PROVE  lock'[sym'[u]] = u
      <4>1. u # t
        BY <2>3, <3>1 DEF Releases
      <4>2. Holding(u) /\ sym'[u] = sym[u] /\ lock[sym[u]] = u /\ lock[sym[t]] = t
        BY <1>2, <1>3, <2>3, <3>1, <4>1 DEF Releases
      <4>. QED BY <2>3, <4>1, <4>2 DEF Releases, LockInv, TypeOK
    <3>2. ASSUME NEW y \in Symbols, lock'[y] # None
          PROVE  (Holding(lock[y]) /\ sym[lock[y]] = y)'
      BY <1>2, <1>3, <1>5, <2>3, <3>2 DEF Releases, LockInv, TypeOK, Holding
    <3>. QED BY <3>1, <3>2 DEF LockMatchesHolder
  <2>. QED BY <2>1, <2>2, <2>3
<1>. QED BY <1>1, <1>6 DEF LockInv

\* A step that leaves the lock, the operation and the symbol of its task alone
\* and stays between the acquisition and the release.
LEMMA InsideStep ==
    ASSUME LockInv, TypeOK', NEW t \in Tasks, OthersSame(t), lock' = lock,
           sym'[t] = sym[t],
           \/ op'[t] = op[t]
           \/ op[t] = "review" /\ op'[t] = "adverse"
           \/ op[t] \notin Locked /\ op'[t] \notin Locked,
           pc[t] \notin {"idle", "lock"}, pc'[t] \notin {"idle", "lock"},
           pc'[t] = "send" => op'[t] = "arm",
           pc'[t] = "queue" => /\ cur'[t] \in Signals
                               /\ snap'[t][cur'[t]].why \in Reasons
    PROVE  LockInv'
<1>1. ShapeOf(t)'
    BY DEF LockInv, Shape, ShapeOf, Locked, LockedOps
<1>2. KeepsLock(t)
    BY DEF KeepsLock, Holding, Locked, LockedOps
<1>. QED BY <1>1, <1>2, LockStep

LEMMA LockBegin ==
    ASSUME LockInv, NEW t \in Tasks, NEW y \in Symbols, NEW o \in LockedOps,
           BeginLocked(t, o, y)
    PROVE  LockInv'
<1>1. TypeOK'
    BY TypeBegin DEF LockInv, AllOps
<1>2. OthersSame(t)
    BY DEF OthersSame, BeginLocked, LockInv, TypeOK
<1>3. ShapeOf(t)'
    BY DEF ShapeOf, BeginLocked, LockInv, TypeOK
<1>4. KeepsLock(t)
    BY DEF KeepsLock, Holding, BeginLocked, LockInv, TypeOK
<1>. QED BY <1>1, <1>2, <1>3, <1>4, LockStep

LEMMA LockBeginUnlocked ==
    ASSUME LockInv, NEW t \in Tasks, NEW wanted \in SUBSET Signals,
           ReviewOpenSignals(t) \/ ForceClose(t, wanted)
    PROVE  LockInv'
<1>1. TypeOK'
    BY TypeReviewOpen, TypeForceClose DEF LockInv
<1>2. \E o \in {"sweep", "force"} : /\ op' = [op EXCEPT ![t] = o]
                                    /\ pc' = [pc EXCEPT ![t] = "read"]
                                    /\ pc[t] = "idle"
                                    /\ UNCHANGED <<sym, cur, snap, lock>>
    BY DEF ReviewOpenSignals, ForceClose
<1>3. OthersSame(t)
    BY <1>2 DEF OthersSame, LockInv, TypeOK
<1>4. ShapeOf(t)'
    BY <1>2 DEF ShapeOf, LockInv, TypeOK, Locked, LockedOps
<1>5. KeepsLock(t)
    BY <1>2 DEF KeepsLock, Holding, LockInv, TypeOK, LockedOps
<1>. QED BY <1>1, <1>3, <1>4, <1>5, LockStep

LEMMA LockDeliver ==
    ASSUME LockInv, NEW t \in Tasks, NEW s \in Signals, SelectAndDeliver(t, s)
    PROVE  LockInv'
<1>1. TypeOK'
    BY TypeDeliver DEF LockInv
<1>2. pc[t] = "idle" /\ UNCHANGED <<lock, cur, snap>>
    BY DEF SelectAndDeliver
<1>3. CASE /\ op' = [op EXCEPT ![t] = "arm"] /\ pc' = [pc EXCEPT ![t] = "save"]
           /\ sym' = sym
  <2>1. OthersSame(t)
    BY <1>2, <1>3 DEF OthersSame, LockInv, TypeOK
  <2>2. ShapeOf(t)' /\ KeepsLock(t)
    BY <1>2, <1>3 DEF ShapeOf, KeepsLock, Holding, LockInv, TypeOK, Locked, LockedOps
  <2>. QED BY <1>1, <2>1, <2>2, LockStep
<1>4. CASE /\ op' = [op EXCEPT ![t] = "supersede"]
           /\ pc' = [pc EXCEPT ![t] = "lock"]
           /\ sym' = [sym EXCEPT ![t] = SymbolOf[s]]
  <2>1. OthersSame(t)
    BY <1>2, <1>4 DEF OthersSame, LockInv, TypeOK
  <2>2. ShapeOf(t)' /\ KeepsLock(t)
    BY <1>2, <1>4, ConstantsAssumption
       DEF ShapeOf, KeepsLock, Holding, LockInv, TypeOK, LockedOps
  <2>. QED BY <1>1, <2>1, <2>2, LockStep
<1>. QED BY <1>3, <1>4 DEF SelectAndDeliver

LEMMA TypeAcquire ==
    ASSUME TypeOK, NEW t \in Tasks, AcquireLock(t)
    PROVE  TypeOK'
BY DEF TypeOK, AcquireLock, db, PCs

LEMMA LockAcquire ==
    ASSUME LockInv, NEW t \in Tasks, AcquireLock(t)
    PROVE  LockInv'
<1>1. TypeOK'
    BY TypeAcquire DEF LockInv
<1>2. OthersSame(t)
    BY DEF OthersSame, AcquireLock, LockInv, TypeOK
<1>3. op[t] \in LockedOps /\ sym[t] \in Symbols
    BY DEF AcquireLock, LockInv, Shape
<1>4. ShapeOf(t)'
    BY <1>3 DEF ShapeOf, AcquireLock, LockInv, TypeOK
<1>5. Acquires(t)
    BY <1>3 DEF Acquires, Holding, AcquireLock, LockInv, TypeOK
<1>. QED BY <1>1, <1>2, <1>4, <1>5, LockStep

LEMMA LockRead ==
    ASSUME LockInv, NEW t \in Tasks, ReadStep(t)
    PROVE  LockInv'
<1>1. TypeOK'
    BY TypeRead DEF LockInv
<1>2. /\ pc[t] = "read" /\ pc' = [pc EXCEPT ![t] = "row"]
      /\ snap' = [snap EXCEPT ![t] = row]
      /\ UNCHANGED <<lock, sym, cur>>
      /\ op' = op \/ (op[t] = "review" /\ op' = [op EXCEPT ![t] = "adverse"])
    BY DEF ReadStep, ReadSymbol, ReadAdverse, ReadSuperseded, ReadSweep, ReadForced,
           ReadForLink, ReadForCancel, ReadWork
<1>3. OthersSame(t)
    BY <1>2 DEF OthersSame, LockInv, TypeOK
<1>4. pc'[t] = "row" /\ sym'[t] = sym[t]
    BY <1>2 DEF LockInv, TypeOK
<1>5. op'[t] = op[t] \/ (op[t] = "review" /\ op'[t] = "adverse")
    BY <1>2 DEF LockInv, TypeOK
<1>. QED BY <1>1, <1>2, <1>3, <1>4, <1>5, InsideStep

\* What every step on a row does to its task.
LEMMA RowStepShape ==
    ASSUME NEW t \in Tasks, NEW s \in Signals, RowStep(t, s)
    PROVE  /\ pc[t] = "row" /\ UNCHANGED <<lock, sym, op>>
           /\ \E r : snap' = [snap EXCEPT ![t][s] = r]
           /\ \/ pc' = pc /\ (cur' = cur \/ \E q \in {s, None} : cur' = [cur EXCEPT ![t] = q])
              \/ pc' = [pc EXCEPT ![t] = "row"] /\ cur' = cur
              \/ /\ pc' = [pc EXCEPT ![t] = "queue"] /\ cur' = [cur EXCEPT ![t] = s]
                 /\ \E reason \in Reasons : CloseEvent(t, s, reason)
<1>1. CASE Activate(t, s)
    BY <1>1 DEF Activate, Put, Processing
<1>2. CASE MarkTp1(t, s)
    BY <1>2 DEF MarkTp1, Put, Processing
<1>3. CASE MarkChecked(t, s)
    BY <1>3 DEF MarkChecked, Put, Processing
<1>4. CASE LinkMessage(t, s)
    BY <1>4 DEF LinkMessage, Put, Processing
<1>5. CASE CancelRow(t, s)
    BY <1>5 DEF CancelRow, CloseRow, Put, Processing
<1>6. ASSUME NEW reason \in Reasons, CloseEvent(t, s, reason)
      PROVE  /\ UNCHANGED <<lock, sym, op>>
             /\ \E r : snap' = [snap EXCEPT ![t][s] = r]
             /\ pc' = [pc EXCEPT ![t] = "queue"] /\ cur' = [cur EXCEPT ![t] = s]
    BY <1>6 DEF CloseEvent, CloseRow, Put
<1>7. \/ Activate(t, s) \/ MarkTp1(t, s) \/ MarkChecked(t, s)
      \/ LinkMessage(t, s) \/ CancelRow(t, s)
      \/ pc[t] = "row" /\ \E reason \in Reasons : CloseEvent(t, s, reason)
    BY ConstantsAssumption
       DEF RowStep, ClosePending, CloseActive, CloseEmergency, CloseSuperseded,
           CloseExpired, Processing, Reasons, PendingReasons
<1>. QED BY <1>1, <1>2, <1>3, <1>4, <1>5, <1>6, <1>7

LEMMA LockRow ==
    ASSUME LockInv, NEW t \in Tasks, NEW s \in Signals, RowStep(t, s)
    PROVE  LockInv'
<1>1. TypeOK'
    BY TypeRow DEF LockInv
<1>2. OthersSame(t)
    BY RowStepShape DEF OthersSame, LockInv, TypeOK
<1>3. pc'[t] \in {"row", "queue"} /\ sym'[t] = sym[t] /\ op'[t] = op[t]
    BY RowStepShape DEF LockInv, TypeOK
<1>4. ASSUME pc'[t] = "queue"
      PROVE  cur'[t] \in Signals /\ snap'[t][cur'[t]].why \in Reasons
  <2>1. ~(pc' = pc) /\ ~(pc' = [pc EXCEPT ![t] = "row"])
    BY <1>4, RowStepShape DEF LockInv, TypeOK
  <2>2. cur' = [cur EXCEPT ![t] = s] /\ \E reason \in Reasons : CloseEvent(t, s, reason)
    BY <2>1, RowStepShape
  <2>3. PICK reason \in Reasons : CloseEvent(t, s, reason)
    BY <2>2
  <2>4. snap'[t][s].why = reason
    BY <2>3, SnapshotIsRow DEF CloseEvent, CloseRow, Put, LockInv, TypeOK
  <2>5. cur'[t] = s
    BY <2>2 DEF LockInv, TypeOK
  <2>. QED BY <2>4, <2>5
<1>. QED BY <1>1, <1>2, <1>3, <1>4, RowStepShape, InsideStep

LEMMA LockFlush ==
    ASSUME LockInv, NEW t \in Tasks, FlushStep(t) \/ SaveBatchFails(t)
    PROVE  LockInv'
<1>1. CASE QueueOutcome(t)
  <2>1. TypeOK'
    BY <1>1, TypeQueue DEF LockInv, Shape, QueueOutcome
  <2>2. OthersSame(t) /\ pc'[t] = "flush" /\ pc[t] = "queue"
    BY <1>1 DEF QueueOutcome, OthersSame, LockInv, TypeOK
  <2>. QED BY <1>1, <2>1, <2>2, InsideStep DEF QueueOutcome
<1>2. CASE FlushTake(t)
  <2>1. TypeOK'
    BY <1>2, TypeFlushTake DEF LockInv
  <2>2. OthersSame(t) /\ pc'[t] \in {"batch", "endBatch"} /\ pc[t] \in {"flush", "end"}
    BY <1>2 DEF FlushTake, OthersSame, LockInv, TypeOK
  <2>. QED BY <1>2, <2>1, <2>2, InsideStep DEF FlushTake
<1>3. CASE FlushNothing(t) \/ SaveBatch(t) \/ SaveBatchFails(t)
  <2>1. TypeOK'
    BY <1>3, TypeFlushNothing, TypeSaveBatch, TypeSaveBatchFails DEF LockInv
  <2>2. /\ AfterFlush(t) /\ pc[t] \in {"flush", "end", "batch", "endBatch"}
        /\ UNCHANGED <<lock, op, sym, snap>>
    BY <1>3 DEF FlushNothing, SaveBatch, SaveBatchFails
  <2>3. OthersSame(t) /\ pc'[t] \in {"row", "done"}
    BY <2>2 DEF AfterFlush, OthersSame, LockInv, TypeOK
  <2>. QED BY <2>1, <2>2, <2>3, InsideStep
<1>. QED BY <1>1, <1>2, <1>3 DEF FlushStep

\* The last step of an operation that holds a lock, or held none.
LEMMA ReleaseStep ==
    ASSUME LockInv, TypeOK', NEW t \in Tasks, OthersSame(t), ReleaseLock(t),
           pc[t] = "done", ~Holding(t)', ShapeOf(t)'
    PROVE  LockInv'
<1>1. CASE op[t] \in Locked
  <2>1. Releases(t)
    BY <1>1 DEF Releases, Holding, ReleaseLock, Locked
  <2>. QED BY <2>1, LockStep
<1>2. CASE op[t] \notin Locked
  <2>1. KeepsLock(t)
    BY <1>2 DEF KeepsLock, Holding, ReleaseLock, Locked
  <2>. QED BY <2>1, LockStep
<1>. QED BY <1>1, <1>2

LEMMA ResetShape ==
    ASSUME LockInv, NEW t \in Tasks, Reset(t)
    PROVE  OthersSame(t) /\ ShapeOf(t)' /\ ~Holding(t)'
BY DEF Reset, OthersSame, ShapeOf, Holding, Locked, LockedOps, LockInv, TypeOK

LEMMA LockEnd ==
    ASSUME LockInv, NEW t \in Tasks, EndStep(t)
    PROVE  LockInv'
<1>1. TypeOK'
    BY TypeEnd DEF LockInv
<1>2. CASE EndRows(t)
  <2>1. OthersSame(t) /\ pc[t] = "row" /\ pc'[t] \in {"end", "done"}
    BY <1>2 DEF EndRows, OthersSame, LockInv, TypeOK
  <2>. QED BY <1>1, <1>2, <2>1, InsideStep DEF EndRows
<1>3. CASE Finish(t)
    BY <1>1, <1>3, ResetShape, ReleaseStep DEF Finish
<1>4. CASE ReviewNextSymbol(t)
  <2>1. OthersSame(t)
    BY <1>4 DEF ReviewNextSymbol, OthersSame, LockInv, TypeOK
  <2>2. ShapeOf(t)' /\ ~Holding(t)'
    BY <1>4 DEF ReviewNextSymbol, ShapeOf, Holding, LockedOps, LockInv, TypeOK
  <2>. QED BY <1>1, <1>4, <2>1, <2>2, ReleaseStep DEF ReviewNextSymbol
<1>5. CASE SupersededReady(t)
  <2>1. OthersSame(t)
    BY <1>5 DEF SupersededReady, OthersSame, LockInv, TypeOK
  <2>2. ShapeOf(t)' /\ ~Holding(t)'
    BY <1>5 DEF SupersededReady, ShapeOf, Holding, Locked, LockedOps, LockInv, TypeOK
  <2>. QED BY <1>1, <1>5, <2>1, <2>2, ReleaseStep DEF SupersededReady
<1>6. CASE CooldownReject(t)
    BY <1>1, <1>6, ResetShape, ReleaseStep DEF CooldownReject
<1>7. CASE ArmSignal(t)
  <2>1. OthersSame(t) /\ pc[t] = "save" /\ pc'[t] = "end"
    BY <1>7 DEF ArmSignal, OthersSame, LockInv, TypeOK
  <2>. QED BY <1>1, <1>7, <2>1, InsideStep DEF ArmSignal
<1>8. CASE Armed(t)
  <2>1. OthersSame(t) /\ pc[t] = "done" /\ pc'[t] = "send"
    BY <1>8 DEF Armed, OthersSame, LockInv, TypeOK
  <2>. QED BY <1>1, <1>8, <2>1, InsideStep DEF Armed
<1>9. ASSUME pc[t] = "send", lock' = lock,
             Then(t, "link") \/ Then(t, "cancel") \/ Reset(t)
      PROVE  LockInv'
  <2>1. op[t] = "arm"
    BY <1>9 DEF LockInv, Shape
  <2>2. ~Holding(t)
    BY <2>1 DEF Holding, LockedOps
  <2>3. CASE Reset(t)
    <3>1. KeepsLock(t)
      BY <1>9, <2>2, <2>3, ResetShape DEF KeepsLock
    <3>. QED BY <1>1, <2>3, <3>1, ResetShape, LockStep
  <2>4. ASSUME NEW o \in {"link", "cancel"}, Then(t, o)
        PROVE  LockInv'
    <3>1. OthersSame(t) /\ pc'[t] = "read" /\ op'[t] = o
      BY <2>4 DEF Then, OthersSame, LockInv, TypeOK
    <3>2. op[t] \notin Locked /\ op'[t] \notin Locked
      BY <2>1, <3>1 DEF Locked, LockedOps
    <3>. QED BY <1>1, <1>9, <2>4, <3>1, <3>2, InsideStep DEF Then
  <2>. QED BY <1>9, <2>3, <2>4
<1>10. CASE Sent(t) \/ NotSent(t)
    BY <1>9, <1>10 DEF Sent, NotSent
<1>. QED BY <1>2, <1>3, <1>4, <1>5, <1>6, <1>7, <1>8, <1>10 DEF EndStep

LEMMA LockTimeout ==
    ASSUME LockInv, NEW t \in Tasks, ArmTimeout(t) \/ LinkTimeout(t)
    PROVE  LockInv'
<1>1. TypeOK'
    BY TypeTimeout DEF LockInv
<1>2. Reset(t) /\ lock' = lock /\ op[t] \in {"arm", "link"}
    BY DEF ArmTimeout, LinkTimeout
<1>3. ~Holding(t)
    BY <1>2 DEF Holding, LockedOps
<1>4. KeepsLock(t)
    BY <1>2, <1>3, ResetShape DEF KeepsLock
<1>. QED BY <1>1, <1>2, <1>4, ResetShape, LockStep

LEMMA LockCycleTimeout ==
    ASSUME LockInv, NEW t \in Tasks, CycleTimeout(t)
    PROVE  LockInv'
<1>1. TypeOK'
    BY TypeCycleTimeout DEF LockInv
<1>2. Reset(t)
    BY DEF CycleTimeout
<1>3. CASE Holding(t)
  <2>1. Releases(t)
    BY <1>2, <1>3, ResetShape DEF Releases, CycleTimeout
  <2>. QED BY <1>1, <1>2, <2>1, ResetShape, LockStep
<1>4. CASE ~Holding(t)
  <2>1. KeepsLock(t)
    BY <1>2, <1>4, ResetShape DEF KeepsLock, CycleTimeout
  <2>. QED BY <1>1, <1>2, <2>1, ResetShape, LockStep
<1>. QED BY <1>3, <1>4

LEMMA LockEnvironment ==
    ASSUME LockInv, (\E s \in Signals : Expire(s)) \/ Crash \/ ReconcileFails \/ Startup
    PROVE  LockInv'
<1>1. TypeOK'
    BY TypeEnvironment DEF LockInv
<1>2. CASE (\E s \in Signals : Expire(s)) \/ ReconcileFails \/ Startup
  <2>1. UNCHANGED <<lock, op, pc, sym, cur, snap>>
    BY <1>2 DEF Expire, Startup, CleanupOnStartup, Reconcile, ReconcileFails, RecordRows, local
  <2>. QED BY <1>1, <2>1 DEF LockInv, Shape, LockMatchesHolder, Holding
<1>3. CASE Crash
    BY <1>1, <1>3
       DEF Crash, LockInv, Shape, LockMatchesHolder, Holding, LockedOps
<1>. QED BY <1>2, <1>3

LEMMA LockInit ==
    Init => LockInv
<1>. SUFFICES ASSUME Init PROVE LockInv
    OBVIOUS
<1>1. NoRow \in Row
    BY DEF NoRow, Row, Status
<1>2. TypeOK
    BY <1>1 DEF Init, TypeOK, PCs
<1>3. Shape /\ LockMatchesHolder
    BY DEF Init, Shape, LockMatchesHolder, Holding, LockedOps
<1>. QED BY <1>2, <1>3 DEF LockInv

LEMMA LockNext ==
    ASSUME LockInv, [Next]_vars
    PROVE  LockInv'
<1>1. CASE UNCHANGED vars
    BY <1>1 DEF vars, db, local, LockInv, TypeOK, Shape, LockMatchesHolder, Holding
<1>2. CASE Environment
  <2>1. ASSUME NEW t \in Tasks, NEW y \in Symbols,
               OnAggTrade(t, y) \/ ReviewForSymbol(t, y)
        PROVE  LockInv'
    BY <2>1, LockBegin DEF OnAggTrade, ReviewForSymbol, LockedOps
  <2>2. ASSUME NEW t \in Tasks, ReviewOpenSignals(t)
        PROVE  LockInv'
    BY <2>2, LockBeginUnlocked
  <2>3. ASSUME NEW t \in Tasks, NEW wanted \in SUBSET Signals, ForceClose(t, wanted)
        PROVE  LockInv'
    BY <2>3, LockBeginUnlocked
  <2>4. ASSUME NEW t \in Tasks, SaveBatchFails(t)
        PROVE  LockInv'
    BY <2>4, LockFlush
  <2>5. ASSUME NEW t \in Tasks, ArmTimeout(t) \/ LinkTimeout(t)
        PROVE  LockInv'
    BY <2>5, LockTimeout
  <2>. QED BY <1>2, <2>1, <2>2, <2>3, <2>4, <2>5, LockDeliver, LockCycleTimeout,
              LockEnvironment
              DEF Environment
<1>3. CASE Startup
    BY <1>3, LockEnvironment
<1>4. ASSUME NEW t \in Tasks, Progress(t)
      PROVE  LockInv'
    BY <1>4, LockAcquire, LockRead, LockRow, LockFlush, LockEnd DEF Progress
<1>. QED BY <1>1, <1>2, <1>3, <1>4 DEF Next

\* Every reachable state has the types of TypeOK.
THEOREM TypeCorrect == Spec => []TypeOK
<1>1. LockInv => TypeOK
    BY DEF LockInv
<1>. QED BY <1>1, LockInit, LockNext, PTL DEF Spec

\* For every number of tasks, signals and symbols, and for every mix of locked
\* and unlocked operations, crashes and timeouts: the tasks inside a locked
\* operation are exactly the holders of the locks of their symbols.
THEOREM LockExclusive == Spec => []LockMatchesHolder
<1>1. LockInv => LockMatchesHolder
    BY DEF LockInv
<1>. QED BY <1>1, LockInit, LockNext, PTL DEF Spec

-----------------------------------------------------------------------------
(* Under the locks: when every operation that closes or rewrites a row     *)
(* takes the lock of its symbol.                                           *)

OnlyLocked == Ops \intersect UnlockedOps = {}

\* A payload tells what its row says.
Settled(p) == row[p.id].st = "closed" /\ p.why = row[p.id].why

\* What a task knows while it is suspended: its snapshot of the rows it still
\* has to process is the stored rows, nobody has armed the signal it delivers,
\* and the payloads it carries are true.
TaskOK(t) ==
    /\ op[t] \notin UnlockedOps
    /\ ~Running => pc[t] = "idle"
    /\ op[t] \in {"supersede", "arm"} => mine[t] \in Signals
    /\ mine[t] # None => fate[mine[t]] # "new"
    /\ op[t] = "supersede" \/ pc[t] = "save" =>
         mine[t] \in Signals /\ row[mine[t]].st = "none"
    /\ todo[t] # {} => Holding(t) /\ pc[t] \in {"row", "queue", "flush", "batch"}
    /\ \A s \in todo[t] : SymbolOf[s] = sym[t] /\ snap[t][s] = row[s] /\ IsOpen(row[s])
    /\ \A p \in batch[t] : Settled(p)
    /\ pc[t] = "queue" => Settled([id |-> cur[t], why |-> snap[t][cur[t]].why])

\* Two tasks never deliver the same signal.
MineApart == \A t, u \in Tasks : t # u /\ mine[t] # None => mine[t] # mine[u]

\* What the journal itself looks like between two steps.
RowsOK ==
    /\ \A p \in queued : Settled(p)
    /\ \A s \in Signals :
         /\ fate[s] = "new" => row[s].st = "none"
         /\ row[s].st # "closed" => row[s].why = None
         /\ closures[s] <= (IF row[s].st = "closed" THEN 1 ELSE 0)
         /\ outcome[s] # None => row[s].st = "closed" /\ outcome[s] = row[s].why

JournalInv == LockInv /\ (\A t \in Tasks : TaskOK(t)) /\ MineApart /\ RowsOK

\* A step of one task leaves the others' locals alone.
Alone(t) ==
    \A u \in Tasks \ {t} :
        /\ op'[u] = op[u] /\ pc'[u] = pc[u] /\ sym'[u] = sym[u] /\ cur'[u] = cur[u]
        /\ todo'[u] = todo[u] /\ snap'[u] = snap[u] /\ mine'[u] = mine[u]
        /\ batch'[u] = batch[u]

\* The signals a task holds open rows of, or delivers, are its own.
LEMMA TodoApart ==
    ASSUME JournalInv, NEW t \in Tasks, NEW u \in Tasks, u # t,
           NEW s \in todo[t]
    PROVE  s \notin todo[u]
<1>. SUFFICES ASSUME s \in todo[u] PROVE FALSE
    OBVIOUS
<1>1. /\ Holding(t) /\ SymbolOf[s] = sym[t]
      /\ Holding(u) /\ SymbolOf[s] = sym[u]
    BY DEF JournalInv, TaskOK
<1>2. lock[sym[t]] = t /\ lock[sym[u]] = u
    BY <1>1 DEF JournalInv, LockInv, LockMatchesHolder
<1>. QED BY <1>1, <1>2

\* A step of one task that leaves the journal alone.
LEMMA QuietStep ==
    ASSUME JournalInv, LockInv', NEW t \in Tasks, Alone(t),
           UNCHANGED <<row, outcome, closures, phase>>,
           \A p \in queued' : Settled(p),
           \A s \in Signals : fate'[s] = "new" => fate[s] = "new",
           mine'[t] = mine[t] \/ mine'[t] = None
             \/ (mine'[t] \in Signals /\ fate[mine'[t]] = "new"),
           TaskOK(t)'
    PROVE  JournalInv'
<1>1. ASSUME NEW u \in Tasks \ {t} PROVE TaskOK(u)'
  <2>1. TaskOK(u)
    BY DEF JournalInv
  <2>2. mine[u] # None => mine[u] \in Signals
    BY DEF JournalInv, LockInv, TypeOK
  <2>3. mine'[u] # None => fate'[mine'[u]] # "new"
    BY <2>1, <2>2 DEF Alone, TaskOK
  <2>4. /\ op'[u] = op[u] /\ pc'[u] = pc[u] /\ sym'[u] = sym[u] /\ cur'[u] = cur[u]
        /\ todo'[u] = todo[u] /\ snap'[u] = snap[u] /\ mine'[u] = mine[u]
        /\ batch'[u] = batch[u] /\ row' = row /\ phase' = phase
    BY DEF Alone
  <2>5. Holding(u)' <=> Holding(u)
    BY <2>4 DEF Holding
  <2>. QED BY <2>1, <2>3, <2>4, <2>5 DEF TaskOK, Settled, Running
<1>2. MineApart'
  <2>1. \A u \in Tasks : mine[u] # None => fate[mine[u]] # "new"
    BY DEF JournalInv, TaskOK
  <2>2. ASSUME NEW u \in Tasks, u # t, mine'[t] # None PROVE mine'[t] # mine'[u]
    BY <2>1, <2>2, ConstantsAssumption DEF Alone, JournalInv, MineApart
  <2>3. ASSUME NEW u \in Tasks, NEW v \in Tasks, u # v, mine'[u] # None
        PROVE  mine'[u] # mine'[v]
    BY <2>2, <2>3 DEF Alone, JournalInv, MineApart
  <2>. QED BY <2>3 DEF MineApart
<1>3. RowsOK'
    BY DEF JournalInv, RowsOK, Settled
<1>. QED BY <1>1, <1>2, <1>3 DEF JournalInv

LEMMA JournalBegin ==
    ASSUME OnlyLocked, JournalInv, NEW t \in Tasks, NEW y \in Symbols,
           NEW o \in {"trade", "review"}, BeginLocked(t, o, y)
    PROVE  JournalInv'
<1>1. LockInv'
    BY LockBegin DEF JournalInv, LockedOps
<1>2. /\ pc[t] = "idle" /\ Running
      /\ op' = [op EXCEPT ![t] = o] /\ pc' = [pc EXCEPT ![t] = "lock"]
      /\ sym' = [sym EXCEPT ![t] = y]
      /\ UNCHANGED <<row, outcome, closures, phase, fate, queued, todo, snap, mine, cur, batch>>
    BY DEF BeginLocked, db
<1>3. Alone(t)
    BY <1>2 DEF Alone, JournalInv, LockInv, TypeOK
<1>4. TaskOK(t)'
  <2>1. TaskOK(t) /\ todo[t] = {}
    BY <1>2 DEF JournalInv, TaskOK
  <2>2. op'[t] = o /\ pc'[t] = "lock"
    BY <1>2 DEF JournalInv, LockInv, TypeOK
  <2>. QED BY <1>2, <2>1, <2>2 DEF TaskOK, Settled, UnlockedOps, Running
<1>. QED BY <1>1, <1>2, <1>3, <1>4, QuietStep DEF JournalInv, RowsOK

LEMMA JournalDeliver ==
    ASSUME OnlyLocked, JournalInv, NEW t \in Tasks, NEW s \in Signals, SelectAndDeliver(t, s)
    PROVE  JournalInv'
<1>1. LockInv'
    BY LockDeliver DEF JournalInv
<1>2. /\ pc[t] = "idle" /\ Running /\ fate[s] = "new"
      /\ fate' = [fate EXCEPT ![s] = "offered"] /\ mine' = [mine EXCEPT ![t] = s]
      /\ UNCHANGED <<row, outcome, closures, phase, queued, todo, snap, cur, batch>>
    BY DEF SelectAndDeliver
<1>3. PICK o \in {"arm", "supersede"}, p \in {"save", "lock"} :
         /\ op' = [op EXCEPT ![t] = o] /\ pc' = [pc EXCEPT ![t] = p]
         /\ sym' = [sym EXCEPT ![t] = SymbolOf[s]] \/ sym' = sym
    BY DEF SelectAndDeliver
<1>4. Alone(t)
    BY <1>2, <1>3 DEF Alone, JournalInv, LockInv, TypeOK
<1>5. TaskOK(t)'
  <2>1. TaskOK(t) /\ todo[t] = {} /\ row[s].st = "none"
    BY <1>2 DEF JournalInv, TaskOK, RowsOK
  <2>2. op'[t] = o /\ pc'[t] = p /\ mine'[t] = s /\ fate'[s] = "offered"
    BY <1>2, <1>3 DEF JournalInv, LockInv, TypeOK
  <2>. QED BY <1>2, <2>1, <2>2 DEF TaskOK, Settled, UnlockedOps, Running
<1>6. \A q \in Signals : fate'[q] = "new" => fate[q] = "new"
    BY <1>2 DEF JournalInv, LockInv, TypeOK
<1>7. mine'[t] = s
    BY <1>2 DEF JournalInv, LockInv, TypeOK
<1>. QED BY <1>1, <1>2, <1>4, <1>5, <1>6, <1>7, QuietStep DEF JournalInv, RowsOK

LEMMA JournalAcquire ==
    ASSUME OnlyLocked, JournalInv, NEW t \in Tasks, AcquireLock(t)
    PROVE  JournalInv'
<1>1. LockInv'
    BY LockAcquire DEF JournalInv
<1>2. /\ pc[t] = "lock" /\ pc' = [pc EXCEPT ![t] = "read"]
      /\ UNCHANGED <<row, outcome, closures, phase, fate, queued, op, sym, todo, snap, mine,
                     cur, batch>>
    BY DEF AcquireLock, db
<1>3. Alone(t)
    BY <1>2 DEF Alone, JournalInv, LockInv, TypeOK
<1>4. TaskOK(t)'
  <2>1. TaskOK(t) /\ todo[t] = {}
    BY <1>2 DEF JournalInv, TaskOK
  <2>2. pc'[t] = "read"
    BY <1>2 DEF JournalInv, LockInv, TypeOK
  <2>. QED BY <1>2, <2>1, <2>2 DEF TaskOK, Settled, Running
<1>. QED BY <1>1, <1>2, <1>3, <1>4, QuietStep DEF JournalInv, RowsOK

\* What an operation under the lock reads is the stored rows of its symbol.
LEMMA JournalRead ==
    ASSUME OnlyLocked, JournalInv, NEW t \in Tasks, ReadStep(t)
    PROVE  JournalInv'
<1>1. LockInv'
    BY LockRead DEF JournalInv
<1>2. TaskOK(t) /\ TypeOK
    BY DEF JournalInv, LockInv
<1>3. op[t] \in LockedOps /\ pc[t] = "read" /\ Running
    BY <1>2 DEF ReadStep, ReadSymbol, ReadAdverse, ReadSuperseded, ReadSweep, ReadForced,
                ReadForLink, ReadForCancel, TaskOK, UnlockedOps, LockedOps
<1>4. PICK work \in SUBSET OpenOf(sym[t]), persist \in BOOLEAN :
         /\ ReadWork(t, work, persist)
         /\ op' = op \/ (op[t] = "review" /\ op' = [op EXCEPT ![t] = "adverse"])
  <2>1. CASE ReadSymbol(t)
    BY <2>1 DEF ReadSymbol
  <2>2. CASE ReadAdverse(t)
    BY <2>2 DEF ReadAdverse
  <2>3. CASE ReadSuperseded(t)
    BY <2>3 DEF ReadSuperseded
  <2>. QED BY <1>2, <1>3, <2>1, <2>2, <2>3
          DEF ReadStep, ReadSweep, ReadForced, ReadForLink, ReadForCancel, LockedOps
<1>5. /\ snap' = [snap EXCEPT ![t] = row] /\ todo' = [todo EXCEPT ![t] = work]
      /\ pc' = [pc EXCEPT ![t] = "row"]
      /\ UNCHANGED <<row, outcome, closures, phase, fate, queued, sym, mine, cur, batch>>
    BY <1>4 DEF ReadWork, db
<1>6. Alone(t)
    BY <1>4, <1>5 DEF Alone, JournalInv, LockInv, TypeOK
<1>7. TaskOK(t)'
  <2>1. /\ snap'[t] = row /\ todo'[t] = work /\ pc'[t] = "row"
        /\ op'[t] = op[t] \/ (op[t] = "review" /\ op'[t] = "adverse")
    BY <1>2, <1>4, <1>5 DEF TypeOK
  <2>2. Holding(t)'
    BY <1>3, <2>1 DEF Holding, LockedOps
  <2>3. \A s \in work : SymbolOf[s] = sym[t] /\ IsOpen(row[s])
    BY DEF OpenOf, OpenRows
  <2>4. op'[t] \notin UnlockedOps
    BY <1>3, <2>1 DEF LockedOps, UnlockedOps
  <2>. QED BY <1>2, <1>3, <1>5, <2>1, <2>2, <2>3, <2>4 DEF TaskOK, Settled, Running
<1>. QED BY <1>1, <1>5, <1>6, <1>7, QuietStep DEF JournalInv, RowsOK

\* Payloads move from a task to the queue and from the queue to a task.
LEMMA JournalQueue ==
    ASSUME OnlyLocked, JournalInv, NEW t \in Tasks,
           QueueOutcome(t) \/ FlushNothing(t) \/ FlushTake(t) \/ SaveBatchFails(t)
    PROVE  JournalInv'
<1>1. LockInv'
    BY LockFlush DEF JournalInv, FlushStep
<1>2. TaskOK(t) /\ TypeOK /\ \A p \in queued : Settled(p)
    BY DEF JournalInv, LockInv, RowsOK
<1>3. UNCHANGED <<row, outcome, closures, phase, fate, op, sym, todo, snap, mine>>
    BY DEF QueueOutcome, FlushNothing, FlushTake, SaveBatchFails, db
<1>4. pc[t] \in {"queue", "flush", "end", "batch", "endBatch"}
    BY DEF QueueOutcome, FlushNothing, FlushTake, SaveBatchFails
<1>5. CASE QueueOutcome(t)
  <2>1. /\ pc' = [pc EXCEPT ![t] = "flush"] /\ UNCHANGED <<cur, batch>> /\ pc[t] = "queue"
        /\ queued' = queued \union {[id |-> cur[t], why |-> snap[t][cur[t]].why]}
    BY <1>5 DEF QueueOutcome
  <2>2. \A p \in queued' : Settled(p)
    BY <1>2, <2>1 DEF TaskOK
  <2>3. Alone(t) /\ pc'[t] = "flush"
    BY <1>2, <1>3, <2>1 DEF Alone, TypeOK
  <2>4. TaskOK(t)'
    BY <1>2, <1>3, <2>1, <2>3 DEF TaskOK, Settled, Holding, Running
  <2>. QED BY <1>1, <1>3, <2>2, <2>3, <2>4, QuietStep
<1>6. CASE FlushTake(t)
  <2>1. /\ pc[t] \in {"flush", "end"}
        /\ pc' = [pc EXCEPT ![t] = IF @ = "flush" THEN "batch" ELSE "endBatch"]
        /\ batch' = [batch EXCEPT ![t] = queued] /\ queued' = {} /\ cur' = cur
    BY <1>6 DEF FlushTake
  <2>2. Alone(t) /\ batch'[t] = queued
    BY <1>2, <1>3, <2>1 DEF Alone, TypeOK
  <2>3. pc'[t] = (IF pc[t] = "flush" THEN "batch" ELSE "endBatch")
    BY <1>2, <2>1 DEF TypeOK
  <2>4. TaskOK(t)'
    BY <1>2, <1>3, <2>1, <2>2, <2>3 DEF TaskOK, Settled, Holding, Running
  <2>. QED BY <1>1, <1>3, <2>1, <2>2, <2>4, QuietStep
<1>7. CASE FlushNothing(t) \/ SaveBatchFails(t)
  <2>1. /\ pc' = [pc EXCEPT ![t] = IF @ \in {"flush", "batch"} THEN "row" ELSE "done"]
        /\ cur' = [cur EXCEPT ![t] = None]
        /\ batch' = [batch EXCEPT ![t] = {}] \/ batch' = batch
        /\ queued' = queued /\ pc[t] \in {"flush", "end", "batch", "endBatch"}
    BY <1>7 DEF FlushNothing, SaveBatchFails, AfterFlush
  <2>2. Alone(t) /\ (batch'[t] = {} \/ batch'[t] = batch[t])
    BY <1>2, <1>3, <2>1 DEF Alone, TypeOK
  <2>3. pc'[t] = (IF pc[t] \in {"flush", "batch"} THEN "row" ELSE "done")
    BY <1>2, <2>1 DEF TypeOK
  <2>4. TaskOK(t)'
    BY <1>2, <1>3, <2>1, <2>2, <2>3 DEF TaskOK, Settled, Holding, Running
  <2>. QED BY <1>1, <1>2, <1>3, <2>1, <2>2, <2>4, QuietStep
<1>. QED BY <1>5, <1>6, <1>7

\* A task that resets itself carries nothing on.
LEMMA ResetAlone ==
    ASSUME JournalInv, LockInv', NEW t \in Tasks, Reset(t),
           UNCHANGED <<row, outcome, closures, phase, queued>>,
           \A s \in Signals : fate'[s] = "new" => fate[s] = "new"
    PROVE  JournalInv'
<1>1. TypeOK
    BY DEF JournalInv, LockInv
<1>2. Alone(t)
    BY <1>1 DEF Alone, Reset, TypeOK
<1>3. /\ op'[t] = "none" /\ pc'[t] = "idle" /\ todo'[t] = {} /\ mine'[t] = None
      /\ batch'[t] = {}
    BY <1>1 DEF Reset, TypeOK
<1>4. TaskOK(t)'
    BY <1>3 DEF TaskOK, UnlockedOps
<1>. QED BY <1>2, <1>3, <1>4, QuietStep DEF JournalInv, RowsOK

\* The steps between two operations of a task.
LEMMA JournalEnd ==
    ASSUME OnlyLocked, JournalInv, NEW t \in Tasks, EndStep(t), ~ArmSignal(t)
    PROVE  JournalInv'
<1>1. LockInv'
    BY LockEnd DEF JournalInv
<1>2. TaskOK(t) /\ TypeOK /\ (\A p \in queued : Settled(p))
    BY DEF JournalInv, LockInv, RowsOK
<1>3. CASE EndRows(t)
  <2>1. /\ pc' = [pc EXCEPT ![t] = IF dirty[t] THEN "end" ELSE "done"]
        /\ pc[t] = "row" /\ todo[t] = {}
        /\ UNCHANGED <<row, outcome, closures, phase, fate, queued, op, sym, todo, snap, mine,
                       cur, batch>>
    BY <1>3 DEF EndRows, db
  <2>2. Alone(t) /\ pc'[t] \in {"end", "done"}
    BY <1>2, <2>1 DEF Alone, TypeOK
  <2>3. TaskOK(t)'
    BY <1>2, <2>1, <2>2 DEF TaskOK, Settled, Running
  <2>. QED BY <1>1, <1>2, <2>1, <2>2, <2>3, QuietStep
<1>4. CASE Finish(t)
    BY <1>1, <1>4, ResetAlone DEF Finish, db
<1>5. CASE ReviewNextSymbol(t)
  <2>1. /\ op' = [op EXCEPT ![t] = "review"] /\ pc' = [pc EXCEPT ![t] = "lock"]
        /\ pc[t] = "done"
        /\ \E y : sym' = [sym EXCEPT ![t] = y]
        /\ \E x : snap' = [snap EXCEPT ![t] = x]
        /\ UNCHANGED <<row, outcome, closures, phase, fate, queued, todo, mine, cur, batch>>
    BY <1>5 DEF ReviewNextSymbol, db
  <2>2. Alone(t) /\ pc'[t] = "lock" /\ op'[t] = "review"
    BY <1>2, <2>1 DEF Alone, TypeOK
  <2>3. Running /\ todo[t] = {}
    BY <1>2, <2>1 DEF TaskOK
  <2>4. TaskOK(t)'
    BY <1>2, <2>1, <2>2, <2>3 DEF TaskOK, Settled, UnlockedOps, Running
  <2>. QED BY <1>1, <1>2, <2>1, <2>2, <2>4, QuietStep
<1>6. CASE SupersededReady(t)
  <2>1. /\ op' = [op EXCEPT ![t] = "arm"] /\ pc' = [pc EXCEPT ![t] = "save"]
        /\ pc[t] = "done" /\ op[t] = "supersede"
        /\ sym' = [sym EXCEPT ![t] = None]
        /\ \E x : snap' = [snap EXCEPT ![t] = x]
        /\ UNCHANGED <<row, outcome, closures, phase, fate, queued, todo, mine, cur, batch>>
    BY <1>6 DEF SupersededReady, db
  <2>2. Alone(t) /\ pc'[t] = "save" /\ op'[t] = "arm"
    BY <1>2, <2>1 DEF Alone, TypeOK
  <2>3. Running /\ todo[t] = {}
    BY <1>2, <2>1 DEF TaskOK
  <2>4. TaskOK(t)'
    BY <1>2, <2>1, <2>2, <2>3 DEF TaskOK, Settled, UnlockedOps, Running
  <2>. QED BY <1>1, <1>2, <2>1, <2>2, <2>4, QuietStep
<1>7. CASE CooldownReject(t)
  <2>1. fate' = [fate EXCEPT ![mine[t]] = "unsent"]
    BY <1>7 DEF CooldownReject
  <2>2. \A s \in Signals : fate'[s] = "new" => fate[s] = "new"
    BY <1>2, <2>1 DEF TypeOK
  <2>. QED BY <1>1, <1>7, <2>2, ResetAlone DEF CooldownReject
<1>8. CASE Armed(t)
  <2>1. /\ pc' = [pc EXCEPT ![t] = "send"] /\ pc[t] = "done"
        /\ UNCHANGED <<row, outcome, closures, phase, fate, queued, op, sym, todo, snap, mine,
                       cur, batch>>
    BY <1>8 DEF Armed, db
  <2>2. Alone(t) /\ pc'[t] = "send"
    BY <1>2, <2>1 DEF Alone, TypeOK
  <2>3. TaskOK(t)'
    BY <1>2, <2>1, <2>2 DEF TaskOK, Settled, Running
  <2>. QED BY <1>1, <1>2, <2>1, <2>2, <2>3, QuietStep
<1>9. CASE Sent(t) \/ NotSent(t)
  <2>1. Reset(t) /\ UNCHANGED <<row, outcome, closures, phase, queued>>
        /\ fate' = [fate EXCEPT ![mine[t]] = "sent"]
    BY <1>9 DEF Sent, NotSent, OnlyLocked, UnlockedOps
  <2>2. \A s \in Signals : fate'[s] = "new" => fate[s] = "new"
    BY <1>2, <2>1 DEF TypeOK
  <2>. QED BY <1>1, <2>1, <2>2, ResetAlone
<1>. QED BY <1>3, <1>4, <1>5, <1>6, <1>7, <1>8, <1>9 DEF EndStep

\* A timeout resets a task wherever it stands.
LEMMA JournalTimeout ==
    ASSUME OnlyLocked, JournalInv, NEW t \in Tasks,
           ArmTimeout(t) \/ LinkTimeout(t) \/ CycleTimeout(t)
    PROVE  JournalInv'
<1>1. LockInv'
    BY LockTimeout, LockCycleTimeout DEF JournalInv
<1>2. TypeOK
    BY DEF JournalInv, LockInv
<1>3. Reset(t) /\ UNCHANGED <<row, outcome, closures, phase, queued>>
    BY DEF ArmTimeout, LinkTimeout, CycleTimeout, db
<1>4. \A s \in Signals : fate'[s] = "new" => fate[s] = "new"
  <2>1. CASE ArmTimeout(t)
    BY <1>2, <2>1 DEF ArmTimeout, TypeOK
  <2>2. CASE LinkTimeout(t)
    BY <2>2 DEF LinkTimeout, db
  <2>3. CASE CycleTimeout(t)
    <3>1. PICK f \in {"sent", "unsent"} :
            fate' = [s \in Signals |-> IF s # mine[t] \/ fate[s] # "offered" THEN fate[s]
                                      ELSE IF pc[t] = "send" THEN f ELSE "unsent"]
      BY <2>3 DEF CycleTimeout
    <3>. QED BY <3>1
  <2>. QED BY <2>1, <2>2, <2>3
<1>. QED BY <1>1, <1>3, <1>4, ResetAlone

\* Writing a row back leaves it open, or closes it and goes on to its outcome.
StaysOpen(t, s, r) ==
    /\ IsOpen(r) /\ r.why = row[s].why
    /\ r.st = row[s].st \/ (row[s].st = "pending" /\ r.st = "active")
    /\ todo' = todo \/ todo' = [todo EXCEPT ![t] = @ \ {s}]
    /\ UNCHANGED <<pc, closures>>

IsClosed(t, s, r) ==
    /\ r.st = "closed" /\ r.why \in Reasons
    /\ \E rest \in SUBSET (todo[t] \ {s}) : todo' = [todo EXCEPT ![t] = rest]
    /\ pc' = [pc EXCEPT ![t] = "queue"] /\ cur' = [cur EXCEPT ![t] = s]
    /\ closures' = [closures EXCEPT ![s] = Bump(@)]

LEMMA RowStepWrites ==
    ASSUME OnlyLocked, JournalInv, NEW t \in Tasks, NEW s \in Signals, RowStep(t, s)
    PROVE  /\ pc[t] = "row" /\ s \in todo[t]
           /\ \E r \in Row : /\ row' = [row EXCEPT ![s] = r]
                             /\ snap' = [snap EXCEPT ![t][s] = r]
                             /\ StaysOpen(t, s, r) \/ IsClosed(t, s, r)
           /\ UNCHANGED <<outcome, fate, phase, queued, op, sym, mine, batch>>
           /\ cur' = cur \/ \E q \in {s, None} : cur' = [cur EXCEPT ![t] = q]
<1>1. TaskOK(t) /\ TypeOK
    BY DEF JournalInv, LockInv
<1>2. pc[t] = "row" /\ s \in todo[t]
    BY DEF RowStep, Activate, MarkTp1, MarkChecked, ClosePending, CloseActive, CloseEmergency,
           CloseSuperseded, CloseExpired, LinkMessage, CancelRow, Processing
<1>3. /\ snap[t][s] = row[s] /\ row[s] \in Row /\ IsOpen(row[s])
      /\ op[t] \notin UnlockedOps
    BY <1>1, <1>2 DEF TaskOK, TypeOK
<1>4. CASE Activate(t, s)
  <2> DEFINE r == [row[s] EXCEPT !.st = "active"]
  <2>1. r \in Row /\ r.st = "active" /\ r.why = row[s].why /\ row[s].st = "pending"
    BY <1>3, <1>4 DEF Row, Status, Activate
  <2>2. /\ row' = [row EXCEPT ![s] = r] /\ snap' = [snap EXCEPT ![t][s] = r]
        /\ UNCHANGED <<pc, closures, todo, outcome, fate, phase, queued, op, sym, mine, batch>>
        /\ cur' = [cur EXCEPT ![t] = s]
    BY <1>3, <1>4 DEF Activate, Put
  <2>. HIDE DEF r
  <2>. QED BY <1>2, <2>1, <2>2 DEF StaysOpen, IsOpen
<1>5. CASE MarkTp1(t, s)
  <2> DEFINE r == [row[s] EXCEPT !.tp1 = TRUE]
  <2>1. r \in Row /\ r.st = row[s].st /\ r.why = row[s].why
    BY <1>3 DEF Row, Status
  <2>2. /\ row' = [row EXCEPT ![s] = r] /\ snap' = [snap EXCEPT ![t][s] = r]
        /\ UNCHANGED <<pc, closures, todo, outcome, fate, phase, queued, op, sym, mine, batch>>
        /\ cur' = [cur EXCEPT ![t] = s]
    BY <1>3, <1>5 DEF MarkTp1, Put
  <2>. HIDE DEF r
  <2>. QED BY <1>2, <1>3, <2>1, <2>2 DEF StaysOpen, IsOpen
<1>6. CASE MarkChecked(t, s)
  <2>1. /\ row' = [row EXCEPT ![s] = row[s]] /\ snap' = [snap EXCEPT ![t][s] = row[s]]
        /\ UNCHANGED <<pc, closures, outcome, fate, phase, queued, op, sym, mine, batch>>
        /\ cur' = [cur EXCEPT ![t] = None] /\ todo' = [todo EXCEPT ![t] = @ \ {s}]
    BY <1>3, <1>6 DEF MarkChecked, Put
  <2>. QED BY <1>2, <1>3, <2>1 DEF StaysOpen
<1>7. ASSUME NEW reason \in Reasons, CloseEvent(t, s, reason)
      PROVE  /\ \E r \in Row : /\ row' = [row EXCEPT ![s] = r]
                               /\ snap' = [snap EXCEPT ![t][s] = r]
                               /\ IsClosed(t, s, r)
             /\ UNCHANGED <<outcome, fate, phase, queued, op, sym, mine, batch>>
             /\ cur' = [cur EXCEPT ![t] = s]
  <2> DEFINE r == [row[s] EXCEPT !.st = "closed", !.why = reason,
                                 !.tp1 = @ \/ reason = "tp1_hit"]
             rest == IF op[t] = "trade" THEN {} ELSE todo[t] \ {s}
  <2>1. r \in Row /\ r.st = "closed" /\ r.why = reason
    BY <1>3 DEF Row, Status
  <2>2. /\ row' = [row EXCEPT ![s] = r] /\ snap' = [snap EXCEPT ![t][s] = r]
        /\ UNCHANGED <<outcome, fate, phase, queued, op, sym, mine, batch>>
        /\ cur' = [cur EXCEPT ![t] = s] /\ todo' = [todo EXCEPT ![t] = rest]
        /\ pc' = [pc EXCEPT ![t] = "queue"]
        /\ closures' = [closures EXCEPT ![s] = Bump(@)]
    BY <1>3, <1>7 DEF CloseEvent, CloseRow, Put
  <2>3. rest \in SUBSET (todo[t] \ {s})
    OBVIOUS
  <2>. HIDE DEF r, rest
  <2>. QED BY <2>1, <2>2, <2>3 DEF IsClosed
<1>8. ~LinkMessage(t, s) /\ ~CancelRow(t, s)
    BY <1>3 DEF LinkMessage, CancelRow, UnlockedOps
<1>9. \/ Activate(t, s) \/ MarkTp1(t, s) \/ MarkChecked(t, s)
      \/ \E reason \in Reasons : CloseEvent(t, s, reason)
    BY <1>8, ConstantsAssumption
       DEF RowStep, ClosePending, CloseActive, CloseEmergency, CloseSuperseded,
           CloseExpired, Processing, Reasons, PendingReasons
<1>10. CASE \E reason \in Reasons : CloseEvent(t, s, reason)
    BY <1>2, <1>7, <1>10
<1>. QED BY <1>4, <1>5, <1>6, <1>9, <1>10

\* A row that one task writes is no row of the others.
LEMMA JournalRow ==
    ASSUME OnlyLocked, JournalInv, NEW t \in Tasks, NEW s \in Signals, RowStep(t, s)
    PROVE  JournalInv'
<1>1. LockInv'
    BY LockRow DEF JournalInv
<1>2. TypeOK /\ TaskOK(t) /\ RowsOK /\ MineApart
    BY DEF JournalInv, LockInv
<1>3. PICK r \in Row : /\ row' = [row EXCEPT ![s] = r]
                       /\ snap' = [snap EXCEPT ![t][s] = r]
                       /\ StaysOpen(t, s, r) \/ IsClosed(t, s, r)
    BY RowStepWrites
<1>4. /\ pc[t] = "row" /\ s \in todo[t]
      /\ UNCHANGED <<outcome, fate, phase, queued, op, sym, mine, batch>>
      /\ cur' = cur \/ \E q \in {s, None} : cur' = [cur EXCEPT ![t] = q]
    BY RowStepWrites
<1>5. IsOpen(row[s]) /\ row'[s] = r /\ \A q \in Signals \ {s} : row'[q] = row[q]
    BY <1>2, <1>3, <1>4 DEF TaskOK, TypeOK
<1>6. Alone(t)
  <2>1. \A u \in Tasks \ {t} : pc'[u] = pc[u] /\ todo'[u] = todo[u]
    BY <1>2, <1>3 DEF StaysOpen, IsClosed, TypeOK
  <2>2. \A u \in Tasks \ {t} : cur'[u] = cur[u] /\ snap'[u] = snap[u]
    BY <1>2, <1>3, <1>4 DEF TypeOK
  <2>. QED BY <1>4, <2>1, <2>2 DEF Alone
<1>7. \A p : p.id \in Signals /\ Settled(p) => Settled(p)'
    BY <1>5 DEF Settled, IsOpen
<1>8. ASSUME NEW u \in Tasks \ {t} PROVE TaskOK(u)'
  <2>1. TaskOK(u) /\ s \notin todo[u]
    BY <1>4, TodoApart DEF JournalInv
  <2>2. /\ op'[u] = op[u] /\ pc'[u] = pc[u] /\ sym'[u] = sym[u] /\ cur'[u] = cur[u]
        /\ todo'[u] = todo[u] /\ snap'[u] = snap[u] /\ mine'[u] = mine[u]
        /\ batch'[u] = batch[u] /\ phase' = phase /\ fate' = fate
    BY <1>4, <1>6 DEF Alone
  <2>3. Holding(u)' <=> Holding(u)
    BY <2>2 DEF Holding
  <2>4. \A q \in todo[u] : q \in Signals /\ q # s
    BY <1>2, <2>1 DEF TypeOK
  <2>5. \A p \in batch[u] : p.id \in Signals
    BY <1>2 DEF TypeOK, Payload
  <2>6. pc[u] = "queue" => cur[u] \in Signals
    BY DEF JournalInv, LockInv, Shape
  <2>7. op[u] = "supersede" \/ pc[u] = "save" =>
          mine[u] \in Signals /\ row'[mine[u]].st = "none"
    BY <1>5, <2>1 DEF TaskOK, IsOpen
  <2>8. /\ \A q \in todo'[u] : SymbolOf[q] = sym'[u] /\ snap'[u][q] = row'[q] /\ IsOpen(row'[q])
        /\ todo'[u] # {} => Holding(u)' /\ pc'[u] \in {"row", "queue", "flush", "batch"}
    BY <1>5, <2>1, <2>2, <2>3, <2>4 DEF TaskOK
  <2>9. /\ \A p \in batch'[u] : Settled(p)'
        /\ pc'[u] = "queue" => Settled([id |-> cur[u], why |-> snap[u][cur[u]].why])'
    BY <1>7, <2>1, <2>2, <2>5, <2>6 DEF TaskOK
  <2>. QED BY <2>1, <2>2, <2>7, <2>8, <2>9 DEF TaskOK, Running
<1>9. TaskOK(t)'
  <2>1. row'[s] = snap'[t][s] /\ \A q \in Signals \ {s} : snap'[t][q] = snap[t][q]
    BY <1>2, <1>3, <1>5 DEF TypeOK
  <2>2. \A p \in batch[t] : p.id \in Signals
    BY <1>2 DEF TypeOK, Payload
  <2>3. \A p \in batch'[t] : Settled(p)'
    BY <1>2, <1>4, <1>7, <2>2 DEF TaskOK
  <2>4. Holding(t) /\ Running
    BY <1>2, <1>4 DEF TaskOK
  <2>5. op'[t] # "supersede" \/ (mine'[t] \in Signals /\ row'[mine'[t]].st = "none")
    BY <1>2, <1>4, <1>5 DEF TaskOK, IsOpen
  <2>6. CASE StaysOpen(t, s, r)
    <3>1. todo'[t] \subseteq todo[t] /\ pc'[t] = "row"
      BY <1>2, <1>4, <2>6 DEF StaysOpen, TypeOK
    <3>2. Holding(t)'
      BY <1>4, <2>4, <3>1 DEF Holding
    <3>3. \A q \in todo'[t] : SymbolOf[q] = sym'[t] /\ snap'[t][q] = row'[q] /\ IsOpen(row'[q])
      <4>1. ASSUME NEW q \in todo'[t] PROVE q \in Signals /\ q \in todo[t]
        BY <1>2, <3>1, <4>1 DEF TypeOK
      <4>. QED BY <1>2, <1>4, <1>5, <2>1, <2>6, <4>1 DEF TaskOK, StaysOpen
    <3>. QED BY <1>2, <1>4, <2>3, <2>4, <2>5, <3>1, <3>2, <3>3 DEF TaskOK, Running
  <2>7. CASE IsClosed(t, s, r)
    <3>1. todo'[t] \subseteq todo[t] \ {s} /\ pc'[t] = "queue" /\ cur'[t] = s
      BY <1>2, <1>4, <2>7 DEF IsClosed, TypeOK
    <3>2. Holding(t)'
      BY <1>4, <2>4, <3>1 DEF Holding
    <3>3. \A q \in todo'[t] : SymbolOf[q] = sym'[t] /\ snap'[t][q] = row'[q] /\ IsOpen(row'[q])
      <4>1. ASSUME NEW q \in todo'[t] PROVE q \in Signals \ {s} /\ q \in todo[t]
        BY <1>2, <3>1, <4>1 DEF TypeOK
      <4>. QED BY <1>2, <1>4, <1>5, <2>1, <4>1 DEF TaskOK
    <3>4. Settled([id |-> cur[t], why |-> snap[t][cur[t]].why])'
      BY <1>5, <2>1, <2>7, <3>1 DEF Settled, IsClosed
    <3>. QED BY <1>2, <1>4, <2>3, <2>4, <2>5, <3>1, <3>2, <3>3, <3>4 DEF TaskOK, Running
  <2>. QED BY <1>3, <2>6, <2>7
<1>10. RowsOK'
  <2>1. \A p \in queued : p.id \in Signals
    BY <1>2 DEF TypeOK, Payload
  <2>2. \A p \in queued' : Settled(p)'
    BY <1>2, <1>4, <1>7, <2>1 DEF RowsOK
  <2>3. ASSUME NEW q \in Signals
        PROVE  closures'[q] <= (IF row'[q].st = "closed" THEN 1 ELSE 0)
    <3>1. closures[q] \in 0 .. 2 /\ closures[q] <= (IF row[q].st = "closed" THEN 1 ELSE 0)
      BY <1>2 DEF RowsOK, TypeOK
    <3>2. CASE StaysOpen(t, s, r)
      BY <1>5, <3>1, <3>2 DEF StaysOpen, IsOpen
    <3>3. CASE IsClosed(t, s, r)
      <4>1. closures'[q] = IF q = s THEN Bump(closures[q]) ELSE closures[q]
        BY <1>2, <3>3 DEF IsClosed, TypeOK
      <4>2. CASE q = s
        BY <1>5, <3>1, <3>3, <4>1, <4>2 DEF IsClosed, IsOpen, Bump
      <4>3. CASE q # s
        BY <1>5, <3>1, <4>1, <4>3
      <4>. QED BY <4>2, <4>3
    <3>. QED BY <1>3, <3>2, <3>3
  <2>4. \A q \in Signals :
          /\ fate'[q] = "new" => row'[q].st = "none"
          /\ row'[q].st # "closed" => row'[q].why = None
          /\ outcome'[q] # None => row'[q].st = "closed" /\ outcome'[q] = row'[q].why
    BY <1>2, <1>3, <1>4, <1>5 DEF RowsOK, IsOpen, StaysOpen, IsClosed
  <2>. QED BY <2>2, <2>3, <2>4 DEF RowsOK
<1>11. MineApart'
    BY <1>2, <1>4 DEF MineApart
<1>. QED BY <1>1, <1>8, <1>9, <1>10, <1>11 DEF JournalInv

\* Arming a signal writes a row nobody has seen.
LEMMA JournalArm ==
    ASSUME OnlyLocked, JournalInv, NEW t \in Tasks, ArmSignal(t)
    PROVE  JournalInv'
<1>1. LockInv'
    BY LockEnd DEF JournalInv, EndStep
<1>2. TypeOK /\ TaskOK(t) /\ RowsOK /\ MineApart
    BY DEF JournalInv, LockInv
<1> DEFINE s == mine[t]
           r == [NoRow EXCEPT !.st = "pending"]
<1>3. s \in Signals /\ row[s].st = "none" /\ fate[s] # "new" /\ Running
    BY <1>2, ConstantsAssumption DEF ArmSignal, TaskOK
<1>4. /\ row' = [row EXCEPT ![s] = r] /\ pc' = [pc EXCEPT ![t] = "end"]
      /\ pc[t] = "save" /\ op[t] = "arm"
      /\ UNCHANGED <<outcome, fate, phase, queued, closures, op, sym, todo, snap, mine, cur, batch>>
    BY DEF ArmSignal
<1>5. r.st = "pending" /\ r.why = None
    BY DEF NoRow
<1>6. row'[s] = r /\ \A q \in Signals \ {s} : row'[q] = row[q]
    BY <1>2, <1>3, <1>4 DEF TypeOK
<1>7. \A p : p.id \in Signals /\ Settled(p) => Settled(p)'
    BY <1>3, <1>6 DEF Settled
<1>. HIDE DEF r
<1>8. ASSUME NEW u \in Tasks PROVE TaskOK(u)'
  <2>1. TaskOK(u)
    BY DEF JournalInv
  <2>2. pc'[u] = IF u = t THEN "end" ELSE pc[u]
    BY <1>2, <1>4 DEF TypeOK
  <2>3. Holding(u)' <=> Holding(u)
    BY <1>4, <2>2 DEF Holding, LockedOps
  <2>4. \A q \in todo[u] : q \in Signals /\ q # s
    BY <1>2, <1>3, <2>1 DEF TypeOK, TaskOK, IsOpen
  <2>5. \A p \in batch[u] : p.id \in Signals
    BY <1>2 DEF TypeOK, Payload
  <2>6. pc[u] = "queue" => cur[u] \in Signals
    BY DEF JournalInv, LockInv, Shape
  <2>7. op'[u] = "supersede" \/ pc'[u] = "save" =>
          mine'[u] \in Signals /\ row'[mine'[u]].st = "none"
    <3>1. CASE u = t
      BY <1>4, <2>2, <3>1
    <3>2. CASE u # t
      <4>1. mine[u] \in Signals => mine[u] # s
        BY <1>2, <1>3, <3>2, ConstantsAssumption DEF MineApart
      <4>. QED BY <1>4, <1>6, <2>1, <2>2, <3>2, <4>1 DEF TaskOK
    <3>. QED BY <3>1, <3>2
  <2>8. /\ \A q \in todo'[u] : SymbolOf[q] = sym'[u] /\ snap'[u][q] = row'[q] /\ IsOpen(row'[q])
        /\ todo'[u] # {} => Holding(u)' /\ pc'[u] \in {"row", "queue", "flush", "batch"}
    BY <1>4, <1>6, <2>1, <2>2, <2>3, <2>4 DEF TaskOK
  <2>9. /\ \A p \in batch'[u] : Settled(p)'
        /\ pc'[u] = "queue" => Settled([id |-> cur[u], why |-> snap[u][cur[u]].why])'
    BY <1>4, <1>7, <2>1, <2>2, <2>5, <2>6 DEF TaskOK
  <2>. QED BY <1>3, <1>4, <2>1, <2>7, <2>8, <2>9 DEF TaskOK, Running
<1>9. RowsOK'
  <2>1. \A p \in queued : p.id \in Signals
    BY <1>2 DEF TypeOK, Payload
  <2>2. \A p \in queued' : Settled(p)'
    BY <1>2, <1>4, <1>7, <2>1 DEF RowsOK
  <2>3. \A q \in Signals :
          /\ fate'[q] = "new" => row'[q].st = "none"
          /\ row'[q].st # "closed" => row'[q].why = None
          /\ closures'[q] <= (IF row'[q].st = "closed" THEN 1 ELSE 0)
          /\ outcome'[q] # None => row'[q].st = "closed" /\ outcome'[q] = row'[q].why
    BY <1>2, <1>3, <1>4, <1>5, <1>6 DEF RowsOK
  <2>. QED BY <2>2, <2>3 DEF RowsOK
<1>10. MineApart'
    BY <1>2, <1>4 DEF MineApart
<1>. QED BY <1>1, <1>8, <1>9, <1>10 DEF JournalInv

\* Saving a batch stores the reasons its rows were closed for.
LEMMA SaveBatchStores ==
    ASSUME JournalInv, NEW t \in Tasks, SaveBatch(t)
    PROVE  outcome' = [s \in Signals |-> IF s \in Ids(batch[t]) THEN row[s].why
                                                               ELSE outcome[s]]
<1>1. PICK last \in [Ids(batch[t]) -> {p.why : p \in batch[t]}] :
         /\ \A s \in Ids(batch[t]) : [id |-> s, why |-> last[s]] \in batch[t]
         /\ outcome' = [s \in Signals |-> IF s \in Ids(batch[t]) THEN last[s] ELSE outcome[s]]
    BY DEF SaveBatch
<1>2. \A s \in Ids(batch[t]) : last[s] = row[s].why
    BY <1>1, ZenonT(60) DEF JournalInv, TaskOK, Settled
<1>. QED BY <1>1, <1>2

LEMMA JournalSave ==
    ASSUME OnlyLocked, JournalInv, NEW t \in Tasks, SaveBatch(t)
    PROVE  JournalInv'
<1>1. LockInv'
    BY LockFlush DEF JournalInv, FlushStep
<1>2. TypeOK /\ TaskOK(t) /\ RowsOK /\ MineApart
    BY DEF JournalInv, LockInv
<1>3. /\ pc' = [pc EXCEPT ![t] = IF @ \in {"flush", "batch"} THEN "row" ELSE "done"]
      /\ cur' = [cur EXCEPT ![t] = None] /\ batch' = [batch EXCEPT ![t] = {}]
      /\ pc[t] \in {"batch", "endBatch"}
      /\ UNCHANGED <<row, closures, phase, fate, queued, op, sym, todo, snap, mine>>
    BY DEF SaveBatch, AfterFlush
<1>4. /\ pc'[t] = (IF pc[t] = "batch" THEN "row" ELSE "done") /\ batch'[t] = {}
      /\ \A u \in Tasks \ {t} : pc'[u] = pc[u] /\ cur'[u] = cur[u] /\ batch'[u] = batch[u]
    BY <1>2, <1>3 DEF TypeOK
<1>5. ASSUME NEW u \in Tasks PROVE TaskOK(u)'
  <2>1. TaskOK(u)
    BY DEF JournalInv
  <2>2. Holding(u)' <=> Holding(u)
    BY <1>3, <1>4 DEF Holding
  <2>3. CASE u = t
    BY <1>3, <1>4, <2>1, <2>2, <2>3 DEF TaskOK, Settled, Running
  <2>4. CASE u # t
    BY <1>3, <1>4, <2>1, <2>2, <2>4 DEF TaskOK, Settled, Running
  <2>. QED BY <2>3, <2>4
<1>6. RowsOK'
  <2>1. \A p \in batch[t] : row[p.id].st = "closed"
    BY <1>2 DEF TaskOK, Settled
  <2>2. \A s \in Ids(batch[t]) : row[s].st = "closed"
    BY <2>1 DEF Ids
  <2>3. \A s \in Signals : outcome'[s] # None => row[s].st = "closed" /\ outcome'[s] = row[s].why
    BY <1>2, <2>2, SaveBatchStores DEF RowsOK
  <2>. QED BY <1>2, <1>3, <2>3 DEF RowsOK, Settled
<1>7. MineApart'
    BY <1>2, <1>3 DEF MineApart
<1>. QED BY <1>1, <1>5, <1>6, <1>7 DEF JournalInv

\* The clock, a crash and the start of the bot.
LEMMA JournalEnvironment ==
    ASSUME JournalInv, (\E s \in Signals : Expire(s)) \/ Crash \/ ReconcileFails \/ Startup
    PROVE  JournalInv'
<1>1. LockInv'
    BY LockEnvironment DEF JournalInv
<1>2. TypeOK /\ RowsOK /\ MineApart /\ \A t \in Tasks : TaskOK(t)
    BY DEF JournalInv, LockInv
<1>3. ASSUME NEW s \in Signals, Expire(s) PROVE JournalInv'
    BY <1>1, <1>2, <1>3
       DEF Expire, local, JournalInv, TaskOK, RowsOK, MineApart, Settled, Holding, Running
<1>4. CASE Crash
  <2>1. /\ UNCHANGED <<row, outcome, closures>> /\ queued' = {}
        /\ \A t \in Tasks : /\ op'[t] = "none" /\ pc'[t] = "idle" /\ todo'[t] = {}
                            /\ mine'[t] = None /\ batch'[t] = {}
        /\ \A s \in Signals : fate'[s] = "new" => fate[s] = "new"
    BY <1>4 DEF Crash
  <2>2. \A t \in Tasks : TaskOK(t)'
    BY <2>1 DEF TaskOK, UnlockedOps
  <2>. QED BY <1>1, <1>2, <2>1, <2>2 DEF JournalInv, RowsOK, MineApart
<1>5. CASE CleanupOnStartup
  <2>1. /\ phase = "boot" /\ phase' = "reconcile"
        /\ row' = [s \in Signals |->
                     IF IsOpen(row[s])
                     THEN [row[s] EXCEPT !.st = "closed", !.why = "startup_cleanup"]
                     ELSE row[s]]
        /\ UNCHANGED <<outcome, fate, queued, closures, op, pc, sym, todo, snap, mine, cur, batch>>
    BY <1>5 DEF CleanupOnStartup, local
  <2>2. \A t \in Tasks : pc[t] = "idle" /\ todo[t] = {}
    BY <1>2, <2>1 DEF TaskOK, Running
  <2>3. \A s \in Signals : ~IsOpen(row[s]) => row'[s] = row[s]
    BY <2>1
  <2>4. ASSUME NEW s \in Signals, IsOpen(row[s]) PROVE row'[s].st = "closed"
    <3>1. row[s] \in Row
      BY <1>2 DEF TypeOK
    <3>. QED BY <2>1, <2>4, <3>1 DEF Row
  <2>5. \A p : p.id \in Signals /\ Settled(p) => Settled(p)'
    BY <2>3 DEF Settled, IsOpen
  <2>6. ASSUME NEW t \in Tasks PROVE TaskOK(t)'
    <3>1. TaskOK(t)
      BY <1>2
    <3>2. \A p \in batch[t] : p.id \in Signals
      BY <1>2 DEF TypeOK, Payload
    <3>3. op[t] = "supersede" => mine[t] \in Signals /\ row'[mine[t]].st = "none"
      BY <2>3, <3>1 DEF TaskOK, IsOpen
    <3>. QED BY <2>1, <2>2, <2>5, <3>1, <3>2, <3>3 DEF TaskOK
  <2>7. RowsOK'
    <3>1. \A p \in queued : p.id \in Signals
      BY <1>2 DEF TypeOK, Payload
    <3>2. \A p \in queued' : Settled(p)'
      BY <1>2, <2>1, <2>5, <3>1 DEF RowsOK
    <3>3. ASSUME NEW s \in Signals
          PROVE  /\ fate'[s] = "new" => row'[s].st = "none"
                 /\ row'[s].st # "closed" => row'[s].why = None
                 /\ closures'[s] <= (IF row'[s].st = "closed" THEN 1 ELSE 0)
                 /\ outcome'[s] # None => row'[s].st = "closed" /\ outcome'[s] = row'[s].why
      <4>1. CASE IsOpen(row[s])
        <5>1. closures[s] \in 0 .. 2
          BY <1>2 DEF TypeOK
        <5>2. row[s].st # "none" /\ row[s].st # "closed" /\ row'[s].st = "closed"
          BY <2>4, <4>1 DEF IsOpen
        <5>3. fate[s] # "new" /\ outcome[s] = None /\ closures[s] <= 0
          BY <1>2, <5>2 DEF RowsOK
        <5>4. UNCHANGED <<outcome, fate, closures>>
          BY <2>1
        <5>. QED BY <5>1, <5>2, <5>3, <5>4
      <4>2. CASE ~IsOpen(row[s])
        BY <1>2, <2>1, <2>3, <4>2 DEF RowsOK
      <4>. QED BY <4>1, <4>2
    <3>. QED BY <3>2, <3>3 DEF RowsOK
  <2>. QED BY <1>1, <1>2, <2>1, <2>6, <2>7 DEF JournalInv, MineApart
<1>6. CASE Reconcile \/ ReconcileFails
  <2>1. PICK S \in SUBSET ClosedRows : RecordRows(S)
    BY <1>6 DEF Reconcile, ReconcileFails, Unreconciled
  <2>2. /\ Running' /\ ~Running
        /\ UNCHANGED <<row, fate, queued, closures, op, pc, sym, todo, snap, mine, cur, batch>>
        /\ \A s \in Signals : outcome'[s] = outcome[s]
                               \/ (row[s].st = "closed" /\ outcome'[s] = row[s].why)
    BY <1>6, <2>1 DEF Reconcile, ReconcileFails, RecordRows, ClosedRows, local, Running
  <2>3. RowsOK'
    BY <1>2, <2>2 DEF RowsOK, Settled
  <2>4. \A t \in Tasks : TaskOK(t)'
    BY <1>2, <2>2 DEF TaskOK, Settled, Holding
  <2>. QED BY <1>1, <1>2, <2>2, <2>3, <2>4 DEF JournalInv, MineApart
<1>. QED BY <1>3, <1>4, <1>5, <1>6 DEF Startup

LEMMA JournalInit ==
    Init => JournalInv
<1>. SUFFICES ASSUME Init PROVE JournalInv
    OBVIOUS
<1>1. LockInv
    BY LockInit
<1>2. \A t \in Tasks : TaskOK(t)
    BY DEF Init, TaskOK, UnlockedOps
<1>3. RowsOK /\ MineApart
    BY DEF Init, RowsOK, MineApart, NoRow
<1>. QED BY <1>1, <1>2, <1>3 DEF JournalInv

LEMMA JournalNext ==
    ASSUME OnlyLocked, JournalInv, [Next]_vars
    PROVE  JournalInv'
<1>1. CASE UNCHANGED vars
  <2>1. LockInv'
    BY <1>1, LockNext DEF JournalInv
  <2>. QED BY <1>1, <2>1
          DEF vars, db, local, JournalInv, TaskOK, RowsOK, MineApart, Settled, Holding, Running
<1>2. CASE Environment
  <2>1. ASSUME NEW t \in Tasks, NEW y \in Symbols, OnAggTrade(t, y) \/ ReviewForSymbol(t, y)
        PROVE  JournalInv'
    BY <2>1, JournalBegin DEF OnAggTrade, ReviewForSymbol
  <2>2. ASSUME NEW t \in Tasks PROVE ~ReviewOpenSignals(t) /\ \A w : ~ForceClose(t, w)
    BY DEF ReviewOpenSignals, ForceClose, OnlyLocked, UnlockedOps
  <2>3. ASSUME NEW t \in Tasks, SaveBatchFails(t) PROVE JournalInv'
    BY <2>3, JournalQueue
  <2>4. ASSUME NEW t \in Tasks, ArmTimeout(t) \/ LinkTimeout(t) \/ CycleTimeout(t)
        PROVE  JournalInv'
    BY <2>4, JournalTimeout
  <2>. QED BY <1>2, <2>1, <2>2, <2>3, <2>4, JournalDeliver, JournalEnvironment
          DEF Environment
<1>3. CASE Startup
    BY <1>3, JournalEnvironment
<1>4. ASSUME NEW t \in Tasks, Progress(t) PROVE JournalInv'
  <2>1. CASE FlushStep(t)
    BY <2>1, JournalQueue, JournalSave DEF FlushStep
  <2>2. CASE EndStep(t)
    BY <2>2, JournalEnd, JournalArm
  <2>. QED BY <1>4, <2>1, <2>2, JournalAcquire, JournalRead, JournalRow DEF Progress
<1>. QED BY <1>1, <1>2, <1>3, <1>4 DEF Next

\* Lost updates: as long as every operation that writes rows takes the lock of
\* its symbol, the rows a lock holder will still write back are the stored ones,
\* for every number of tasks, signals and symbols and under every fault.
THEOREM SnapshotsStayCurrent == OnlyLocked => (Spec => []SnapshotCurrent)
<1>. SUFFICES ASSUME OnlyLocked PROVE Spec => []SnapshotCurrent
    OBVIOUS
<1>1. JournalInv => SnapshotCurrent
    BY DEF JournalInv, TaskOK, SnapshotCurrent
<1>2. JournalInv /\ [Next]_vars => JournalInv'
    BY JournalNext
<1>. QED BY <1>1, <1>2, JournalInit, PTL DEF Spec

\* Under the same condition a signal is closed by one terminal event, whatever
\* closes it and whoever else is trying to.
THEOREM ClosedByOneEvent == OnlyLocked => (Spec => []ClosedOnce)
<1>. SUFFICES ASSUME OnlyLocked PROVE Spec => []ClosedOnce
    OBVIOUS
<1>1. JournalInv => ClosedOnce
  <2>. SUFFICES ASSUME JournalInv, NEW s \in Signals PROVE closures[s] <= 1
    BY DEF ClosedOnce
  <2>1. closures[s] \in 0 .. 2
    BY DEF JournalInv, LockInv, TypeOK
  <2>. QED BY <2>1 DEF JournalInv, RowsOK
<1>2. JournalInv /\ [Next]_vars => JournalInv'
    BY JournalNext
<1>. QED BY <1>1, <1>2, JournalInit, PTL DEF Spec

-----------------------------------------------------------------------------
(* The journal implements SignalLifecycle.                                 *)

\* A step of the journal that the lifecycle does not see.
LEMMA Stutters ==
    ASSUME UNCHANGED <<row, outcome>>
    PROVE  [Lifecycle!Next]_(Lifecycle!vars)
BY DEF Lifecycle!vars

\* Writing a row back is a forward step of its signal, or none.
LEMMA RowLifecycle ==
    ASSUME OnlyLocked, JournalInv, NEW t \in Tasks, NEW s \in Signals, RowStep(t, s)
    PROVE  [Lifecycle!Next]_(Lifecycle!vars)
<1> DEFINE status == [q \in Signals |-> row[q].st]
           why == [q \in Signals |-> row[q].why]
<1>1. PICK r \in Row : /\ row' = [row EXCEPT ![s] = r]
                       /\ StaysOpen(t, s, r) \/ IsClosed(t, s, r)
    BY RowStepWrites
<1>2. s \in todo[t] /\ outcome' = outcome
    BY RowStepWrites
<1>3. TypeOK /\ IsOpen(row[s])
    BY <1>2 DEF JournalInv, LockInv, TaskOK
<1>4. row'[s] = r /\ \A q \in Signals \ {s} : row'[q] = row[q]
    BY <1>1, <1>3 DEF TypeOK
<1>5. CASE StaysOpen(t, s, r)
  <2>1. why' = why
    BY <1>4, <1>5 DEF StaysOpen
  <2>2. CASE r.st = row[s].st
    <3>1. status' = status
      BY <1>4, <2>2
    <3>. QED BY <1>2, <2>1, <3>1 DEF Lifecycle!vars
  <2>3. CASE row[s].st = "pending" /\ r.st = "active"
    <3>1. status' = [status EXCEPT ![s] = "active"]
      BY <1>4, <2>3
    <3>2. Lifecycle!Activate(s)
      BY <1>2, <2>1, <2>3, <3>1 DEF Lifecycle!Activate
    <3>. QED BY <3>2 DEF Lifecycle!Next
  <2>. QED BY <1>5, <2>2, <2>3 DEF StaysOpen
<1>6. CASE IsClosed(t, s, r)
  <2>1. status' = [q \in Signals |-> IF q \in {s} THEN "closed" ELSE status[q]]
    BY <1>4, <1>6 DEF IsClosed
  <2>2. why' = [q \in Signals |-> IF q \in {s} THEN r.why ELSE why[q]]
    BY <1>4
  <2>3. \A q \in {s} : status[q] \in {"pending", "active"}
    BY <1>3 DEF IsOpen
  <2>4. Lifecycle!Close({s}, r.why)
    BY <1>2, <2>1, <2>2, <2>3 DEF Lifecycle!Close
  <2>. QED BY <1>6, <2>4 DEF Lifecycle!Next, IsClosed
<1>. QED BY <1>1, <1>5, <1>6

\* Arming is the first step of a signal.
LEMMA ArmLifecycle ==
    ASSUME JournalInv, NEW t \in Tasks, ArmSignal(t)
    PROVE  [Lifecycle!Next]_(Lifecycle!vars)
<1>0. mine[t] \in Signals /\ row[mine[t]].st = "none" /\ TypeOK
    BY DEF ArmSignal, JournalInv, TaskOK, LockInv
<1>. PICK m \in Signals : m = mine[t]
    BY <1>0
<1> DEFINE status == [q \in Signals |-> row[q].st]
           why == [q \in Signals |-> row[q].why]
           r == [NoRow EXCEPT !.st = "pending"]
<1>1. m \in Signals /\ row[m].st = "none" /\ row[m].why = None /\ TypeOK
    BY <1>0 DEF JournalInv, RowsOK
<1>2. row' = [row EXCEPT ![m] = r] /\ outcome' = outcome
    BY DEF ArmSignal
<1>3. r.st = "pending" /\ r.why = None
    BY DEF NoRow
<1>. HIDE DEF r
<1>4. row'[m] = r /\ \A q \in Signals \ {m} : row'[q] = row[q]
    BY <1>1, <1>2 DEF TypeOK
<1>5. why' = why
    BY <1>1, <1>3, <1>4
<1>6. status' = [status EXCEPT ![m] = "pending"]
    BY <1>1, <1>3, <1>4
<1>7. Lifecycle!Arm(m)
    BY <1>1, <1>2, <1>5, <1>6 DEF Lifecycle!Arm
<1>. QED BY <1>7 DEF Lifecycle!Next

\* Saving a batch records the outcomes of rows that had none.
LEMMA SaveLifecycle ==
    ASSUME JournalInv, NEW t \in Tasks, SaveBatch(t)
    PROVE  [Lifecycle!Next]_(Lifecycle!vars)
<1> DEFINE S == {s \in Ids(batch[t]) : outcome[s] = None}
           status == [q \in Signals |-> row[q].st]
           why == [q \in Signals |-> row[q].why]
<1>1. TypeOK /\ TaskOK(t) /\ RowsOK
    BY DEF JournalInv, LockInv
<1>2. Ids(batch[t]) \subseteq Signals
    BY <1>1 DEF TypeOK, Payload, Ids
<1>3. \A s \in Ids(batch[t]) : row[s].st = "closed"
    BY <1>1 DEF TaskOK, Settled, Ids
<1>4. row' = row
    BY DEF SaveBatch
<1>5. outcome' = [s \in Signals |-> IF s \in S THEN why[s] ELSE outcome[s]]
    BY <1>1, SaveBatchStores DEF RowsOK
<1>6. \A s \in S : status[s] = "closed" /\ outcome[s] = None
    BY <1>2, <1>3
<1>7. S \in SUBSET Signals
    BY <1>2
<1>. HIDE DEF S
<1>8. Lifecycle!Record(S)
    BY <1>4, <1>5, <1>6 DEF Lifecycle!Record
<1>. QED BY <1>7, <1>8 DEF Lifecycle!Next

\* The start closes what was left open, and records what was closed.
LEMMA StartupLifecycle ==
    ASSUME JournalInv, Startup \/ ReconcileFails
    PROVE  [Lifecycle!Next]_(Lifecycle!vars)
<1> DEFINE status == [q \in Signals |-> row[q].st]
           why == [q \in Signals |-> row[q].why]
<1>1. TypeOK /\ RowsOK
    BY DEF JournalInv, LockInv
<1>2. CASE CleanupOnStartup
  <2> DEFINE S == {s \in Signals : IsOpen(row[s])}
  <2>1. /\ row' = [s \in Signals |->
                     IF IsOpen(row[s])
                     THEN [row[s] EXCEPT !.st = "closed", !.why = "startup_cleanup"]
                     ELSE row[s]]
        /\ outcome' = outcome
    BY <1>2 DEF CleanupOnStartup
  <2>2. \A s \in Signals : row[s] \in Row
    BY <1>1 DEF TypeOK
  <2>3. \A s \in S : row'[s].st = "closed" /\ row'[s].why = "startup_cleanup"
    BY <2>1, <2>2 DEF Row
  <2>4. \A s \in Signals \ S : row'[s] = row[s]
    BY <2>1
  <2>5. status' = [s \in Signals |-> IF s \in S THEN "closed" ELSE status[s]]
    BY <2>3, <2>4
  <2>6. why' = [s \in Signals |-> IF s \in S THEN "startup_cleanup" ELSE why[s]]
    BY <2>3, <2>4
  <2>7. \A s \in S : status[s] \in {"pending", "active"}
    BY DEF IsOpen
  <2>8. S \in SUBSET Signals /\ "startup_cleanup" \in Reasons
    BY DEF Reasons
  <2>. HIDE DEF S
  <2>9. Lifecycle!Close(S, "startup_cleanup")
    BY <2>1, <2>5, <2>6, <2>7 DEF Lifecycle!Close
  <2>. QED BY <2>8, <2>9 DEF Lifecycle!Next
<1>3. CASE Reconcile \/ ReconcileFails
  <2>1. PICK S \in SUBSET Unreconciled : RecordRows(S)
    BY <1>3 DEF Reconcile, ReconcileFails
  <2>2. row' = row
    BY <2>1 DEF RecordRows
  <2>3. outcome' = [s \in Signals |-> IF s \in S THEN why[s] ELSE outcome[s]]
    BY <2>1 DEF RecordRows
  <2>4. \A s \in S : status[s] = "closed" /\ outcome[s] = None
    BY DEF ClosedRows, Unreconciled
  <2>5. S \in SUBSET Signals
    BY DEF ClosedRows, Unreconciled
  <2>6. Lifecycle!Record(S)
    BY <2>2, <2>3, <2>4 DEF Lifecycle!Record
  <2>. QED BY <2>5, <2>6 DEF Lifecycle!Next
<1>. QED BY <1>2, <1>3 DEF Startup

\* Every step maps to a step of the lifecycle or to a stutter.
LEMMA LifecycleStep ==
    ASSUME OnlyLocked, JournalInv, [Next]_vars
    PROVE  [Lifecycle!Next]_(Lifecycle!vars)
<1>1. CASE UNCHANGED vars
    BY <1>1, Stutters DEF vars, db
<1>2. CASE Environment /\ ~ReconcileFails
  <2>1. UNCHANGED <<row, outcome>>
    BY <1>2 DEF Environment, OnAggTrade, ReviewForSymbol, BeginLocked, ReviewOpenSignals,
                ForceClose, SelectAndDeliver, SaveBatchFails, ArmTimeout, LinkTimeout,
                CycleTimeout, Expire, Crash, db
  <2>. QED BY <2>1, Stutters
<1>3. CASE Startup \/ ReconcileFails
    BY <1>3, StartupLifecycle
<1>4. ASSUME NEW t \in Tasks, Progress(t) PROVE [Lifecycle!Next]_(Lifecycle!vars)
  <2>1. CASE AcquireLock(t) \/ ReadStep(t)
    <3>1. UNCHANGED <<row, outcome>>
      BY <2>1 DEF AcquireLock, ReadStep, ReadSymbol, ReadAdverse, ReadSuperseded, ReadSweep,
                  ReadForced, ReadForLink, ReadForCancel, ReadWork, db
    <3>. QED BY <3>1, Stutters
  <2>2. CASE FlushStep(t) /\ ~SaveBatch(t)
    <3>1. UNCHANGED <<row, outcome>>
      BY <2>2 DEF FlushStep, QueueOutcome, FlushNothing, FlushTake, db
    <3>. QED BY <3>1, Stutters
  <2>3. CASE EndStep(t) /\ ~ArmSignal(t)
    <3>1. UNCHANGED <<row, outcome>>
      BY <2>3 DEF EndStep, EndRows, Finish, ReviewNextSymbol, SupersededReady, CooldownReject,
                  Armed, Sent, NotSent, db
    <3>. QED BY <3>1, Stutters
  <2>. QED BY <1>4, <2>1, <2>2, <2>3, RowLifecycle, SaveLifecycle, ArmLifecycle
          DEF Progress
<1>. QED BY <1>1, <1>2, <1>3, <1>4 DEF Next

\* Under the same condition the journal is a SignalLifecycle: every write of every
\* interleaving is one forward step of it or none, and an outcome is stored once,
\* for the reason of the close.
THEOREM JournalIsLifecycle == OnlyLocked => (Spec => ImplementsLifecycle)
<1>. SUFFICES ASSUME OnlyLocked PROVE Spec => ImplementsLifecycle
    OBVIOUS
<1>1. Init => Lifecycle!Init
    BY DEF Init, Lifecycle!Init, NoRow
<1>2. JournalInv /\ [Next]_vars => JournalInv'
    BY JournalNext
<1>3. JournalInv /\ [Next]_vars => [Lifecycle!Next]_(Lifecycle!vars)
    BY LifecycleStep
<1>. QED BY <1>1, <1>2, <1>3, JournalInit, PTL DEF Spec, ImplementsLifecycle, Lifecycle!Spec

-----------------------------------------------------------------------------
(* Restarts: what the startup cleanup closed is visible to analytics, for  *)
(* every operation and every fault.                                        *)

\* The bound of reconcile_closed_outcomes covers the rows that may be closed.
BatchCovers == IsFiniteSet(Signals) /\ Cardinality(Signals) <= MaxBatch

\* A tracking id is created once.
BornOnce ==
    /\ \A i \in DOMAIN born : fate[born[i]] # "new"
    /\ \A i, j \in DOMAIN born : born[i] = born[j] => i = j

Cleaned(r) == r.why = "startup_cleanup"

\* Rows are cleaned while no task runs, so a task that later writes a cleaned
\* row back has read it after its outcome was reconciled, or after that failed.
CleanInv ==
    /\ LockInv /\ BornOnce
    /\ ~Running => \A t \in Tasks : pc[t] = "idle"
    /\ \A s \in Signals : Cleaned(row[s]) =>
         row[s].st = "closed" /\ (phase = "up" => outcome[s] # None)
    /\ \A t \in Tasks, s \in Signals : Cleaned(snap[t][s]) =>
         snap[t][s].st = "closed" /\ (phase # "degraded" => outcome[s] # None)

\* A signal is not created after itself, so fewer than MaxBatch are newer.
LEMMA NewerRows ==
    ASSUME BatchCovers, TypeOK, BornOnce, NEW s \in Signals
    PROVE  Cardinality(BornAfter(s) \intersect ClosedRows) < MaxBatch
<1> DEFINE newer == BornAfter(s) \intersect ClosedRows
<1>1. newer \subseteq Signals \ {s}
  <2>1. ASSUME NEW i \in DOMAIN born, NEW j \in DOMAIN born, i < j, born[i] = s PROVE born[j] # s
    <3>1. i # j
      BY <2>1 DEF TypeOK
    <3>. QED BY <2>1, <3>1 DEF BornOnce
  <2>. QED BY <2>1 DEF BornAfter
<1>2. /\ IsFiniteSet(Signals \ {s})
      /\ Cardinality(Signals \ {s}) = Cardinality(Signals) - 1
    BY FS_RemoveElement DEF BatchCovers
<1>3. Cardinality(newer) <= Cardinality(Signals \ {s})
    BY <1>1, <1>2, FS_Subset
<1>4. IsFiniteSet(newer) /\ Cardinality(newer) \in Nat /\ Cardinality(Signals) \in Nat
    BY <1>1, <1>2, FS_Subset, FS_CardinalityType DEF BatchCovers
<1>. HIDE DEF newer
<1>5. Cardinality(newer) < MaxBatch
    BY <1>2, <1>3, <1>4, ConstantsAssumption DEF BatchCovers
<1>. QED BY <1>5 DEF newer

\* Reconciling reaches every closed row.
LEMMA ReconcileReaches ==
    ASSUME BatchCovers, TypeOK, BornOnce, Reconcile, NEW s \in ClosedRows, row[s].why # None
    PROVE  outcome'[s] # None
<1>1. s \in Signals
    BY DEF ClosedRows
<1>2. s \in Unreconciled <=> outcome[s] = None
    BY <1>1, NewerRows DEF Unreconciled
<1>3. outcome'[s] = IF outcome[s] = None THEN row[s].why ELSE outcome[s]
    BY <1>1, <1>2 DEF Reconcile, RecordRows
<1>. QED BY <1>3

\* Creating a signal creates a new one.
LEMMA DeliverBornOnce ==
    ASSUME TypeOK, BornOnce, NEW t \in Tasks, NEW s \in Signals, SelectAndDeliver(t, s)
    PROVE  BornOnce'
<1>1. /\ fate[s] = "new" /\ fate' = [fate EXCEPT ![s] = "offered"]
      /\ born' = Append(born, s) /\ born \in Seq(Signals)
    BY DEF SelectAndDeliver, TypeOK
<1>2. /\ Len(born') = Len(born) + 1 /\ DOMAIN born' = 1 .. Len(born) + 1
      /\ DOMAIN born = 1 .. Len(born) /\ Len(born) \in Nat
      /\ \A i \in 1 .. Len(born) : born'[i] = born[i]
      /\ born'[Len(born) + 1] = s
    BY <1>1
<1>3. \A i \in DOMAIN born : born[i] # s /\ born[i] \in Signals
    BY <1>1, <1>2 DEF BornOnce
<1>4. \A i \in DOMAIN born' : i \in DOMAIN born \/ i = Len(born) + 1
    BY <1>2
<1>5. \A q \in Signals : fate'[q] # "new" <=> q = s \/ fate[q] # "new"
    BY <1>1 DEF TypeOK
<1>6. \A i \in DOMAIN born' : fate'[born'[i]] # "new"
    BY <1>2, <1>3, <1>4, <1>5 DEF BornOnce
<1>7. \A i, j \in DOMAIN born' : born'[i] = born'[j] => i = j
    BY <1>2, <1>3, <1>4 DEF BornOnce
<1>. QED BY <1>6, <1>7 DEF BornOnce

\* A step that neither writes a row nor loses an outcome.
LEMMA CleanQuiet ==
    ASSUME CleanInv, LockInv', BornOnce', UNCHANGED <<row, phase>>,
           \A s \in Signals : outcome[s] # None => outcome'[s] # None,
           \A t \in Tasks, s \in Signals :
              \/ snap'[t][s] \in {snap[t][s], NoRow}
              \/ snap'[t][s] = row[s] /\ Running,
           ~Running => \A t \in Tasks : pc'[t] = "idle"
    PROVE  CleanInv'
<1>1. ASSUME NEW t \in Tasks, NEW s \in Signals, Cleaned(snap'[t][s])
      PROVE  snap'[t][s].st = "closed" /\ (phase' # "degraded" => outcome'[s] # None)
  <2>1. snap'[t][s] # NoRow
    BY <1>1, ConstantsAssumption DEF Cleaned, NoRow, Reasons
  <2>. QED BY <1>1, <2>1 DEF CleanInv, Running
<1>2. \A s \in Signals : Cleaned(row'[s]) =>
         row'[s].st = "closed" /\ (phase' = "up" => outcome'[s] # None)
    BY DEF CleanInv
<1>. QED BY <1>1, <1>2 DEF CleanInv, Cleaned, Running

\* The same when signals only leave "new" and none is created.
LEMMA SameBorn ==
    ASSUME TypeOK, BornOnce, born' = born,
           \A s \in Signals : fate'[s] = "new" => fate[s] = "new"
    PROVE  BornOnce'
<1>1. \A i \in DOMAIN born : born[i] \in Signals
    BY DEF TypeOK
<1>. QED BY <1>1 DEF BornOnce

\* A row that is written back is a cleaned one only if the snapshot was.
WritesBack(t, s, r) ==
    /\ row' = [row EXCEPT ![s] = r] /\ snap' = [snap EXCEPT ![t][s] = r]
    /\ Cleaned(r) => Cleaned(snap[t][s]) /\ r.st = "closed"

LEMMA RowStepReason ==
    ASSUME CleanInv, NEW t \in Tasks, NEW s \in Signals, RowStep(t, s)
    PROVE  /\ pc[t] # "idle"
           /\ \E r \in Row : WritesBack(t, s, r)
           /\ UNCHANGED <<outcome, born, fate, phase>>
<1>1. /\ snap[t][s] \in Row
      /\ Cleaned(snap[t][s]) => snap[t][s].st = "closed"
    BY DEF CleanInv, LockInv, TypeOK
<1>2. pc[t] # "idle"
    BY DEF RowStep, Activate, MarkTp1, MarkChecked, ClosePending, CloseActive, CloseEmergency,
           CloseSuperseded, CloseExpired, LinkMessage, CancelRow, Processing
<1>3. ASSUME NEW r \in Row, Put(t, s, r), Cleaned(r) => Cleaned(snap[t][s]) /\ r.st = "closed"
      PROVE  (\E q \in Row : WritesBack(t, s, q)) /\ UNCHANGED <<outcome, born, fate, phase>>
    BY <1>3 DEF Put, WritesBack
<1>4. CASE Activate(t, s)
  <2> DEFINE r == [snap[t][s] EXCEPT !.st = "active"]
  <2>1. Put(t, s, r) /\ snap[t][s].st = "pending"
    BY <1>4 DEF Activate
  <2>2. r \in Row /\ r.why = snap[t][s].why
    BY <1>1 DEF Row, Status
  <2>3. ~Cleaned(r)
    BY <1>1, <2>1, <2>2 DEF Cleaned
  <2>. HIDE DEF r
  <2>. QED BY <1>2, <1>3, <2>1, <2>2, <2>3
<1>5. CASE MarkTp1(t, s) \/ LinkMessage(t, s)
  <2> DEFINE r == IF MarkTp1(t, s) THEN [snap[t][s] EXCEPT !.tp1 = TRUE]
                                   ELSE [snap[t][s] EXCEPT !.msg = TRUE]
  <2>1. Put(t, s, r)
    BY <1>5 DEF MarkTp1, LinkMessage
  <2>2. r \in Row /\ r.why = snap[t][s].why /\ r.st = snap[t][s].st
    BY <1>1 DEF Row, Status
  <2>3. Cleaned(r) => Cleaned(snap[t][s]) /\ r.st = "closed"
    BY <1>1, <2>2 DEF Cleaned
  <2>. HIDE DEF r
  <2>. QED BY <1>2, <1>3, <2>1, <2>2, <2>3
<1>6. CASE MarkChecked(t, s)
    BY <1>1, <1>2, <1>3, <1>6 DEF MarkChecked
<1>7. ASSUME NEW reason \in Reasons \ {"startup_cleanup"}, NEW rest, NEW next,
             CloseRow(t, s, reason, rest, next)
      PROVE  (\E q \in Row : WritesBack(t, s, q)) /\ UNCHANGED <<outcome, born, fate, phase>>
  <2> DEFINE r == [snap[t][s] EXCEPT !.st = "closed", !.why = reason,
                                     !.tp1 = @ \/ reason = "tp1_hit"]
  <2>1. Put(t, s, r)
    BY <1>7 DEF CloseRow
  <2>2. r \in Row /\ r.why = reason
    BY <1>1 DEF Row, Status
  <2>3. ~Cleaned(r)
    BY <2>2 DEF Cleaned
  <2>. HIDE DEF r
  <2>. QED BY <1>3, <2>1, <2>2, <2>3
<1>8. CASE ClosePending(t, s) \/ CloseEmergency(t, s) \/ CloseSuperseded(t, s)
             \/ CloseExpired(t, s) \/ CancelRow(t, s)
  <2>1. \E reason \in Reasons \ {"startup_cleanup"} :
            \E rest, next : CloseRow(t, s, reason, rest, next)
    BY <1>8 DEF ClosePending, CloseEmergency, CloseSuperseded, CloseExpired, CancelRow,
                CloseEvent, Reasons, PendingReasons
  <2>. QED BY <1>2, <1>7, <2>1
<1>9. ASSUME NEW reason \in Exits, CloseActive(t, s, reason)
      PROVE  (\E q \in Row : WritesBack(t, s, q)) /\ UNCHANGED <<outcome, born, fate, phase>>
  <2>1. reason \in Reasons \ {"startup_cleanup"}
    BY ConstantsAssumption DEF Reasons, ActiveReasons
  <2>2. \E rest, next : CloseRow(t, s, reason, rest, next)
    BY <1>9 DEF CloseActive, CloseEvent
  <2>. QED BY <1>7, <2>1, <2>2
<1>. QED BY <1>2, <1>4, <1>5, <1>6, <1>8, <1>9 DEF RowStep

LEMMA CleanRow ==
    ASSUME CleanInv, NEW t \in Tasks, NEW s \in Signals, RowStep(t, s)
    PROVE  CleanInv'
<1>1. LockInv' /\ TypeOK
    BY LockRow DEF CleanInv, LockInv
<1>2. PICK r \in Row : WritesBack(t, s, r)
    BY RowStepReason
<1>3. UNCHANGED <<outcome, born, fate, phase>> /\ Running
    BY RowStepReason DEF CleanInv
<1>4. \A q \in Signals : row'[q] = IF q = s THEN r ELSE row[q]
    BY <1>1, <1>2 DEF WritesBack, TypeOK
<1>5. \A u \in Tasks, q \in Signals : snap'[u][q] = IF u = t /\ q = s THEN r ELSE snap[u][q]
    BY <1>1, <1>2 DEF WritesBack, TypeOK
<1>6. Cleaned(r) => r.st = "closed" /\ (phase = "up" => outcome[s] # None)
    BY <1>2 DEF WritesBack, CleanInv
<1>7. \A q \in Signals : Cleaned(row'[q]) => row'[q].st = "closed" /\ (phase' = "up" => outcome'[q] # None)
    BY <1>3, <1>4, <1>6 DEF CleanInv
<1>8. \A u \in Tasks, q \in Signals : Cleaned(snap'[u][q]) =>
         snap'[u][q].st = "closed" /\ (phase' # "degraded" => outcome'[q] # None)
    BY <1>3, <1>5, <1>6 DEF CleanInv, Running
<1>9. BornOnce'
    BY <1>3 DEF CleanInv, BornOnce
<1>. QED BY <1>1, <1>3, <1>7, <1>8, <1>9 DEF CleanInv, Cleaned, Running

LEMMA CleanArm ==
    ASSUME CleanInv, NEW t \in Tasks, ArmSignal(t)
    PROVE  CleanInv'
<1> DEFINE r == [NoRow EXCEPT !.st = "pending"]
<1>1. LockInv' /\ TypeOK
    BY LockEnd DEF CleanInv, LockInv, EndStep
<1>2. /\ row' = [row EXCEPT ![mine[t]] = r] /\ pc[t] = "save"
      /\ UNCHANGED <<outcome, born, fate, phase, snap>>
    BY DEF ArmSignal
<1>3. ~Cleaned(r)
    BY ConstantsAssumption DEF Cleaned, NoRow, Reasons
<1>. HIDE DEF r
<1>4. \A s \in Signals : row'[s] = row[s] \/ row'[s] = r
    BY <1>1, <1>2 DEF TypeOK
<1>5. Running /\ BornOnce'
    BY <1>2 DEF CleanInv, BornOnce
<1>6. \A s \in Signals : Cleaned(row'[s]) => row'[s].st = "closed" /\ (phase' = "up" => outcome'[s] # None)
    BY <1>2, <1>3, <1>4, <1>5 DEF CleanInv
<1>. QED BY <1>1, <1>2, <1>5, <1>6 DEF CleanInv, Cleaned, Running

LEMMA CleanBegin ==
    ASSUME CleanInv, NEW t \in Tasks,
           \/ \E y \in Symbols : OnAggTrade(t, y) \/ ReviewForSymbol(t, y)
           \/ ReviewOpenSignals(t) \/ AcquireLock(t) \/ SaveBatchFails(t)
           \/ \E wanted \in SUBSET Signals \ {{}} : ForceClose(t, wanted)
           \/ \E s \in Signals : SelectAndDeliver(t, s)
    PROVE  CleanInv'
<1>1. LockInv'
  <2>1. ASSUME NEW y \in Symbols, OnAggTrade(t, y) \/ ReviewForSymbol(t, y) PROVE LockInv'
    BY <2>1, LockBegin DEF CleanInv, OnAggTrade, ReviewForSymbol, LockedOps
  <2>. QED BY <2>1, LockBeginUnlocked, LockDeliver, LockAcquire, LockFlush DEF CleanInv, FlushStep
<1>2. /\ UNCHANGED <<row, outcome, phase, snap>>
      /\ Running
    BY DEF OnAggTrade, ReviewForSymbol, BeginLocked, ReviewOpenSignals, AcquireLock,
           SaveBatchFails, ForceClose, SelectAndDeliver, db, CleanInv
<1>3. BornOnce'
  <2>1. CASE \E s \in Signals : SelectAndDeliver(t, s)
    BY <2>1, DeliverBornOnce DEF CleanInv, LockInv
  <2>2. CASE UNCHANGED <<born, fate>>
    BY <2>2 DEF CleanInv, BornOnce
  <2>. QED BY <2>1, <2>2 DEF OnAggTrade, ReviewForSymbol, BeginLocked, ReviewOpenSignals,
           AcquireLock, SaveBatchFails, ForceClose, db
<1>. QED BY <1>1, <1>2, <1>3, CleanQuiet

LEMMA CleanRead ==
    ASSUME CleanInv, NEW t \in Tasks, ReadStep(t)
    PROVE  CleanInv'
<1>1. LockInv' /\ TypeOK
    BY LockRead DEF CleanInv, LockInv
<1>2. pc[t] = "read" /\ \E work, persist : ReadWork(t, work, persist)
    BY DEF ReadStep, ReadSymbol, ReadAdverse, ReadSuperseded, ReadSweep, ReadForced,
           ReadForLink, ReadForCancel
<1>3. UNCHANGED <<row, outcome, born, fate, phase>> /\ snap' = [snap EXCEPT ![t] = row]
    BY <1>2 DEF ReadWork, db
<1>4. Running /\ BornOnce'
    BY <1>2, <1>3 DEF CleanInv, BornOnce
<1>5. \A u \in Tasks, s \in Signals : snap'[u][s] \in {snap[u][s], row[s]}
    BY <1>1, <1>3 DEF TypeOK
<1>. QED BY <1>1, <1>3, <1>4, <1>5, CleanQuiet

\* Saving a batch stores reasons.
LEMMA SaveBatchKeeps ==
    ASSUME TypeOK, NEW t \in Tasks, SaveBatch(t), NEW s \in Signals
    PROVE  outcome[s] # None => outcome'[s] # None
<1>1. PICK last \in [Ids(batch[t]) -> {p.why : p \in batch[t]}] :
         outcome' = [q \in Signals |-> IF q \in Ids(batch[t]) THEN last[q] ELSE outcome[q]]
    BY DEF SaveBatch
<1>2. \A p \in batch[t] : p.why \in Reasons
    BY DEF TypeOK, Payload
<1>3. s \in Ids(batch[t]) => last[s] # None
    BY <1>1, <1>2, ConstantsAssumption
<1>. QED BY <1>1, <1>3

LEMMA CleanFlush ==
    ASSUME CleanInv, NEW t \in Tasks, FlushStep(t)
    PROVE  CleanInv'
<1>1. LockInv' /\ TypeOK
    BY LockFlush DEF CleanInv, LockInv
<1>2. UNCHANGED <<row, born, fate, phase, snap>> /\ pc[t] # "idle"
    BY DEF FlushStep, QueueOutcome, FlushNothing, FlushTake, SaveBatch, db
<1>3. \A s \in Signals : outcome[s] # None => outcome'[s] # None
  <2>1. CASE SaveBatch(t)
    BY <1>1, <2>1, SaveBatchKeeps
  <2>2. CASE outcome' = outcome
    BY <2>2
  <2>. QED BY <2>1, <2>2 DEF FlushStep, QueueOutcome, FlushNothing, FlushTake, db
<1>4. Running /\ BornOnce'
    BY <1>2 DEF CleanInv, BornOnce
<1>. QED BY <1>1, <1>2, <1>3, <1>4, CleanQuiet

\* A task that ends or changes its operation forgets its snapshot or keeps it.
LEMMA CleanEnd ==
    ASSUME CleanInv, NEW t \in Tasks,
           \/ EndStep(t) /\ ~ArmSignal(t)
           \/ ArmTimeout(t) \/ LinkTimeout(t) \/ CycleTimeout(t)
    PROVE  CleanInv'
<1>1. LockInv' /\ TypeOK
    BY LockEnd, LockTimeout, LockCycleTimeout DEF CleanInv, LockInv
<1>2. UNCHANGED <<row, outcome, born, phase>> /\ pc[t] # "idle"
    BY DEF EndStep, EndRows, Finish, ReviewNextSymbol, SupersededReady, CooldownReject,
           Armed, Sent, NotSent, ArmTimeout, LinkTimeout, CycleTimeout, db
<1>3. snap' = snap \/ snap' = [snap EXCEPT ![t] = [s \in Signals |-> NoRow]]
    BY DEF EndStep, EndRows, Finish, ReviewNextSymbol, SupersededReady, CooldownReject,
           Armed, Sent, NotSent, ArmTimeout, LinkTimeout, CycleTimeout, Reset, Then
<1>4. \A u \in Tasks, s \in Signals : snap'[u][s] \in {snap[u][s], NoRow}
    BY <1>1, <1>3 DEF TypeOK
<1>5. \A s \in Signals : fate'[s] = "new" => fate[s] = "new"
  <2>1. CASE CycleTimeout(t)
    <3>1. PICK f \in {"sent", "unsent"} :
            fate' = [s \in Signals |-> IF s # mine[t] \/ fate[s] # "offered" THEN fate[s]
                                      ELSE IF pc[t] = "send" THEN f ELSE "unsent"]
      BY <2>1 DEF CycleTimeout
    <3>. QED BY <3>1
  <2>2. CASE fate' = fate \/ \E f \in {"sent", "unsent"} : fate' = [fate EXCEPT ![mine[t]] = f]
    BY <1>1, <2>2 DEF TypeOK
  <2>. QED BY <2>1, <2>2
          DEF EndStep, EndRows, Finish, ReviewNextSymbol, SupersededReady, CooldownReject,
              Armed, Sent, NotSent, ArmTimeout, LinkTimeout, db
<1>6. Running /\ BornOnce'
    BY <1>1, <1>2, <1>5, SameBorn DEF CleanInv
<1>. QED BY <1>1, <1>2, <1>4, <1>6, CleanQuiet

\* The clock, a crash, and the start that follows it.
LEMMA CleanEnvironment ==
    ASSUME BatchCovers, CleanInv, (\E s \in Signals : Expire(s)) \/ Crash \/ ReconcileFails \/ Startup
    PROVE  CleanInv'
<1>1. LockInv' /\ TypeOK /\ BornOnce
    BY LockEnvironment DEF CleanInv, LockInv
<1>2. CASE \E s \in Signals : Expire(s)
  <2>1. UNCHANGED <<row, outcome, born, fate, phase, snap, pc>>
    BY <1>2 DEF Expire, local
  <2>2. BornOnce' /\ \A u \in Tasks, s \in Signals : snap'[u][s] \in {snap[u][s], NoRow}
    BY <1>1, <2>1 DEF BornOnce
  <2>. QED BY <1>1, <2>1, <2>2, CleanQuiet DEF CleanInv
<1>3. CASE Crash
  <2>1. /\ UNCHANGED <<row, outcome, born>> /\ phase' = "boot"
        /\ \A t \in Tasks : pc'[t] = "idle" /\ \A s \in Signals : snap'[t][s] = NoRow
        /\ \A s \in Signals : fate'[s] = "new" => fate[s] = "new"
    BY <1>3 DEF Crash
  <2>2. BornOnce'
    BY <1>1, <2>1, SameBorn
  <2>3. ~Cleaned(NoRow)
    BY ConstantsAssumption DEF Cleaned, NoRow, Reasons
  <2>4. \A s \in Signals : Cleaned(row'[s]) => row'[s].st = "closed"
    BY <2>1 DEF CleanInv
  <2>5. \A t \in Tasks, s \in Signals : ~Cleaned(snap'[t][s])
    BY <2>1, <2>3 DEF Cleaned
  <2>. QED BY <1>1, <2>1, <2>2, <2>4, <2>5 DEF CleanInv, Cleaned, Running
<1>4. CASE CleanupOnStartup
  <2>1. /\ phase = "boot" /\ phase' = "reconcile"
        /\ row' = [s \in Signals |->
                     IF IsOpen(row[s])
                     THEN [row[s] EXCEPT !.st = "closed", !.why = "startup_cleanup"]
                     ELSE row[s]]
        /\ UNCHANGED <<outcome, born, fate, pc, snap>>
    BY <1>4 DEF CleanupOnStartup, local
  <2>2. ASSUME NEW s \in Signals, Cleaned(row'[s]) PROVE row'[s].st = "closed"
    <3>1. row[s] \in Row
      BY <1>1 DEF TypeOK
    <3>2. CASE IsOpen(row[s])
      BY <2>1, <3>1, <3>2 DEF Row
    <3>3. CASE ~IsOpen(row[s])
      <4>1. row'[s] = row[s]
        BY <2>1, <3>3
      <4>. QED BY <2>2, <4>1 DEF CleanInv, Cleaned
    <3>. QED BY <3>2, <3>3
  <2>3. BornOnce'
    BY <1>1, <2>1 DEF BornOnce
  <2>4. \A t \in Tasks, s \in Signals : Cleaned(snap'[t][s]) =>
           snap'[t][s].st = "closed" /\ outcome'[s] # None
    BY <2>1 DEF CleanInv
  <2>. QED BY <1>1, <2>1, <2>2, <2>3, <2>4 DEF CleanInv, Cleaned, Running
<1>5. CASE Reconcile
  <2>1. /\ phase = "reconcile" /\ phase' = "up" /\ UNCHANGED <<row, born, fate, pc, snap>>
    BY <1>5 DEF Reconcile, RecordRows, local
  <2>2. BornOnce'
    BY <1>1, <2>1 DEF BornOnce
  <2>3. ASSUME NEW s \in Signals, Cleaned(row[s]) PROVE outcome'[s] # None
    <3>1. s \in ClosedRows /\ row[s].why # None
      BY <2>3, ConstantsAssumption DEF CleanInv, ClosedRows, Cleaned, Reasons
    <3>. QED BY <1>1, <1>5, <3>1, ReconcileReaches
  <2>4. ASSUME NEW s \in Signals, outcome[s] # None PROVE outcome'[s] # None
    BY <1>5, <2>4 DEF Reconcile, RecordRows, Unreconciled
  <2>5. \A t \in Tasks, s \in Signals : Cleaned(snap'[t][s]) =>
           snap'[t][s].st = "closed" /\ outcome'[s] # None
    BY <2>1, <2>4 DEF CleanInv
  <2>6. \A s \in Signals : Cleaned(row'[s]) => row'[s].st = "closed" /\ outcome'[s] # None
    BY <2>1, <2>3 DEF CleanInv, Cleaned
  <2>. QED BY <1>1, <2>1, <2>2, <2>5, <2>6 DEF CleanInv, Cleaned, Running
<1>6. CASE ReconcileFails
  <2>1. phase' = "degraded" /\ UNCHANGED <<row, born, fate, pc, snap>>
    BY <1>6 DEF ReconcileFails, RecordRows, local
  <2>2. BornOnce'
    BY <1>1, <2>1 DEF BornOnce
  <2>. QED BY <1>1, <2>1, <2>2 DEF CleanInv, Cleaned, Running
<1>. QED BY <1>2, <1>3, <1>4, <1>5, <1>6 DEF Startup

LEMMA CleanNext ==
    ASSUME BatchCovers, CleanInv, [Next]_vars
    PROVE  CleanInv'
<1>1. CASE UNCHANGED vars
  <2>1. LockInv'
    BY <1>1, LockNext DEF CleanInv
  <2>2. UNCHANGED <<row, outcome, phase, snap, pc, born, fate>>
    BY <1>1 DEF vars, db, local
  <2>3. BornOnce'
    BY <2>2 DEF CleanInv, BornOnce
  <2>4. \A u \in Tasks, s \in Signals : snap'[u][s] \in {snap[u][s], NoRow}
    BY <2>2
  <2>. QED BY <2>1, <2>2, <2>3, <2>4, CleanQuiet DEF CleanInv
<1>2. CASE Environment
    BY <1>2, CleanBegin, CleanEnd, CleanEnvironment DEF Environment
<1>3. CASE Startup
    BY <1>3, CleanEnvironment
<1>4. ASSUME NEW t \in Tasks, Progress(t) PROVE CleanInv'
  <2>1. CASE EndStep(t)
    BY <2>1, CleanEnd, CleanArm
  <2>. QED BY <1>4, <2>1, CleanBegin, CleanRead, CleanRow, CleanFlush DEF Progress
<1>. QED BY <1>1, <1>2, <1>3, <1>4 DEF Next

\* "Those rows must still be visible to performance analytics": whatever operations
\* ran, wherever they were cut off, and however many reconciliations failed before,
\* a start that has reconciled leaves no row of a startup cleanup without an outcome,
\* as long as the closed rows fit the batch that reconcile_closed_outcomes looks at.
THEOREM CleanedRowsStayVisible == BatchCovers => (Spec => []CleanedRowsVisible)
<1>. SUFFICES ASSUME BatchCovers PROVE Spec => []CleanedRowsVisible
    OBVIOUS
<1>1. Init => CleanInv
  <2>. SUFFICES ASSUME Init PROVE CleanInv
    OBVIOUS
  <2>1. ~Cleaned(NoRow)
    BY ConstantsAssumption DEF Cleaned, NoRow, Reasons
  <2>2. BornOnce
    BY DEF Init, BornOnce
  <2>. QED BY <2>1, <2>2, LockInit DEF Init, CleanInv, Cleaned
<1>2. CleanInv => CleanedRowsVisible
    BY DEF CleanInv, CleanedRowsVisible, Cleaned, ClosedRows
<1>. QED BY <1>1, <1>2, CleanNext, PTL DEF Spec

-----------------------------------------------------------------------------
(* Outcomes: under the locks and without a cancellation, a close is never  *)
(* lost to analytics, however often the bot crashes.                       *)

\* No task is cancelled and no save fails: the bot may only crash.
OnlyCrashes == Faults \subseteq {"crash"}

LostInv ==
    /\ JournalInv /\ BornOnce
    /\ \A t \in Tasks : batch[t] # {} => pc[t] \in {"batch", "endBatch"}
    /\ \A s \in ClosedRows : row[s].why # None
    /\ phase = "up" => \A s \in ClosedRows : outcome[s] # None \/ OnItsWay(s)

\* What carries an outcome stays with the tasks other than t.
OthersCarry(t) ==
    \A u \in Tasks \ {t} : pc'[u] = pc[u] /\ cur'[u] = cur[u] /\ batch'[u] = batch[u]

\* Task t hands on what it carries: to the queue, to its batch, to the database.
HandsOn(t) ==
    /\ \A p \in queued : p \in queued' \union batch'[t]
    /\ \A p \in batch[t] : p \in batch'[t] \/ outcome'[p.id] # None
    /\ pc[t] = "queue" => \/ pc'[t] = "queue" /\ cur'[t] = cur[t]
                          \/ \E p \in queued' : p.id = cur[t]

LEMMA WayKept ==
    ASSUME NEW t \in Tasks, OthersCarry(t), HandsOn(t), NEW s \in Signals, OnItsWay(s)
    PROVE  OnItsWay(s)' \/ outcome'[s] # None
<1>1. CASE s \in Ids(queued)
  <2>1. PICK p \in queued : p.id = s
    BY <1>1 DEF Ids
  <2>2. p \in queued' \/ p \in batch'[t]
    BY DEF HandsOn
  <2>. QED BY <2>1, <2>2 DEF OnItsWay, Ids
<1>2. CASE s \in Ids(batch[t])
  <2>1. PICK p \in batch[t] : p.id = s
    BY <1>2 DEF Ids
  <2>2. p \in batch'[t] \/ outcome'[p.id] # None
    BY DEF HandsOn
  <2>. QED BY <2>1, <2>2 DEF OnItsWay, Ids
<1>3. CASE pc[t] = "queue" /\ cur[t] = s
  <2>1. CASE pc'[t] = "queue" /\ cur'[t] = s
    BY <2>1 DEF OnItsWay
  <2>2. CASE \E p \in queued' : p.id = s
    BY <2>2 DEF OnItsWay, Ids
  <2>. QED BY <1>3, <2>1, <2>2 DEF HandsOn
<1>4. CASE \E u \in Tasks \ {t} : s \in Ids(batch[u]) \/ (pc[u] = "queue" /\ cur[u] = s)
  <2>1. PICK u \in Tasks \ {t} : s \in Ids(batch[u]) \/ (pc[u] = "queue" /\ cur[u] = s)
    BY <1>4
  <2>2. pc'[u] = pc[u] /\ cur'[u] = cur[u] /\ batch'[u] = batch[u]
    BY DEF OthersCarry
  <2>. QED BY <2>1, <2>2 DEF OnItsWay, Ids
<1>. QED BY <1>1, <1>2, <1>3, <1>4 DEF OnItsWay

\* A step that writes no row and hands on what its task carries.
LEMMA LostQuiet ==
    ASSUME LostInv, JournalInv', BornOnce', NEW t \in Tasks, OthersCarry(t), HandsOn(t),
           UNCHANGED <<row, phase>>,
           \A s \in Signals : outcome[s] # None => outcome'[s] # None,
           batch'[t] # {} => pc'[t] \in {"batch", "endBatch"}
    PROVE  LostInv'
<1>1. \A u \in Tasks : batch'[u] # {} => pc'[u] \in {"batch", "endBatch"}
    BY DEF LostInv, OthersCarry
<1>2. ClosedRows' = ClosedRows
    BY DEF ClosedRows
<1>3. \A s \in ClosedRows : s \in Signals
    BY DEF ClosedRows
<1>4. phase' = "up" => \A s \in ClosedRows : outcome'[s] # None \/ OnItsWay(s)'
    BY <1>3, WayKept DEF LostInv
<1>. QED BY <1>1, <1>2, <1>4 DEF LostInv

\* A task that carries nothing and takes nothing up.
LEMMA LostNothing ==
    ASSUME LostInv, JournalInv', BornOnce', NEW t \in Tasks, pc[t] # "queue",
           OthersCarry(t), batch[t] = {}, batch'[t] = {}, UNCHANGED <<row, outcome, phase, queued>>
    PROVE  LostInv'
<1>1. HandsOn(t)
    BY DEF HandsOn
<1>. QED BY <1>1, LostQuiet

LEMMA LostBegin ==
    ASSUME OnlyLocked, LostInv, NEW t \in Tasks,
           \/ \E y \in Symbols : OnAggTrade(t, y) \/ ReviewForSymbol(t, y)
           \/ \E s \in Signals : SelectAndDeliver(t, s)
           \/ AcquireLock(t)
    PROVE  LostInv'
<1>1. JournalInv' /\ TypeOK
    BY JournalBegin, JournalDeliver, JournalAcquire
       DEF LostInv, OnAggTrade, ReviewForSymbol, JournalInv, LockInv
<1>2. /\ pc[t] \in {"idle", "lock"} /\ UNCHANGED <<row, outcome, phase, queued, cur, batch>>
      /\ \E p : pc' = [pc EXCEPT ![t] = p]
    BY DEF OnAggTrade, ReviewForSymbol, BeginLocked, SelectAndDeliver, AcquireLock, db
<1>3. BornOnce'
  <2>1. CASE \E s \in Signals : SelectAndDeliver(t, s)
    BY <1>1, <2>1, DeliverBornOnce DEF LostInv
  <2>2. CASE UNCHANGED <<born, fate>>
    BY <2>2 DEF LostInv, BornOnce
  <2>. QED BY <2>1, <2>2 DEF OnAggTrade, ReviewForSymbol, BeginLocked, AcquireLock, db
<1>4. batch[t] = {} /\ batch'[t] = {} /\ OthersCarry(t)
    BY <1>1, <1>2 DEF LostInv, OthersCarry, TypeOK
<1>. QED BY <1>1, <1>2, <1>3, <1>4, LostNothing

LEMMA LostRead ==
    ASSUME OnlyLocked, LostInv, NEW t \in Tasks, ReadStep(t)
    PROVE  LostInv'
<1>1. JournalInv' /\ TypeOK
    BY JournalRead DEF LostInv, JournalInv, LockInv
<1>2. pc[t] = "read" /\ \E work, persist : ReadWork(t, work, persist)
    BY DEF ReadStep, ReadSymbol, ReadAdverse, ReadSuperseded, ReadSweep, ReadForced,
           ReadForLink, ReadForCancel
<1>3. /\ UNCHANGED <<row, outcome, phase, queued, cur, batch, born, fate>>
      /\ pc' = [pc EXCEPT ![t] = "row"]
    BY <1>2 DEF ReadWork, db
<1>4. batch[t] = {} /\ batch'[t] = {} /\ OthersCarry(t) /\ BornOnce'
    BY <1>1, <1>2, <1>3 DEF LostInv, OthersCarry, TypeOK, BornOnce
<1>. QED BY <1>1, <1>2, <1>3, <1>4, LostNothing

LEMMA LostEnd ==
    ASSUME OnlyLocked, LostInv, NEW t \in Tasks, EndStep(t), ~ArmSignal(t)
    PROVE  LostInv'
<1>1. JournalInv' /\ TypeOK
    BY JournalEnd DEF LostInv, JournalInv, LockInv
<1>2. pc[t] \in {"row", "done", "send"} /\ UNCHANGED <<row, outcome, phase, queued, born>>
    BY DEF EndStep, EndRows, Finish, ReviewNextSymbol, SupersededReady, CooldownReject,
           Armed, Sent, NotSent, db
<1>3. /\ pc' = pc \/ \E p : pc' = [pc EXCEPT ![t] = p]
      /\ cur' = cur \/ \E c : cur' = [cur EXCEPT ![t] = c]
      /\ batch' = batch \/ batch' = [batch EXCEPT ![t] = {}]
    BY DEF EndStep, EndRows, Finish, ReviewNextSymbol, SupersededReady, CooldownReject,
           Armed, Sent, NotSent, Reset, Then
<1>4. \A s \in Signals : fate'[s] = "new" => fate[s] = "new"
  <2>1. fate' = fate \/ \E f \in {"sent", "unsent"} : fate' = [fate EXCEPT ![mine[t]] = f]
    BY DEF EndStep, EndRows, Finish, ReviewNextSymbol, SupersededReady, CooldownReject,
           Armed, Sent, NotSent, db
  <2>. QED BY <1>1, <2>1 DEF TypeOK
<1>5. BornOnce'
    BY <1>1, <1>2, <1>4, SameBorn DEF LostInv
<1>6. batch[t] = {} /\ batch'[t] = {} /\ OthersCarry(t)
    BY <1>1, <1>2, <1>3, ZenonT(60) DEF LostInv, OthersCarry, TypeOK
<1>. QED BY <1>1, <1>2, <1>5, <1>6, LostNothing

\* A step of a task that writes rows: what it closes is what it carries next.
LEMMA LostWrites ==
    ASSUME LostInv, JournalInv', NEW t \in Tasks, OthersCarry(t),
           pc[t] \in {"row", "save"}, batch[t] = {}, batch'[t] = {},
           UNCHANGED <<outcome, phase, queued, born, fate>>,
           \A s \in ClosedRows' :
              \/ s \in ClosedRows /\ row'[s] = row[s]
              \/ row'[s].why # None /\ pc'[t] = "queue" /\ cur'[t] = s
    PROVE  LostInv'
<1>1. HandsOn(t)
    BY DEF HandsOn
<1>2. \A u \in Tasks : batch'[u] # {} => pc'[u] \in {"batch", "endBatch"}
    BY DEF LostInv, OthersCarry
<1>3. \A s \in ClosedRows' : row'[s].why # None
    BY DEF LostInv
<1>4. \A s \in ClosedRows' : s \in Signals
    BY DEF ClosedRows
<1>5. ASSUME NEW s \in ClosedRows', phase = "up" PROVE outcome'[s] # None \/ OnItsWay(s)'
  <2>1. CASE s \in ClosedRows
    BY <1>1, <1>4, <1>5, <2>1, WayKept DEF LostInv
  <2>2. CASE pc'[t] = "queue" /\ cur'[t] = s
    BY <2>2 DEF OnItsWay
  <2>. QED BY <2>1, <2>2
<1>6. BornOnce'
    BY DEF LostInv, BornOnce
<1>. QED BY <1>2, <1>3, <1>5, <1>6 DEF LostInv

LEMMA LostRow ==
    ASSUME OnlyLocked, LostInv, NEW t \in Tasks, NEW s \in Signals, RowStep(t, s)
    PROVE  LostInv'
<1>1. JournalInv' /\ TypeOK /\ JournalInv
    BY JournalRow DEF LostInv, JournalInv, LockInv
<1>2. PICK r \in Row : /\ row' = [row EXCEPT ![s] = r]
                       /\ StaysOpen(t, s, r) \/ IsClosed(t, s, r)
    BY <1>1, RowStepWrites
<1>3. /\ pc[t] = "row" /\ UNCHANGED <<outcome, fate, phase, queued, batch>>
      /\ cur' = cur \/ \E q : cur' = [cur EXCEPT ![t] = q]
    BY <1>1, RowStepWrites
<1>4. row'[s] = r /\ \A q \in Signals \ {s} : row'[q] = row[q]
    BY <1>1, <1>2 DEF TypeOK
<1>5. pc' = pc \/ pc' = [pc EXCEPT ![t] = "queue"]
    BY <1>2 DEF StaysOpen, IsClosed
<1>6. batch[t] = {} /\ batch'[t] = {} /\ OthersCarry(t)
    BY <1>1, <1>3, <1>5 DEF LostInv, OthersCarry, TypeOK
<1>7. ASSUME NEW q \in ClosedRows'
      PROVE  \/ q \in ClosedRows /\ row'[q] = row[q]
             \/ row'[q].why # None /\ pc'[t] = "queue" /\ cur'[t] = q
  <2>1. CASE q # s
    BY <1>4, <2>1 DEF ClosedRows
  <2>2. CASE q = s
    <3>1. r.st = "closed"
      BY <1>4, <1>7, <2>2 DEF ClosedRows
    <3>2. IsClosed(t, s, r)
      BY <1>2, <3>1 DEF StaysOpen, IsOpen
    <3>3. pc'[t] = "queue" /\ cur'[t] = s /\ r.why \in Reasons
      BY <1>1, <3>2, SMTT(30) DEF IsClosed, TypeOK
    <3>. QED BY <1>4, <2>2, <3>3, ConstantsAssumption
  <2>. QED BY <2>1, <2>2
<1>8. born' = born
    BY DEF RowStep, Activate, MarkTp1, MarkChecked, ClosePending, CloseActive, CloseEmergency,
           CloseSuperseded, CloseExpired, LinkMessage, CancelRow, CloseEvent, CloseRow, Put
<1>. QED BY <1>1, <1>3, <1>6, <1>7, <1>8, LostWrites

LEMMA LostArm ==
    ASSUME OnlyLocked, LostInv, NEW t \in Tasks, ArmSignal(t)
    PROVE  LostInv'
<1>1. JournalInv' /\ TypeOK
    BY JournalArm DEF LostInv, JournalInv, LockInv
<1>2. /\ pc[t] = "save" /\ UNCHANGED <<outcome, born, fate, phase, queued, cur, batch>>
      /\ pc' = [pc EXCEPT ![t] = "end"]
      /\ row' = [row EXCEPT ![mine[t]] = [NoRow EXCEPT !.st = "pending"]]
    BY DEF ArmSignal
<1>3. \A q \in ClosedRows' : q \in ClosedRows /\ row'[q] = row[q]
  <2>1. [NoRow EXCEPT !.st = "pending"].st = "pending"
    BY DEF NoRow
  <2>. QED BY <1>1, <1>2, <2>1 DEF ClosedRows, TypeOK
<1>4. batch[t] = {} /\ batch'[t] = {} /\ OthersCarry(t)
    BY <1>1, <1>2 DEF LostInv, OthersCarry, TypeOK
<1>. QED BY <1>1, <1>2, <1>3, <1>4, LostWrites

LEMMA LostFlush ==
    ASSUME OnlyLocked, LostInv, NEW t \in Tasks, FlushStep(t)
    PROVE  LostInv'
<1>1. JournalInv' /\ TypeOK
    BY JournalQueue, JournalSave DEF LostInv, JournalInv, LockInv, FlushStep
<1>2. UNCHANGED <<row, phase, born, fate>>
    BY DEF FlushStep, QueueOutcome, FlushNothing, FlushTake, SaveBatch, db
<1>3. BornOnce'
    BY <1>2 DEF LostInv, BornOnce
<1>4. /\ \E p : pc' = [pc EXCEPT ![t] = p]
      /\ cur' = cur \/ \E c : cur' = [cur EXCEPT ![t] = c]
      /\ batch' = batch \/ \E b : batch' = [batch EXCEPT ![t] = b]
    BY DEF FlushStep, QueueOutcome, FlushNothing, FlushTake, SaveBatch, AfterFlush
<1>5. OthersCarry(t)
    BY <1>1, <1>4 DEF OthersCarry, TypeOK
<1>6. CASE QueueOutcome(t)
  <2>1. /\ pc[t] = "queue" /\ UNCHANGED <<outcome, batch>>
        /\ queued' = queued \union {[id |-> cur[t], why |-> snap[t][cur[t]].why]}
    BY <1>6 DEF QueueOutcome, db
  <2>2. batch[t] = {} /\ batch'[t] = {}
    BY <2>1 DEF LostInv
  <2>3. [id |-> cur[t], why |-> snap[t][cur[t]].why].id = cur[t]
    OBVIOUS
  <2>4. HandsOn(t)
    BY <2>1, <2>2, <2>3 DEF HandsOn
  <2>. QED BY <1>1, <1>2, <1>3, <1>5, <2>1, <2>2, <2>4, LostQuiet
<1>7. CASE FlushNothing(t)
  <2>1. pc[t] \in {"flush", "end"} /\ UNCHANGED <<outcome, batch, queued>>
    BY <1>7 DEF FlushNothing, db
  <2>2. batch[t] = {} /\ batch'[t] = {}
    BY <2>1 DEF LostInv
  <2>. QED BY <1>1, <1>2, <1>3, <1>5, <2>1, <2>2, LostNothing
<1>8. CASE FlushTake(t)
  <2>1. /\ pc[t] \in {"flush", "end"} /\ UNCHANGED outcome
        /\ batch' = [batch EXCEPT ![t] = queued]
        /\ pc' = [pc EXCEPT ![t] = IF @ = "flush" THEN "batch" ELSE "endBatch"]
    BY <1>8 DEF FlushTake, db
  <2>2. batch[t] = {} /\ batch'[t] = queued /\ pc'[t] \in {"batch", "endBatch"}
    BY <1>1, <2>1 DEF LostInv, TypeOK
  <2>3. HandsOn(t)
    BY <2>1, <2>2 DEF HandsOn
  <2>. QED BY <1>1, <1>2, <1>3, <1>5, <2>1, <2>2, <2>3, LostQuiet
<1>9. CASE SaveBatch(t)
  <2>1. /\ pc[t] \in {"batch", "endBatch"} /\ UNCHANGED queued
        /\ batch' = [batch EXCEPT ![t] = {}]
    BY <1>9 DEF SaveBatch
  <2>2. batch'[t] = {}
    BY <1>1, <2>1 DEF TypeOK
  <2>3. outcome' = [s \in Signals |-> IF s \in Ids(batch[t]) THEN row[s].why ELSE outcome[s]]
    BY <1>9, SaveBatchStores DEF LostInv
  <2>4. ASSUME NEW p \in batch[t] PROVE outcome'[p.id] # None
    <3>1. p.id \in Signals /\ p.id \in Ids(batch[t])
      BY <1>1 DEF TypeOK, Payload, Ids
    <3>2. row[p.id].why # None
      BY <3>1 DEF LostInv, JournalInv, TaskOK, Settled, ClosedRows
    <3>. QED BY <2>3, <3>1, <3>2
  <2>5. HandsOn(t)
    BY <2>1, <2>4 DEF HandsOn
  <2>6. \A s \in Signals : outcome[s] # None => outcome'[s] # None
    BY <1>1, <1>9, SaveBatchKeeps
  <2>. QED BY <1>1, <1>2, <1>3, <1>5, <2>2, <2>5, <2>6, LostQuiet
<1>. QED BY <1>6, <1>7, <1>8, <1>9 DEF FlushStep

LEMMA LostEnvironment ==
    ASSUME BatchCovers, LostInv, (\E s \in Signals : Expire(s)) \/ Crash \/ Startup
    PROVE  LostInv'
<1>1. JournalInv' /\ TypeOK /\ BornOnce
    BY JournalEnvironment DEF LostInv, JournalInv, LockInv
<1>2. CASE \E s \in Signals : Expire(s)
    BY <1>1, <1>2
       DEF Expire, local, LostInv, BornOnce, ClosedRows, OnItsWay, Ids
<1>3. CASE Crash
  <2>1. /\ UNCHANGED <<row, outcome, born>> /\ phase' = "boot"
        /\ \A t \in Tasks : batch'[t] = {}
        /\ \A s \in Signals : fate'[s] = "new" => fate[s] = "new"
    BY <1>3 DEF Crash
  <2>2. BornOnce'
    BY <1>1, <2>1, SameBorn
  <2>. QED BY <1>1, <2>1, <2>2 DEF LostInv, ClosedRows
<1>4. CASE CleanupOnStartup
  <2>1. /\ phase' = "reconcile"
        /\ row' = [s \in Signals |->
                     IF IsOpen(row[s])
                     THEN [row[s] EXCEPT !.st = "closed", !.why = "startup_cleanup"]
                     ELSE row[s]]
        /\ UNCHANGED <<outcome, born, fate, pc, batch>>
    BY <1>4 DEF CleanupOnStartup, local
  <2>2. ASSUME NEW s \in Signals, row'[s].st = "closed" PROVE row'[s].why # None
    <3>1. row[s] \in Row
      BY <1>1 DEF TypeOK
    <3>2. CASE IsOpen(row[s])
      <4>1. row'[s].why = "startup_cleanup"
        BY <2>1, <3>1, <3>2 DEF Row
      <4>. QED BY <4>1, ConstantsAssumption DEF Reasons
    <3>3. CASE ~IsOpen(row[s])
      <4>1. row'[s] = row[s]
        BY <2>1, <3>3
      <4>. QED BY <2>2, <4>1 DEF LostInv, ClosedRows
    <3>. QED BY <3>2, <3>3
  <2>3. BornOnce'
    BY <1>1, <2>1 DEF BornOnce
  <2>. QED BY <1>1, <2>1, <2>2, <2>3 DEF LostInv, ClosedRows
<1>5. CASE Reconcile
  <2>1. phase' = "up" /\ UNCHANGED <<row, born, fate, pc, batch>>
    BY <1>5 DEF Reconcile, RecordRows, local
  <2>2. BornOnce'
    BY <1>1, <2>1 DEF BornOnce
  <2>3. \A s \in ClosedRows : outcome'[s] # None
    BY <1>1, <1>5, ReconcileReaches DEF LostInv
  <2>. QED BY <1>1, <2>1, <2>2, <2>3 DEF LostInv, ClosedRows
<1>. QED BY <1>2, <1>3, <1>4, <1>5 DEF Startup

LEMMA LostNext ==
    ASSUME OnlyLocked, OnlyCrashes, BatchCovers, LostInv, [Next]_vars
    PROVE  LostInv'
<1>1. CASE UNCHANGED vars
  <2>1. JournalInv'
    BY <1>1, JournalNext DEF LostInv
  <2>. QED BY <1>1, <2>1 DEF vars, db, local, LostInv, BornOnce, ClosedRows, OnItsWay, Ids
<1>2. CASE Environment
  <2>1. ASSUME NEW t \in Tasks PROVE ~ReviewOpenSignals(t) /\ \A w : ~ForceClose(t, w)
    BY DEF ReviewOpenSignals, ForceClose, OnlyLocked, UnlockedOps
  <2>2. ASSUME NEW t \in Tasks
        PROVE  ~SaveBatchFails(t) /\ ~ArmTimeout(t) /\ ~LinkTimeout(t) /\ ~CycleTimeout(t)
    BY DEF SaveBatchFails, ArmTimeout, LinkTimeout, CycleTimeout, OnlyCrashes
  <2>3. ~ReconcileFails
    BY DEF ReconcileFails, OnlyCrashes
  <2>. QED BY <1>2, <2>1, <2>2, <2>3, LostBegin, LostEnvironment DEF Environment
<1>3. CASE Startup
    BY <1>3, LostEnvironment
<1>4. ASSUME NEW t \in Tasks, Progress(t) PROVE LostInv'
  <2>1. CASE EndStep(t)
    BY <2>1, LostEnd, LostArm
  <2>. QED BY <1>4, <2>1, LostBegin, LostRead, LostRow, LostFlush DEF Progress
<1>. QED BY <1>1, <1>2, <1>3, <1>4 DEF Next

\* When row writers take their locks, no task is cancelled and no save fails, the
\* outcome of every closed row is stored, queued or being saved while the bot is
\* up, whichever task flushes the shared queue and however often the bot crashed.
THEOREM OutcomesReachAnalytics ==
    OnlyLocked /\ OnlyCrashes /\ BatchCovers => (Spec => []OutcomeNotLost)
<1>. SUFFICES ASSUME OnlyLocked, OnlyCrashes, BatchCovers PROVE Spec => []OutcomeNotLost
    OBVIOUS
<1>1. Init => LostInv
  <2>. SUFFICES ASSUME Init PROVE LostInv
    OBVIOUS
  <2>1. BornOnce /\ ClosedRows = {}
    BY DEF Init, BornOnce, ClosedRows, NoRow
  <2>. QED BY <2>1, JournalInit DEF Init, LostInv
<1>2. LostInv => OutcomeNotLost
    BY DEF LostInv, OutcomeNotLost
<1>. QED BY <1>1, <1>2, LostNext, PTL DEF Spec

=============================================================================
